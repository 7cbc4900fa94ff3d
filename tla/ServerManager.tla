---------------------------- MODULE ServerManager ----------------------------
(***************************************************************************)
(* The manager of a server: ntex-server/src/manager.rs and server.rs.  It  *)
(* routes items to the available workers, keeps those that no worker can   *)
(* take, restarts workers that fail, and stops the server.  The command    *)
(* loop, one monitor per worker and, with stop-on-panic, a stop procedure  *)
(* run as tasks of one thread; the accept thread dispatches through the    *)
(* router under its lock.                                                  *)
(***************************************************************************)
EXTENDS ServerWorkers

CONSTANT Callers   \* callers that wait for the server to stop

VARIABLES
  mgr,    \* the manager's state
  mon,    \* the monitor of each worker: its phase and the run it watches
  asks,   \* each caller: idle, waiting for the stop, or answered
  acc,    \* the accept loop; the manager sends it commands
  lst     \* its listeners

\* ServerManager::start(): every worker is started and registered.
MgrInit ==
  /\ left \in Scenarios
  /\ wrk = [i \in Runs |-> IF i \in left.workers \X {0} THEN Started ELSE Unused]
  /\ mgr = [paused |-> FALSE, available |-> FALSE, started |-> FALSE, stopping |-> FALSE,
            stopped |-> FALSE, routed |-> {}, running |-> left.workers \X {0},
            backlog |-> <<>>, cmds |-> <<>>, open |-> TRUE, pc |-> "loop", stage |-> "none",
            stopper |-> "none", notify |-> {}, blocked |-> {}, moving |-> <<>>]
  /\ mon = [w \in Workers |-> [pc |-> IF w \in left.workers THEN "check" ELSE "gone", run |-> 0]]
  /\ asks = [k \in Callers |-> "idle"]

Status(m) ==
  IF m.stopped THEN "Stopped"
  ELSE IF m.stopping THEN "Stopping"
  ELSE IF m.paused THEN "Paused"
  ELSE IF m.available THEN "Ready"
  ELSE IF m.started THEN "Unavailable"
  ELSE "Starting"

\* Mutant: only the first time that the server becomes ready is announced.
AnnouncedOnce(m, n) ==
  IF n.stopping \/ Status(m) = Status(n) THEN <<>>
  ELSE IF Status(n) = "Ready" /\ ~m.started THEN <<"resume">>
  ELSE IF Status(m) = "Ready" THEN <<"pause">>
  ELSE <<>>

\* update_status(): the configuration, that is the accept loop, is told when the
\* server becomes ready or stops being ready, but not while it stops.
Announced(m, n) ==
  IF n.stopping \/ Status(m) = Status(n) THEN <<>>
  ELSE IF Status(n) = "Ready" THEN <<"resume">>
  ELSE IF Status(m) = "Ready" THEN <<"pause">>
  ELSE <<>>

\* AcceptNotify::send()
Told(a, s) == [a EXCEPT !.cmds = @ \o s, !.token = @ \/ s # <<>>]
Becomes(n) == mgr' = n /\ acc' = Told(acc, Announced(mgr, n))

SetAvailable(m, b) == [m EXCEPT !.available = b, !.started = @ \/ b]

\* try_send(): commands are refused once the channel is closed.
Cmd(op, x) == [op |-> op, arg |-> x]
WithCmd(m, op, x) == IF m.open THEN [m EXCEPT !.cmds = Append(@, Cmd(op, x))] ELSE m

-----------------------------------------------------------------------------
(* Router::dispatch(): the balancer may choose any worker that it does not     *)
(* know to be blocked, or any if all are; a worker whose queue is closed is    *)
(* removed, and another one is chosen.                                         *)

OpenRouted == {i \in mgr.routed : IsOpen(i)}
ClosedRouted == mgr.routed \ OpenRouted
Selectable == IF OpenRouted \subseteq mgr.blocked THEN OpenRouted ELSE OpenRouted \ mgr.blocked
Dispatches(c, m) ==
  \E i \in Selectable, gone \in SUBSET ClosedRouted :
    /\ wrk' = Sent(wrk, i, c)
    /\ mgr' = [m EXCEPT !.routed = @ \ gone]
NoWorker == OpenRouted = {}

\* reschedule_blocked() holds the router's lock; neither it nor the drain of the
\* backlog lets another task of the manager's thread run.
Locked == mgr.pc \in {"take", "move"}
Busy == mgr.pc = "drain" \/ Locked

Named(S, w) == {i \in S : i[1] = w}

-----------------------------------------------------------------------------
(* handle_cmd() *)

Received(op) ==
  /\ mgr.pc = "loop" /\ mgr.stopper # "loop"
  /\ mgr.cmds # <<>> /\ Head(mgr.cmds).op = op
Arg == Head(mgr.cmds).arg
Rest == [mgr EXCEPT !.cmds = Tail(@)]

\* HandleCmdState::process()
ProcessItem ==
  /\ Received("item") /\ ~mgr.stopping
  /\ \/ Dispatches(Arg, Rest) /\ UNCHANGED acc
     \/ /\ NoWorker /\ UNCHANGED wrk
        /\ Becomes(SetAvailable([Rest EXCEPT !.routed = {}, !.backlog = Append(@, Arg)], FALSE))
  /\ UNCHANGED <<fate, left, mon, asks, lst>>

\* update_workers(), up to the backlog.  An update is stale when the worker has
\* become available again: its items stay with it.
WorkerAvailable ==
  /\ Received("available") /\ ~mgr.stopping
  /\ mgr' = [Rest EXCEPT !.routed = (@ \ Named(@, Arg[1])) \cup {Arg}, !.pc = "drain"]
  /\ UNCHANGED <<wrk, fate, left, mon, asks, acc, lst>>

WorkerUnavailable ==
  LET stale == wrk[Arg].status = "Available"
  IN /\ Received("unavailable") /\ ~mgr.stopping
     /\ mgr' = [Rest EXCEPT !.routed = @ \ Named(@, Arg[1]), !.pc = "drain",
                            !.backlog = IF stale THEN @ ELSE @ \o wrk[Arg].queue]
     /\ wrk' = IF stale THEN wrk ELSE Taken(wrk, Arg, wrk[Arg].status = "Failed")
     /\ UNCHANGED <<fate, left, mon, asks, acc, lst>>

\* Mutant: the item that no worker takes is not put back.
DrainBacklogLoses ==
  /\ mgr.pc = "drain"
  /\ \/ /\ mgr.backlog # <<>>
        /\ Dispatches(Head(mgr.backlog), [mgr EXCEPT !.backlog = Tail(@)])
        /\ UNCHANGED acc
     \/ /\ mgr.backlog = <<>> \/ NoWorker
        /\ LET m == [mgr EXCEPT !.pc = "loop", !.routed = IF mgr.backlog = <<>> THEN @ ELSE {},
                               !.backlog = IF @ = <<>> THEN @ ELSE Tail(@)]
           IN Becomes(SetAvailable(m, m.backlog = <<>> /\ m.routed # {}))
        /\ UNCHANGED wrk
  /\ UNCHANGED <<fate, left, mon, asks, lst>>

\* update_workers(), the backlog: one item at a time, until no worker takes one.
DrainBacklog ==
  /\ mgr.pc = "drain"
  /\ \/ /\ mgr.backlog # <<>>
        /\ Dispatches(Head(mgr.backlog), [mgr EXCEPT !.backlog = Tail(@)])
        /\ UNCHANGED acc
     \/ /\ mgr.backlog = <<>> \/ NoWorker
        /\ LET m == [mgr EXCEPT !.pc = "loop", !.routed = IF mgr.backlog = <<>> THEN @ ELSE {}]
           IN Becomes(SetAvailable(m, m.backlog = <<>> /\ m.routed # {}))
        /\ UNCHANGED wrk
  /\ UNCHANGED <<fate, left, mon, asks, lst>>

-----------------------------------------------------------------------------
(* reschedule_blocked(): the router stays locked, but the workers go on.       *)

\* On the interval: some workers, not all, are blocked by a long turn of their
\* runtime.
RescheduleBlocked ==
  /\ mgr.pc = "loop" /\ mgr.stopper # "loop" /\ ~mgr.stopping
  /\ Cardinality(left.workers) > 1 /\ left.blocks > 0
  /\ \E B \in SUBSET mgr.routed \ {{}, mgr.routed} :
       mgr' = [mgr EXCEPT !.pc = "take", !.blocked = B]
  /\ left' = [left EXCEPT !.blocks = @ - 1]
  /\ UNCHANGED <<wrk, fate, mon, asks, acc, lst>>

\* What the blocked workers have not received by now is taken from them.
TakeBlocked ==
  /\ mgr.pc = "take"
  /\ \/ \E i \in mgr.blocked :
          /\ wrk[i].queue # <<>>
          /\ mgr' = [mgr EXCEPT !.moving = Append(@, Head(wrk[i].queue))]
          /\ wrk' = [wrk EXCEPT ![i].queue = Tail(@)]
     \/ /\ \A i \in mgr.blocked : wrk[i].queue = <<>>
        /\ mgr' = [mgr EXCEPT !.pc = "move"] /\ UNCHANGED wrk
  /\ UNCHANGED <<fate, left, mon, asks, acc, lst>>

\* It goes to other workers, or joins a backlog that is not empty.
MoveBlocked ==
  LET c == Head(mgr.moving)
      m == [mgr EXCEPT !.moving = Tail(@)]
  IN /\ mgr.pc = "move" /\ mgr.moving # <<>>
     /\ \/ mgr.backlog = <<>> /\ Dispatches(c, m)
        \/ /\ mgr.backlog # <<>> \/ NoWorker
           /\ mgr' = [m EXCEPT !.backlog = Append(@, c),
                               !.routed = IF mgr.backlog = <<>> THEN {} ELSE @]
           /\ UNCHANGED wrk
     /\ UNCHANGED <<fate, left, mon, asks, acc, lst>>

MovedBlocked ==
  LET m == [mgr EXCEPT !.pc = "loop", !.blocked = {}]
  IN /\ mgr.pc = "move" /\ mgr.moving = <<>>
     /\ IF mgr.backlog = <<>> THEN mgr' = m /\ UNCHANGED acc ELSE Becomes(SetAvailable(m, FALSE))
     /\ UNCHANGED <<wrk, fate, left, mon, asks, lst>>

-----------------------------------------------------------------------------
\* Pause and Resume of the application.
SetPaused ==
  /\ Received("pause") \/ Received("resume")
  /\ ~mgr.stopping
  /\ Becomes([Rest EXCEPT !.paused = (Head(mgr.cmds).op = "pause")])
  /\ UNCHANGED <<wrk, fate, left, mon, asks, lst>>

\* add_stop_notify()
NotifyLater(k) ==
  IF mgr.stopped THEN mgr' = Rest /\ asks' = [asks EXCEPT ![k] = "answered"]
  ELSE mgr' = [Rest EXCEPT !.notify = @ \cup {k}] /\ UNCHANGED asks

AddStopNotify ==
  /\ Received("notify") \/ (Received("stop") /\ mgr.stopping)
  /\ NotifyLater(Arg)
  /\ UNCHANGED <<wrk, fate, left, mon, acc, lst>>

\* Commands that a stopping server throws away; the item of a command is dropped.
Discard ==
  /\ mgr.stopping
  /\ \E op \in {"item", "available", "unavailable", "pause", "resume"} : Received(op)
  /\ mgr' = Rest
  /\ fate' = IF Head(mgr.cmds).op = "item" THEN [fate EXCEPT ![Arg] = "dropped"] ELSE fate
  /\ UNCHANGED <<wrk, left, mon, asks, acc, lst>>

-----------------------------------------------------------------------------
(* HandleCmdState::stop() *)

\* The router is closed and the accept loop told to stop.
Stopping(m, by, ks) ==
  [m EXCEPT !.stopping = TRUE, !.routed = {}, !.stage = "accept", !.stopper = by,
            !.notify = @ \cup ks]

CommandStop ==
  /\ Received("stop") /\ ~mgr.stopping
  /\ mgr' = Stopping(Rest, "loop", {Arg})
  /\ acc' = Told(acc, <<"stop">>)
  /\ UNCHANGED <<wrk, fate, left, mon, asks, lst>>

\* Once the accept loop is gone every worker that was running is stopped.
StopWorkers ==
  /\ mgr.stage = "accept" /\ acc.pc = "gone"
  /\ mgr' = [mgr EXCEPT !.stage = "workers"]
  /\ wrk' = [i \in Runs |-> [wrk[i] EXCEPT !.stop = @ \/ (i \in mgr.running /\ wrk[i].pc # "gone")]]
  /\ UNCHANGED <<fate, left, mon, asks, acc, lst>>

\* The workers have answered, or the graceful timeout expires, or nobody waits:
\* the callers are answered and the command channel is closed.
StopDone ==
  /\ mgr.stage = "workers"
  /\ mgr' = [mgr EXCEPT !.stopped = TRUE, !.open = FALSE, !.notify = {}, !.stage = "done",
                        !.stopper = "none"]
  /\ asks' = [k \in Callers |-> IF k \in mgr.notify THEN "answered" ELSE asks[k]]
  /\ UNCHANGED <<wrk, fate, left, mon, acc, lst>>

\* handle_cmd() ends with the channel, and DropHandle ends the accept loop.  What
\* is still in the backlog is dropped.
LoopEnds ==
  /\ mgr.pc = "loop" /\ mgr.stopper # "loop" /\ ~mgr.open /\ mgr.cmds = <<>>
  /\ mgr' = [mgr EXCEPT !.pc = "gone", !.backlog = <<>>]
  /\ fate' = [c \in Conns |-> IF c \in ToSet(mgr.backlog) THEN "dropped" ELSE fate[c]]
  /\ acc' = Told(acc, <<"terminate">>)
  /\ UNCHANGED <<wrk, left, mon, asks, lst>>

-----------------------------------------------------------------------------
(* The monitor of the worker w: the task of start_worker() *)

Watched(w) == <<w, mon[w].run>>

\* The monitor looks at the status at first, and whenever it has changed.
Looks(w) ==
  /\ ~Busy
  /\ \/ mon[w].pc = "check"
     \/ mon[w].pc = "wait" /\ (wrk[Watched(w)].news \/ wrk[Watched(w)].status = "Failed")

Report(w) ==
  LET r == wrk[Watched(w)]
      op == IF r.status = "Available" THEN "available" ELSE "unavailable"
  IN /\ Looks(w) /\ r.status # "Failed"
     /\ mgr' = IF mgr.stopping THEN mgr ELSE WithCmd(mgr, op, Watched(w))
     /\ wrk' = [wrk EXCEPT ![Watched(w)].news = FALSE]
     /\ mon' = [mon EXCEPT ![w].pc = "wait"]
     /\ UNCHANGED <<fate, left, asks, acc, lst>>

Failed(w) == Looks(w) /\ wrk[Watched(w)].status = "Failed"
MonitorEnds(w, m) ==
  /\ mgr' = [m EXCEPT !.running = @ \ Named(@, w)]
  /\ mon' = [mon EXCEPT ![w].pc = "gone"]

FailedStopping(w) ==
  /\ Failed(w) /\ mgr.stopping
  /\ MonitorEnds(w, mgr)
  /\ UNCHANGED <<wrk, fate, left, asks, acc, lst>>

\* stop-on-panic: the monitor runs the stop procedure.  It stays with it, so that
\* its worker is registered until the procedure is over.
FailedStops(w) ==
  /\ Failed(w) /\ ~mgr.stopping /\ left.stopOnPanic
  /\ mgr' = Stopping(mgr, "monitor", {})
  /\ acc' = Told(acc, <<"stop">>)
  /\ mon' = [mon EXCEPT ![w].pc = "stopper"]
  /\ UNCHANGED <<wrk, fate, left, asks, lst>>

StopperEnds(w) ==
  /\ mon[w].pc = "stopper" /\ mgr.stage = "done"
  /\ MonitorEnds(w, mgr)
  /\ UNCHANGED <<wrk, fate, left, asks, acc, lst>>

\* Mutant: the manager is not told of a failed worker, it is just restarted.
FailedQuietly(w) ==
  /\ Failed(w) /\ ~mgr.stopping /\ ~left.stopOnPanic
  /\ mon' = [mon EXCEPT ![w].pc = "sleep"]
  /\ UNCHANGED <<wrk, fate, left, mgr, asks, acc, lst>>

FailedReported(w) ==
  /\ Failed(w) /\ ~mgr.stopping /\ ~left.stopOnPanic
  /\ mgr' = WithCmd(mgr, "unavailable", Watched(w))
  /\ mon' = [mon EXCEPT ![w].pc = "sleep"]
  /\ UNCHANGED <<wrk, fate, left, asks, acc, lst>>

\* Mutant: a stop that began during the delay goes unnoticed.
RestartBlindly(w) ==
  LET i == <<w, mon[w].run + 1>>
  IN /\ mon[w].pc = "sleep" /\ ~Busy
     /\ wrk' = [wrk EXCEPT ![i] = Started]
     /\ mgr' = [mgr EXCEPT !.running = (@ \ Named(@, w)) \cup {i}]
     /\ mon' = [mon EXCEPT ![w] = [pc |-> "wait", run |-> @.run + 1]]
     /\ UNCHANGED <<fate, left, asks, acc, lst>>

\* After RESTART_DELAY, a new worker of the same name, unless the server stops.
Restart(w) ==
  LET i == <<w, mon[w].run + 1>>
  IN /\ mon[w].pc = "sleep" /\ ~Busy
     /\ \/ mgr.stopping /\ MonitorEnds(w, mgr) /\ UNCHANGED wrk
        \/ /\ ~mgr.stopping
           /\ wrk' = [wrk EXCEPT ![i] = Started]
           /\ mgr' = [mgr EXCEPT !.running = (@ \ Named(@, w)) \cup {i}]
           /\ mon' = [mon EXCEPT ![w] = [pc |-> "wait", run |-> @.run + 1]]
     /\ UNCHANGED <<fate, left, asks, acc, lst>>

-----------------------------------------------------------------------------
(* Calls of the application: Server::stop(), Server as a future, pause(),      *)
(* resume().  A signal is a stop that nobody waits for.                        *)

CallStop(k) ==
  /\ asks[k] = "idle" /\ left.stops > 0
  /\ left' = [left EXCEPT !.stops = @ - 1]
  /\ \E op \in {"stop", "notify"} : mgr' = WithCmd(mgr, op, k)
  /\ asks' = [asks EXCEPT ![k] = IF mgr.open THEN "waiting" ELSE "answered"]
  /\ UNCHANGED <<wrk, fate, mon, acc, lst>>

CallPause ==
  /\ left.pauses > 0 /\ mgr.open
  /\ mgr' = WithCmd(mgr, "pause", NoConn)
  /\ left' = [left EXCEPT !.pauses = @ - 1]
  /\ UNCHANGED <<wrk, fate, mon, asks, acc, lst>>

CallResume ==
  /\ mgr.paused /\ mgr.open /\ ~\E n \in DOMAIN mgr.cmds : mgr.cmds[n].op = "resume"
  /\ mgr' = WithCmd(mgr, "resume", NoConn)
  /\ UNCHANGED <<wrk, fate, left, mon, asks, acc, lst>>

ManagerRuns ==
  \/ ProcessItem \/ WorkerAvailable \/ WorkerUnavailable \/ DrainBacklog
  \/ TakeBlocked \/ MoveBlocked \/ MovedBlocked \/ SetPaused
  \/ AddStopNotify \/ Discard \/ CommandStop \/ StopWorkers \/ StopDone \/ LoopEnds
MonitorRuns(w) ==
  \/ Report(w) \/ FailedStopping(w) \/ FailedStops(w) \/ StopperEnds(w)
  \/ FailedReported(w) \/ Restart(w)
=============================================================================
