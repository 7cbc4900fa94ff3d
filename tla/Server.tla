-------------------------------- MODULE Server --------------------------------
(***************************************************************************)
(* A network server: the accept loop of ntex-server/src/net/accept.rs in   *)
(* front of the manager and its workers.  The accept thread takes          *)
(* connections from its listeners and submits them with Server::process(), *)
(* keeps what the server refuses in a backlog of its own, and obeys the    *)
(* commands that the manager and its own error timers send.                *)
(***************************************************************************)
EXTENDS ServerManager

CONSTANT Listeners   \* the listening sockets

vars == <<wrk, fate, left, mgr, mon, asks, acc, lst>>
mvars == <<wrk, left, mgr, mon, asks>>

\* Accept::new() and the start of poll(): backpressure is on until the server is
\* ready, yet the listeners are registered, with interest armed.
Init ==
  /\ MgrInit
  /\ fate = [c \in Conns |-> "new"]
  /\ acc = [pc |-> "accept", todo |-> Listeners, from |-> "accept", cur |-> NoConn,
            bp |-> TRUE, backlog |-> <<>>, cmds |-> <<>>, token |-> FALSE]
  /\ lst = [l \in Listeners |-> [armed |-> TRUE, timeout |-> FALSE, timers |-> 0, pending |-> {}]]

Arrive(l, c) ==
  /\ fate[c] = "new" /\ acc.pc # "gone" /\ left.arrivals > 0
  /\ left' = [left EXCEPT !.arrivals = @ - 1]
  /\ fate' = [fate EXCEPT ![c] = "arrived"]
  /\ lst' = [lst EXCEPT ![l].pending = @ \cup {c}]
  /\ UNCHANGED <<wrk, mgr, mon, asks, acc>>

-----------------------------------------------------------------------------
(* backpressure() *)

\* Listeners with an error timeout are not armed anyway: only the timeout goes.
Paused(ls) == [l \in Listeners |-> [ls[l] EXCEPT !.timeout = FALSE, !.armed = @ /\ ls[l].timeout]]
PauseAccept(a, ls) ==
  IF a.bp THEN acc' = a /\ lst' = ls
  ELSE acc' = [a EXCEPT !.bp = TRUE] /\ lst' = Paused(ls)

ResumeAccept ==
  /\ acc' = [acc EXCEPT !.bp = FALSE, !.pc = "accept"]
  /\ lst' = [l \in Listeners |-> [lst[l] EXCEPT !.armed = @ \/ ~lst[l].timeout]]

-----------------------------------------------------------------------------
(* accept(): one turn per connection that is taken; from is the loop that      *)
(* submits, accept() or the drain of backpressure(false).                      *)

Turn(l) == acc.pc = "accept" /\ l \in acc.todo
Then(a, l) == [a EXCEPT !.todo = @ \ {l}]

AcceptOne(l) ==
  /\ Turn(l)
  /\ \E c \in lst[l].pending :
       LET ls == [lst EXCEPT ![l].pending = @ \ {c}]
       IN /\ fate' = [fate EXCEPT ![c] = "accepted"]
          /\ \/ /\ Status(mgr) = "Ready"
                /\ acc' = [acc EXCEPT !.pc = "dispatch", !.from = "accept", !.cur = c]
                /\ lst' = ls
             \/ /\ Status(mgr) # "Ready"
                /\ PauseAccept(Then([acc EXCEPT !.backlog = Append(@, c)], l), ls)
  /\ UNCHANGED mvars

\* Nothing to accept: interest is armed again, whatever the backpressure.
AcceptNone(l) ==
  /\ Turn(l) /\ lst[l].pending = {}
  /\ acc' = Then(acc, l)
  /\ lst' = [lst EXCEPT ![l].armed = TRUE]
  /\ UNCHANGED <<mvars, fate>>

\* An error of one connection takes that connection only.
AcceptSkips(l) ==
  /\ Turn(l) /\ left.errors > 0
  /\ \E c \in lst[l].pending :
       /\ lst' = [lst EXCEPT ![l].pending = @ \ {c}]
       /\ fate' = [fate EXCEPT ![c] = "lost"]
  /\ left' = [left EXCEPT !.errors = @ - 1]
  /\ UNCHANGED <<wrk, mgr, mon, asks, acc>>

\* Any other error: the listener rests until the Timer command.
AcceptFails(l) ==
  /\ Turn(l) /\ left.errors > 0
  /\ left' = [left EXCEPT !.errors = @ - 1]
  /\ acc' = Then(acc, l)
  /\ lst' = [lst EXCEPT ![l].timeout = TRUE, ![l].timers = @ + 1]
  /\ UNCHANGED <<wrk, mgr, mon, asks, fate>>

\* The task that sends Timer once the error timeout has elapsed.
TimerFires(l) ==
  /\ lst[l].timers > 0
  /\ lst' = [lst EXCEPT ![l].timers = @ - 1]
  /\ acc' = Told(acc, <<"timer">>)
  /\ UNCHANGED <<mvars, fate>>

-----------------------------------------------------------------------------
(* Server::process(), after the status was seen to be Ready *)

Submitted == [acc EXCEPT !.pc = acc.from, !.cur = NoConn]

\* Back to the backlog: at its end from accept(), which pauses, at its front from
\* the drain, which gives up.
Refused ==
  \/ /\ acc.from = "accept"
     /\ \E l \in acc.todo :
          PauseAccept(Then([Submitted EXCEPT !.backlog = Append(@, acc.cur)], l), lst)
  \/ /\ acc.from = "drain"
     /\ acc' = [Submitted EXCEPT !.pc = "accept", !.backlog = <<acc.cur>> \o @]
     /\ UNCHANGED lst

Dispatch ==
  /\ acc.pc = "dispatch" /\ ~Locked
  /\ \/ /\ ~mgr.stopping
        /\ Dispatches(acc.cur, mgr)
        /\ acc' = Submitted /\ UNCHANGED lst
     \/ /\ ~mgr.stopping /\ NoWorker
        /\ mgr' = [mgr EXCEPT !.routed = {}]
        /\ acc' = [acc EXCEPT !.pc = "enqueue"] /\ UNCHANGED <<wrk, lst>>
     \/ mgr.stopping /\ Refused /\ UNCHANGED <<wrk, mgr>>
  /\ UNCHANGED <<fate, left, mon, asks>>

\* The channel is closed only after the accept loop is gone.
Enqueue ==
  /\ acc.pc = "enqueue" /\ mgr.open
  /\ mgr' = WithCmd(mgr, "item", acc.cur)
  /\ acc' = Submitted
  /\ UNCHANGED <<wrk, fate, left, mon, asks, lst>>

-----------------------------------------------------------------------------
(* process_cmd() *)

\* After the last listener's turn, until no command is left.
Command(op) == acc.pc = "accept" /\ acc.todo = {} /\ acc.cmds # <<>> /\ Head(acc.cmds) = op
Obeyed == [acc EXCEPT !.cmds = Tail(@)]

\* Stop and Terminate end the thread; the backlog and the listeners are dropped.
EndAccept ==
  /\ Command("stop") \/ Command("terminate")
  /\ acc' = [Obeyed EXCEPT !.pc = "gone", !.bp = TRUE, !.backlog = <<>>]
  /\ lst' = [l \in Listeners |-> [lst[l] EXCEPT !.armed = FALSE]]
  /\ fate' = [c \in Conns |-> IF c \in ToSet(acc.backlog) \/ fate[c] = "arrived"
                              THEN "dropped" ELSE fate[c]]
  /\ UNCHANGED mvars

ObeyPause ==
  /\ Command("pause")
  /\ PauseAccept(Obeyed, lst)
  /\ UNCHANGED <<mvars, fate>>

ObeyResume ==
  /\ Command("resume")
  /\ acc' = [Obeyed EXCEPT !.pc = IF acc.bp THEN "drain" ELSE @]
  /\ UNCHANGED <<mvars, fate, lst>>

\* process_timer(): the timeout of a listener whose timer is yet to fire may have
\* elapsed or not.
ObeyTimer ==
  /\ Command("timer")
  /\ acc' = Obeyed
  /\ \E due \in SUBSET {l \in Listeners : lst[l].timeout} :
       /\ \A l \in Listeners : lst[l].timeout /\ lst[l].timers = 0 => l \in due
       /\ lst' = IF acc.bp THEN lst
                 ELSE [l \in Listeners |-> IF l \in due
                         THEN [lst[l] EXCEPT !.timeout = FALSE, !.armed = TRUE] ELSE lst[l]]
  /\ UNCHANGED <<mvars, fate>>

\* backpressure(false): the backlog first; an item that the server refuses ends it.
Drain ==
  /\ acc.pc = "drain"
  /\ \/ acc.backlog = <<>> /\ ResumeAccept
     \/ /\ acc.backlog # <<>> /\ Status(mgr) = "Ready"
        /\ acc' = [acc EXCEPT !.pc = "dispatch", !.from = "drain", !.cur = Head(acc.backlog),
                              !.backlog = Tail(@)]
        /\ UNCHANGED lst
     \/ /\ acc.backlog # <<>> /\ Status(mgr) # "Ready"
        /\ acc' = [acc EXCEPT !.pc = "accept"]
        /\ UNCHANGED lst
  /\ UNCHANGED <<mvars, fate>>

\* Poller::wait(): a notification, or a connection at an armed listener; interest
\* is one-shot.  Every listener is tried then.
Heard == {l \in Listeners : lst[l].armed /\ lst[l].pending # {}}
Wake ==
  /\ acc.pc = "accept" /\ acc.todo = {} /\ acc.cmds = <<>> /\ (acc.token \/ Heard # {})
  /\ acc' = [acc EXCEPT !.todo = Listeners, !.token = FALSE]
  /\ lst' = [l \in Listeners |-> [lst[l] EXCEPT !.armed = @ /\ l \notin Heard]]
  /\ UNCHANGED <<mvars, fate>>

AcceptRuns ==
  \/ \E l \in Listeners : AcceptOne(l) \/ AcceptNone(l)
  \/ Dispatch \/ Enqueue \/ EndAccept \/ ObeyPause \/ ObeyResume \/ ObeyTimer
  \/ Drain \/ Wake

-----------------------------------------------------------------------------
Next ==
  \/ \E i \in Runs : (WorkerRuns(i) \/ WorkerSuffers(i)) /\ UNCHANGED <<mgr, mon, asks, acc, lst>>
  \/ ManagerRuns \/ RescheduleBlocked
  \/ \E w \in Workers : MonitorRuns(w)
  \/ AcceptRuns
  \/ \E l \in Listeners : AcceptSkips(l) \/ AcceptFails(l) \/ TimerFires(l)
                          \/ \E c \in Conns : Arrive(l, c)
  \/ \E k \in Callers : CallStop(k)
  \/ CallPause \/ CallResume

\* Every thread and task runs; a service that is not ready becomes ready again,
\* and the application that paused the server resumes it.
Spec ==
  /\ Init /\ [][Next]_vars
  /\ \A i \in Runs : WF_vars(WorkerRuns(i) /\ UNCHANGED <<mgr, mon, asks, acc, lst>>)
  /\ WF_vars(ManagerRuns)
  /\ \A w \in Workers : WF_vars(MonitorRuns(w))
  /\ WF_vars(AcceptRuns)
  /\ \A l \in Listeners : WF_vars(TimerFires(l))
  /\ WF_vars(CallResume)

-----------------------------------------------------------------------------
\* The places that hold a connection.
Spots(q, x) == {n \in DOMAIN q : q[n] = x}
Places(c) ==
  (UNION {{<<"queue", i, n>> : n \in Spots(wrk[i].queue, c)} : i \in Runs})
  \cup {<<"call", i>> : i \in Spots([i \in Runs |-> wrk[i].call], c)}
  \cup {<<"command", n>> : n \in Spots(mgr.cmds, Cmd("item", c))}
  \cup {<<"moving", n>> : n \in Spots(mgr.moving, c)}
  \cup {<<"backlog", n>> : n \in Spots(mgr.backlog, c)}
  \cup {<<"refused", n>> : n \in Spots(acc.backlog, c)}
  \cup (IF acc.cur = c THEN {<<"accept">>} ELSE {})

\* A connection that was accepted is in one place and no other until it is served,
\* lost with the worker that served it, or dropped: it moves between the accept
\* loop, the command queue, the manager and the workers without a copy left behind
\* and without falling between two of them.
OnePlace == \A c \in Conns : Cardinality(Places(c)) = IF fate[c] = "accepted" THEN 1 ELSE 0

\* A connection that was accepted comes to its end, whichever worker fails, stalls
\* or is restarted with it in its queue, unless the server stops.
AcceptedServed ==
  \A c \in Conns : fate[c] = "accepted" ~> (fate[c] # "accepted" \/ mgr.stopping)

\* A server that stays ready takes the connections that arrive: neither
\* backpressure nor the rest after an accept error outlasts its cause, although the
\* error's timer may fire while backpressure makes the loop ignore it.
ReadyListens ==
  <>[](Status(mgr) = "Ready") => \A c \in Conns : (fate[c] = "arrived" ~> fate[c] # "arrived")

\* A stop comes to its end whoever asked for it and whatever else was going on: no
\* worker is left behind, not one that was being created, stalled, recreating its
\* service or about to be restarted when the stop began, the accept thread is gone,
\* and whoever waits for the stop is answered.
StopCompletes ==
  mgr.stopping ~> /\ \A i \in Runs : wrk[i].pc \in {"none", "gone"}
                  /\ acc.pc = "gone"
                  /\ \A k \in Callers : asks[k] # "waiting"

=============================================================================
