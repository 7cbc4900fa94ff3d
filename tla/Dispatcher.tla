------------------------------ MODULE Dispatcher ------------------------------
(***************************************************************************)
(* The framed dispatcher, ntex-dispatcher/src/lib.rs and timer.rs: one     *)
(* task decodes frames and hands them to a service, reacts to write        *)
(* backpressure and timeouts, and ends with a stop call, the drain of the  *)
(* calls in flight, and the shutdown of the service and the transport.     *)
(*                                                                         *)
(* Everything runs on one thread: a poll of the dispatcher is a sequence   *)
(* of steps, one per turn of its loop, during which no other task runs.    *)
(* The transport is what the dispatcher sees of it (IoConn has the rest);  *)
(* the service is an environment that answers, fails, and becomes ready    *)
(* or not as it likes.                                                     *)
(***************************************************************************)
EXTENDS Naturals

CONSTANTS
  MaxInflight,                        \* max_inflight()
  KeepAlive, FrameRate, WriteTimeout, \* which timeouts are configured
  Budget,                             \* periods in the rate's max_timeout, 0: no limit
  MaxInput,                           \* bound: frames and partial frames received
  MaxFills,                           \* bound: responses that fill the write buffer
  MaxPauses,                          \* bound: pauses of the filter chain
  MaxExternal,                        \* bound: calls of notify_timeout()
  MaxFlips                            \* bound: times readiness is lost while stopping

ASSUME DispatcherAssumption ==
  /\ MaxInflight \in Nat \ {0} /\ Budget \in Nat
  /\ {KeepAlive, FrameRate, WriteTimeout} \subseteq BOOLEAN
  /\ {MaxInput, MaxFills, MaxPauses, MaxExternal, MaxFlips} \subseteq Nat

VARIABLES
  st,        \* DispatcherState
  error,     \* DispatcherInner::error is set
  reason,    \* of the stop: "keepalive", "service" or another failure
  tm,        \* Timers: what the timer is armed for, the read phase, the keep-alive expiry
  io,        \* the transport
  slot,      \* DispatcherInner::response
  stopc,     \* StopCall::fut
  det,       \* calls with a task of their own
  inflight,  \* DispatcherShared::inflight
  serr,      \* DispatcherShared::error
  svc,       \* readiness of the service
  robs,      \* whose waker observes the readiness
  svcdown,   \* Pipeline::poll_shutdown
  pc,        \* the dispatcher's poll: "idle", "loop" or "flush"
  woken,     \* tasks that are scheduled
  sleep,     \* StopCall::timeout
  bg,        \* the task that the stop call is handed over to
  spent      \* bounded events so far

call == <<slot, stopc, det, inflight, serr>>
service == <<svc, robs, svcdown>>
task == <<pc, woken>>
vars == <<st, error, reason, tm, io, call, service, task, sleep, bg, spent>>

Results == {"none", "fills", "encoder", "service"}
Idle == [frame |-> FALSE, fast |-> FALSE, budget |-> 0]
Frame == [frame |-> TRUE, fast |-> FALSE, budget |-> Budget]

Quiet == [phase |-> "open", eof |-> FALSE, frames |-> 0, partial |-> FALSE, burst |-> FALSE,
          paused |-> FALSE, filter |-> FALSE, full |-> FALSE, drained |-> FALSE,
          armed |-> FALSE, timeout |-> FALSE, waker |-> "none"]
NoTimer == [active |-> "stopped", read |-> Idle, passed |-> TRUE]
Nothing == [input |-> 0, fills |-> 0, pauses |-> 0, external |-> 0, flips |-> 0]

\* Dispatcher::new and Timers::new: the first frame is timed from the start.
Init ==
  /\ st = "processing" /\ error = FALSE /\ reason = "none"
  /\ tm = IF FrameRate THEN [NoTimer EXCEPT !.active = "frame", !.read = Frame] ELSE NoTimer
  /\ io = [Quiet EXCEPT !.armed = FrameRate]
  /\ slot = "none" /\ stopc = "none" /\ det = [waiting |-> 0, running |-> 0]
  /\ inflight = 0 /\ serr = "none"
  /\ svc = "ready" /\ robs = "none" /\ svcdown = "no"
  /\ pc = "idle" /\ woken = {"dispatcher"} /\ sleep = "none" /\ bg = "none"
  /\ spent = Nothing

\* A dispatcher that stops reads nothing of the transport but its close: what
\* else happens there would wake it for nothing.
Listening == st \in {"processing", "backpressure"}

-----------------------------------------------------------------------------
(* Timers.  The operators take and return a pair of tm and io. *)

IoStopTimer(i) == [i EXCEPT !.armed = FALSE, !.timeout = FALSE]

StopTimer(c) ==
  IF c.tm.active = "stopped" THEN c
  ELSE [tm |-> [c.tm EXCEPT !.active = "stopped"], io |-> IoStopTimer(c.io)]

StartTimer(c, purpose) ==
  [tm |-> [c.tm EXCEPT !.active = purpose, !.passed = @ /\ purpose # "keepalive"],
   io |-> [c.io EXCEPT !.armed = TRUE]]

StartWriteTimer(c) ==
  IF ~WriteTimeout \/ c.io.filter THEN StopTimer(c)
  ELSE IF c.tm.active = "write" THEN c ELSE StartTimer(c, "write")

ResetRead(c) ==
  IF FrameRate /\ c.tm.read.frame THEN [c EXCEPT !.tm.read = Frame] ELSE c

\* The read side is not timed while the service or the filters hold it up.
Suspend(c) == ResetRead(IF c.tm.active = "write" THEN c ELSE StopTimer(c))

UpdateRead(c, item, partial) ==
  LET read == c.tm.read
      started == IF read.frame THEN read ELSE Frame
      next == IF item THEN Idle
              ELSE IF ~FrameRate THEN [Idle EXCEPT !.frame = partial]
              ELSE IF ~read.frame /\ ~partial THEN read
              ELSE [started EXCEPT !.fast = @ \/ c.io.burst]
  IN [tm |-> [c.tm EXCEPT !.read = next], io |-> [c.io EXCEPT !.burst = @ /\ item]]

Select(read, handling) ==
  IF read.frame THEN (IF FrameRate THEN "frame" ELSE "stopped")
  ELSE IF KeepAlive /\ ~handling THEN "keepalive" ELSE "stopped"

\* An armed keep-alive timer is suspended, not stopped.
SetTimer(c, timer) ==
  IF c.tm.active = timer THEN c
  ELSE IF timer # "stopped" THEN StartTimer(c, timer)
  ELSE IF c.tm.active \in {"keepalive", "suspended"}
       THEN [c EXCEPT !.tm.active = "suspended"]
       ELSE [tm |-> [c.tm EXCEPT !.active = "stopped"], io |-> IoStopTimer(c.io)]

UpdateTimer(c, item, partial) ==
  LET u == UpdateRead(c, item, partial)
  IN IF ~item /\ u.io.filter THEN Suspend(u)
     ELSE SetTimer(u, Select(u.tm.read, item \/ inflight # 0))

\* A timeout of the frame that is being read: enough bytes buy another period.
ReadRate(c) ==
  LET left == IF c.tm.read.budget = 0 THEN 0 ELSE c.tm.read.budget - 1
      next == [c EXCEPT !.tm.read.fast = FALSE, !.tm.read.budget = left]
  IN IF ~c.tm.read.frame THEN [c |-> [c EXCEPT !.tm.active = "stopped"], stop |-> "none"]
     ELSE IF c.tm.read.fast /\ (Budget = 0 \/ left > 0)
          THEN [c |-> StartTimer(next, "frame"), stop |-> "none"]
     ELSE [c |-> next, stop |-> "failure"]

HandleTimeout(c) ==
  LET goOn(d) == [c |-> d, stop |-> "none"]
      idle == [c |-> c, stop |-> IF inflight = 0 THEN "keepalive" ELSE "none"]
  IN CASE c.tm.active = "frame" -> ReadRate(c)
       [] c.tm.active = "write" ->
            IF ~c.io.full THEN goOn([c EXCEPT !.tm.active = "stopped"])
            ELSE IF c.io.filter THEN goOn(StopTimer(c))
            ELSE [c |-> c, stop |-> "failure"]
       [] c.tm.active = "keepalive" -> [c |-> c, stop |-> "keepalive"]
       [] c.tm.active = "suspended" /\ c.tm.passed ->
            goOn([c EXCEPT !.tm.active = "stopped"])
       [] OTHER -> idle

Conn == [tm |-> tm, io |-> io]
Becomes(c) == tm' = c.tm /\ io' = c.io
Consumed(c) == [c EXCEPT !.io.timeout = FALSE]
Registered(c) == [c EXCEPT !.io.waker = "dispatcher"]

-----------------------------------------------------------------------------
(* Calls *)

\* One poll of a call: what it becomes, and its result if that is "none".
\* Pipeline::call waits for readiness, a failed check is the call's result.
CallPolled(s) ==
  IF s = "ready" \/ (s = "waiting" /\ svc = "ready")
  THEN {<<"none", r>> : r \in Results} \cup (IF s = "waiting" THEN {<<"running", "none">>} ELSE {})
  ELSE IF s = "waiting" /\ svc = "failed" THEN {<<"none", "service">>}
  ELSE {<<s, "none">>}

\* handle_result(): the response is encoded, which may fail, and may fill the
\* write buffer; then encode() enables backpressure and wakes the dispatcher.
HandleResult(r) ==
  /\ r = "fills" => Listening /\ spent.fills < MaxFills
  /\ serr' = IF r \in {"encoder", "service"} THEN r ELSE serr
  /\ spent' = IF r = "fills" THEN [spent EXCEPT !.fills = @ + 1] ELSE spent

Filled(i, r) ==
  IF r = "fills" /\ i.phase # "closed" /\ ~i.full
  THEN [i EXCEPT !.full = TRUE, !.drained = FALSE, !.waker = "none"]
  ELSE IF r = "fills" THEN [i EXCEPT !.drained = FALSE] ELSE i

WokenBy(i, r) == IF r = "fills" /\ i.phase # "closed" /\ ~i.full THEN {i.waker} \ {"none"} ELSE {}

\* call_service(): the first poll of the call, which may return, with the
\* service ready or not; a call that is pending takes the slot or a new task.
CallService(c) ==
  \E p \in CallPolled("waiting") :
    /\ HandleResult(p[2])
    /\ Becomes([c EXCEPT !.io = Filled(c.io, p[2])])
    /\ woken' = woken \cup WokenBy(c.io, p[2])
    /\ inflight' = IF p[1] = "none" THEN inflight ELSE inflight + 1
    /\ slot' = IF slot = "none" THEN p[1] ELSE slot
    /\ det' = IF p[1] = "none" \/ slot = "none" THEN det ELSE [det EXCEPT ![p[1]] = @ + 1]
    /\ svc' \in (IF p[1] # "waiting" /\ svc = "ready" THEN {"ready", "pending"} ELSE {svc})
    /\ pc' = "loop"
    /\ UNCHANGED <<stopc, error, reason, svcdown, sleep, bg>>

\* stop(): set_close_reason() and the stop call, which the loop polls next.  The
\* input and the timers are not looked at any more, and forgotten here.
Stop(c, why) ==
  /\ tm' = NoTimer /\ io' = [Quiet EXCEPT !.phase = c.io.phase, !.waker = c.io.waker]
  /\ st' = "stop" /\ reason' = why /\ stopc' = "waiting" /\ inflight' = inflight + 1
  /\ error' = (error \/ why = "service")
  /\ pc' = "loop" /\ spent' = Nothing
  /\ UNCHANGED <<slot, det, svc, svcdown, woken, sleep, bg>>

\* A turn of the loop without a call.
Continue(c, at) ==
  /\ Becomes(c) /\ pc' = at
  /\ UNCHANGED <<error, reason, slot, stopc, det, inflight, svc, svcdown, woken, sleep, bg, spent>>

Pending(c) == Continue(c, "idle")

-----------------------------------------------------------------------------
(* Dispatcher::poll *)

\* The poll starts with the call in the slot.
PollStarts ==
  /\ pc = "idle" /\ "dispatcher" \in woken /\ st # "done"
  /\ \E p \in CallPolled(slot) :
       /\ HandleResult(p[2])
       /\ io' = Filled(io, p[2])
       /\ woken' = (woken \ {"dispatcher"}) \cup WokenBy(io, p[2])
       /\ inflight' = IF slot # "none" /\ p[1] = "none" THEN inflight - 1 ELSE inflight
       /\ slot' = p[1]
       /\ slot = "none" => p[2] = "none"
  /\ pc' = "loop"
  /\ UNCHANGED <<st, error, reason, tm, stopc, det, service, sleep, bg>>

Turn(state) == pc = "loop" /\ st = state

\* poll_service()
AtLimit == inflight >= MaxInflight
Paused == AtLimit \/ svc = "pending"
ServiceReady == ~AtLimit /\ svc = "ready"
Observed == robs' = IF AtLimit THEN robs ELSE "dispatcher"

ServiceFails ==
  /\ pc = "loop" /\ st \in {"processing", "backpressure"}
  /\ ~AtLimit /\ svc = "failed" /\ Observed
  /\ Stop(Conn, "service") /\ UNCHANGED serr

CheckError ==
  /\ pc = "loop" /\ st \in {"processing", "backpressure"}
  /\ ServiceReady /\ serr # "none" /\ Observed
  /\ serr' = "none"
  /\ Stop(Conn, IF serr = "service" THEN "service" ELSE "failure")

\* poll_read_pause(): the peer is not charged for the service.
PauseStatus ==
  LET c == Registered([Suspend(Conn) EXCEPT !.io.paused = TRUE])
      timedOut == HandleTimeout(Consumed(c))
  IN \/ /\ io.phase = "closed"
        /\ IF io.frames > 0 \/ io.partial THEN Pending(c) /\ UNCHANGED st
           ELSE Stop(c, "failure")
        /\ UNCHANGED <<serr>>
     \/ /\ io.phase # "closed" /\ c.io.timeout
        /\ IF timedOut.stop = "none" THEN Continue(timedOut.c, "loop") /\ UNCHANGED st
           ELSE Stop(timedOut.c, timedOut.stop)
        /\ UNCHANGED serr
     \/ /\ io.phase # "closed" /\ ~c.io.timeout /\ io.full /\ io.drained
        /\ Pending([c EXCEPT !.io.full = FALSE]) /\ UNCHANGED <<st, serr>>
     \/ /\ io.phase # "closed" /\ ~c.io.timeout /\ ~io.full
        /\ Pending(c) /\ UNCHANGED <<st, serr>>

ServicePaused ==
  /\ pc = "loop" /\ st \in {"processing", "backpressure"} /\ Paused /\ Observed
  /\ PauseStatus

\* Backpressure while the service is paused.
PausedBackpressure ==
  LET c == Registered([Suspend(Conn) EXCEPT !.io.paused = TRUE])
  IN /\ pc = "loop" /\ st \in {"processing", "backpressure"} /\ Paused /\ Observed
     /\ io.phase # "closed" /\ ~c.io.timeout /\ io.full /\ ~io.drained
     /\ st' = "backpressure"
     /\ IF st = "processing" THEN CallService(StartWriteTimer(c))
        ELSE Continue(c, "flush") /\ UNCHANGED serr

\* decode_item(): a frame, an error, or bytes that stay or are consumed.
Decoded(c) ==
  LET resumed == [c EXCEPT !.io.paused = FALSE]
  IN IF c.io.frames > 0
     THEN {[c |-> [resumed EXCEPT !.io.frames = @ - 1], item |-> TRUE, partial |-> FALSE]}
     ELSE {[c |-> [resumed EXCEPT !.io.partial = r], item |-> FALSE, partial |-> c.io.partial] :
             r \in {FALSE, c.io.partial}}

Receiving == Turn("processing") /\ ServiceReady /\ serr = "none" /\ Observed
TimedOut == io.phase = "open" /\ io.timeout

DecoderFails ==
  /\ Receiving /\ (io.frames > 0 \/ io.partial)
  /\ (io.phase = "open" /\ ~io.timeout => ~io.full) /\ (TimedOut => tm.active # "write")
  /\ Stop(Consumed([Conn EXCEPT !.io.paused = FALSE]), "failure")
  /\ UNCHANGED serr

\* poll_recv_decode() with neither a timeout nor backpressure.
RecvDecode ==
  /\ Receiving /\ ~TimedOut /\ (io.phase = "open" => ~io.full)
  /\ \E d \in Decoded(Conn) :
       LET u == UpdateTimer(d.c, d.item, d.partial)
       IN IF d.item THEN CallService(u) /\ UNCHANGED st
          ELSE /\ UNCHANGED serr
               /\ IF io.phase # "open" \/ io.eof THEN Stop(d.c, "failure")
                  ELSE Pending(Registered(u)) /\ UNCHANGED st

\* Mutant: the timeout is handled although a frame has been received with it.
RecvTimeoutFirst ==
  /\ Receiving /\ TimedOut
  /\ UNCHANGED serr
  /\ LET t == HandleTimeout(Consumed(Conn))
     IN IF t.stop = "none" THEN Continue(t.c, "loop") /\ UNCHANGED st ELSE Stop(t.c, t.stop)

\* RecvError::Timeout: input that came with a read timer wins over its expiry.
RecvTimeout ==
  /\ Receiving /\ TimedOut
  /\ IF tm.active = "write"
     THEN /\ UNCHANGED serr
          /\ LET t == HandleTimeout(Consumed(Conn))
             IN IF t.stop = "none" THEN Continue(t.c, "loop") /\ UNCHANGED st
                ELSE Stop(t.c, t.stop)
     ELSE \E d \in Decoded(Consumed(Conn)) :
            LET u == UpdateTimer(d.c, d.item, d.partial)
                t == HandleTimeout(u)
            IN IF d.item THEN CallService(u) /\ UNCHANGED st
               ELSE /\ UNCHANGED serr
                    /\ IF u.tm.active # tm.active THEN Continue(u, "loop") /\ UNCHANGED st
                       ELSE IF t.stop = "none" THEN Continue(t.c, "loop") /\ UNCHANGED st
                       ELSE Stop(t.c, t.stop)

RecvBackpressure ==
  /\ Receiving /\ io.phase = "open" /\ ~io.timeout /\ io.full
  /\ st' = "backpressure"
  /\ CallService(StartWriteTimer(Conn))

\* The backpressure state, once poll_service() lets it.
BackpressureTurn ==
  /\ Turn("backpressure") /\ ServiceReady /\ serr = "none" /\ Observed
  /\ Continue(Conn, "flush") /\ UNCHANGED <<st, serr>>

\* poll_status_update(), start_write_timer() and poll_flush().
Flush ==
  /\ pc = "flush"
  /\ UNCHANGED robs
  /\ LET r == Registered(Conn)
         t == IF io.phase = "open" /\ io.timeout THEN HandleTimeout(Consumed(r))
              ELSE [c |-> r, stop |-> "none"]
         w == StartWriteTimer(t.c)
     IN IF t.stop # "none" THEN Stop(t.c, t.stop) /\ UNCHANGED serr
        ELSE IF io.phase # "open" THEN Stop(w, "failure") /\ UNCHANGED serr
        ELSE IF io.full /\ ~io.drained THEN Pending(w) /\ UNCHANGED <<st, serr>>
        ELSE st' = "processing" /\ CallService([StopTimer(w) EXCEPT !.io.full = FALSE])

-----------------------------------------------------------------------------
(* Stop, drain, shutdown *)

\* The stop call has been answered: its error counts unless there is another.
StopAnswered ==
  /\ Turn("stop") /\ robs' = "dispatcher"
  /\ \E p \in CallPolled(stopc) :
       /\ p[1] = "none" /\ p[2] # "fills"
       /\ error' = (error \/ p[2] = "service" \/ (serr = "service" /\ p[2] # "encoder"))
       /\ serr' = "none"
  /\ io' = IoStopTimer(io)
  /\ stopc' = "none" /\ inflight' = inflight - 1 /\ st' = "shutdown"
  /\ UNCHANGED <<reason, tm, slot, det, svc, svcdown, pc, woken, sleep, bg, spent>>

StopPending ==
  /\ Turn("stop") /\ robs' = "dispatcher"
  /\ \E p \in CallPolled(stopc) :
       /\ p[1] # "none" /\ stopc' = p[1]
       /\ svc' \in (IF p[1] # stopc THEN {"ready", "pending"} ELSE {svc})
  /\ svc = "pending" => sleep # "elapsed"
  /\ sleep' = IF svc = "pending" /\ sleep = "none" THEN "running" ELSE sleep
  /\ pc' = "idle"
  /\ UNCHANGED <<st, error, reason, tm, io, slot, det, inflight, serr, svcdown, woken, bg, spent>>

\* The service was not ready for too long: the stop call goes to a task of its
\* own, the call in the slot is cancelled and its guard wakes the dispatcher.
HandOver ==
  /\ Turn("stop") /\ robs' = "dispatcher"
  /\ svc = "pending" /\ stopc \in {"waiting", "running"} /\ sleep = "elapsed"
  /\ st' = "shutdownio" /\ bg' = "deliver"
  /\ io' = [IoStopTimer(io) EXCEPT !.waker = IF slot = "none" THEN @ ELSE "none"]
  /\ woken' = woken \cup {"background"}
                    \cup (IF slot = "none" THEN {} ELSE {io.waker} \ {"none"})
  /\ slot' = "none" /\ inflight' = IF slot = "none" THEN inflight ELSE inflight - 1
  /\ UNCHANGED <<error, reason, tm, stopc, det, serr, svc, svcdown, pc, sleep, spent>>

\* Mutant: the service is shut down at once.
ShutdownTurnEager ==
  /\ Turn("shutdown") /\ robs' = "dispatcher"
  /\ IF svcdown = "done" THEN st' = "shutdownio" /\ UNCHANGED <<pc, svcdown, io>>
     ELSE pc' = "idle" /\ svcdown' = "running" /\ UNCHANGED <<st, io>>
  /\ UNCHANGED <<error, reason, tm, call, svc, woken, sleep, bg, spent>>

\* Mutant: the drain does not register with the transport.
ShutdownTurnUnseen ==
  /\ Turn("shutdown") /\ robs' = "dispatcher"
  /\ IF inflight # 0 THEN pc' = "idle" /\ UNCHANGED <<st, svcdown>>
     ELSE IF svcdown = "done" THEN st' = "shutdownio" /\ UNCHANGED <<pc, svcdown>>
     ELSE pc' = "idle" /\ svcdown' = "running" /\ UNCHANGED st
  /\ UNCHANGED <<error, reason, tm, io, call, svc, woken, sleep, bg, spent>>

\* The calls are drained, then the service is shut down.
ShutdownTurn ==
  /\ Turn("shutdown") /\ robs' = "dispatcher"
  /\ IF inflight # 0
     THEN pc' = "idle" /\ io' = [io EXCEPT !.waker = "dispatcher"] /\ UNCHANGED <<st, svcdown>>
     ELSE IF svcdown = "done" THEN st' = "shutdownio" /\ UNCHANGED <<pc, svcdown, io>>
     ELSE pc' = "idle" /\ svcdown' = "running" /\ UNCHANGED <<st, io>>
  /\ UNCHANGED <<error, reason, tm, call, svc, woken, sleep, bg, spent>>

\* Io::poll_shutdown()
ShutdownIoTurn ==
  /\ Turn("shutdownio") /\ pc' = "idle"
  /\ IF io.phase = "closed" THEN st' = "done" /\ UNCHANGED io
     ELSE /\ io' = [io EXCEPT !.phase = "closing", !.paused = FALSE, !.waker = "dispatcher"]
          /\ UNCHANGED st
  /\ UNCHANGED <<error, reason, tm, call, service, woken, sleep, bg, spent>>

\* The task of the stop call.
BackgroundPoll ==
  /\ pc = "idle" /\ "background" \in woken /\ bg = "deliver"
  /\ robs' = IF svcdown = "no" THEN "background" ELSE robs
  /\ \E p \in CallPolled(stopc) :
       /\ stopc = "none" => p[2] = "none"
       /\ HandleResult(p[2])
       /\ stopc' = p[1]
       /\ inflight' = IF stopc # "none" /\ p[1] = "none" THEN inflight - 1 ELSE inflight
       /\ LET filled == Filled(io, p[2])
          IN io' = IF p[1] = "none" /\ inflight' # 0
                   THEN [filled EXCEPT !.waker = "background"] ELSE filled
       /\ woken' = (woken \ {"background"}) \cup WokenBy(io, p[2])
       /\ bg' = IF p[1] = "none" /\ inflight' = 0 /\ svcdown = "done" THEN "done" ELSE bg
       /\ svcdown' = IF p[1] = "none" /\ inflight' = 0 /\ svcdown = "no" THEN "running" ELSE svcdown
  /\ UNCHANGED <<st, error, reason, tm, slot, det, svc, pc, sleep>>

PollStep ==
  \/ PollStarts \/ ServiceFails \/ CheckError \/ ServicePaused \/ PausedBackpressure
  \/ DecoderFails \/ RecvDecode \/ RecvTimeout \/ RecvBackpressure \/ BackpressureTurn \/ Flush
  \/ StopAnswered \/ StopPending \/ HandOver \/ ShutdownTurn \/ ShutdownIoTurn

-----------------------------------------------------------------------------
(* The service *)

StopOwner == IF bg = "none" THEN "dispatcher" ELSE "background"

\* A call future is able to go on.
CallWakes ==
  /\ pc = "idle"
  /\ \/ slot = "running" /\ slot' = "ready" /\ woken' = woken \cup {"dispatcher"}
        /\ UNCHANGED stopc
     \/ stopc = "running" /\ stopc' = "ready" /\ woken' = woken \cup {StopOwner}
        /\ UNCHANGED slot
  /\ UNCHANGED <<st, error, reason, tm, io, det, inflight, serr, service, pc, sleep, bg, spent>>

\* Mutant: nobody is told about a finished call.
DetachedQuiet ==
  /\ pc = "idle" /\ det.running > 0
  /\ \E r \in Results : HandleResult(r) /\ io' = Filled(io, r)
                         /\ woken' = woken \cup WokenBy(io, r)
  /\ det' = [det EXCEPT !.running = @ - 1] /\ inflight' = inflight - 1
  /\ UNCHANGED <<st, error, reason, tm, slot, stopc, service, pc, sleep, bg>>

\* A detached call ends: handle_result(), the guard, notify_dispatcher().
DetachedDone ==
  /\ pc = "idle" /\ det.running > 0
  /\ \E r \in Results : HandleResult(r) /\ io' = [Filled(io, r) EXCEPT !.waker = "none"]
  /\ woken' = woken \cup ({io.waker} \ {"none"})
  /\ det' = [det EXCEPT !.running = @ - 1] /\ inflight' = inflight - 1
  /\ UNCHANGED <<st, error, reason, tm, slot, stopc, service, pc, sleep, bg>>

DetachedStarts ==
  /\ pc = "idle" /\ det.waiting > 0 /\ svc # "pending"
  /\ IF svc = "ready"
     THEN /\ det' = [waiting |-> det.waiting - 1, running |-> det.running + 1]
          /\ UNCHANGED <<io, woken, inflight, serr>>
     ELSE /\ det' = [det EXCEPT !.waiting = @ - 1] /\ inflight' = inflight - 1
          /\ serr' = "service"
          /\ io' = [io EXCEPT !.waker = "none"] /\ woken' = woken \cup ({io.waker} \ {"none"})
  /\ UNCHANGED <<st, error, reason, tm, slot, stopc, service, pc, sleep, bg, spent>>

\* The readiness changes; the observer and the calls that wait are woken.
ServiceBecomes(s) ==
  /\ pc = "idle" /\ svc # s /\ svc # "failed" /\ svcdown = "no"
  /\ LET counted == s # "ready" /\ ~Listening
     IN /\ counted => spent.flips < MaxFlips
        /\ spent' = IF counted THEN [spent EXCEPT !.flips = @ + 1] ELSE spent
  /\ svc' = s /\ robs' = "none"
  /\ woken' = woken \cup ({robs} \ {"none"})
                    \cup (IF slot = "waiting" THEN {"dispatcher"} ELSE {})
                    \cup (IF stopc = "waiting" THEN {StopOwner} ELSE {})
  /\ UNCHANGED <<st, error, reason, tm, io, call, svcdown, pc, sleep, bg>>

ServiceShutdownDone ==
  /\ pc = "idle" /\ svcdown = "running" /\ svcdown' = "done"
  /\ woken' = woken \cup {StopOwner}
  /\ UNCHANGED <<st, error, reason, tm, io, call, svc, robs, pc, sleep, bg, spent>>

SleepElapses ==
  /\ pc = "idle" /\ sleep = "running" /\ sleep' = "elapsed"
  /\ woken' = woken \cup {"dispatcher"}
  /\ UNCHANGED <<st, error, reason, tm, io, call, service, pc, bg, spent>>

-----------------------------------------------------------------------------
(* The transport *)

Transport(i) ==
  /\ pc = "idle" /\ io' = [i EXCEPT !.waker = "none"]
  /\ woken' = woken \cup ({i.waker} \ {"none"})
  /\ UNCHANGED <<st, error, reason, call, service, pc, sleep, bg>>

Reading == Listening /\ io.phase = "open" /\ ~io.eof /\ ~io.paused /\ ~io.filter

Receive ==
  /\ Reading /\ spent.input < MaxInput
  /\ spent' = [spent EXCEPT !.input = @ + 1]
  /\ \/ Transport([io EXCEPT !.frames = @ + 1, !.partial = FALSE, !.burst = FALSE])
     \/ \E fast \in BOOLEAN : Transport([io EXCEPT !.partial = TRUE, !.burst = @ \/ fast])
  /\ UNCHANGED tm

PeerEof == Reading /\ Transport([io EXCEPT !.eof = TRUE]) /\ UNCHANGED <<tm, spent>>

\* The transport fails, or its shutdown is complete.
Closed ==
  /\ io.phase # "closed"
  /\ Transport([io EXCEPT !.phase = "closed"]) /\ UNCHANGED <<tm, spent>>

\* The output falls to the release threshold.
Drain ==
  /\ Listening /\ io.phase = "open" /\ io.full /\ ~io.drained /\ ~io.filter
  /\ Transport([io EXCEPT !.drained = TRUE]) /\ UNCHANGED <<tm, spent>>

FilterPause ==
  /\ Listening /\ io.phase = "open" /\ ~io.filter /\ spent.pauses < MaxPauses
  /\ spent' = [spent EXCEPT !.pauses = @ + 1]
  /\ Transport([io EXCEPT !.filter = TRUE]) /\ UNCHANGED tm

FilterResume ==
  /\ Listening /\ io.phase = "open" /\ io.filter
  /\ Transport([io EXCEPT !.filter = FALSE]) /\ UNCHANGED <<tm, spent>>

\* notify_timeout(), by the timer or by somebody else.
NotifyTimeout(i) ==
  IF i.timeout
  THEN /\ pc = "idle" /\ io' = i
       /\ UNCHANGED <<st, error, reason, call, service, pc, woken, sleep, bg>>
  ELSE Transport([i EXCEPT !.timeout = TRUE])

TimerFires ==
  /\ Listening /\ io.armed
  /\ tm' = [tm EXCEPT !.passed = @ \/ tm.active \in {"keepalive", "suspended"}]
  /\ NotifyTimeout([io EXCEPT !.armed = FALSE]) /\ UNCHANGED spent

ExternalTimeout ==
  /\ Listening /\ spent.external < MaxExternal /\ io.phase = "open"
  /\ spent' = [spent EXCEPT !.external = @ + 1]
  /\ NotifyTimeout(io) /\ UNCHANGED tm

-----------------------------------------------------------------------------
ServiceStep == CallWakes \/ DetachedDone \/ DetachedStarts \/ ServiceShutdownDone

TransportStep == Receive \/ PeerEof \/ Drain \/ FilterPause \/ FilterResume

Next ==
  \/ PollStep \/ BackgroundPoll
  \/ ServiceStep \/ SleepElapses \/ \E s \in {"ready", "pending", "failed"} : ServiceBecomes(s)
  \/ TransportStep \/ Closed \/ TimerFires \/ ExternalTimeout

\* Scheduled tasks are polled; calls end, a service that is not ready becomes
\* ready, a sleep elapses, and a shutdown of the transport ends (IoConn).
Fairness ==
  /\ WF_vars(PollStep) /\ WF_vars(BackgroundPoll)
  /\ WF_vars(CallWakes) /\ WF_vars(DetachedDone) /\ WF_vars(DetachedStarts)
  /\ WF_vars(ServiceBecomes("ready"))
  /\ WF_vars(ServiceShutdownDone) /\ WF_vars(SleepElapses)
  /\ WF_vars(io.phase = "closing" /\ Closed)

Spec == Init /\ [][Next]_vars /\ Fairness

-----------------------------------------------------------------------------
(* Properties *)

\* The keep-alive timer ends idle connections only: no service call is in
\* flight, no frame has been received and none is being read (select(),
\* update_timer(), handle_timeout()).
IdleOnly ==
  [][st # "stop" /\ st' = "stop" /\ reason' = "keepalive" /\ tm.active = "keepalive" =>
       inflight = 0 /\ io.frames = 0 /\ ~io.partial]_vars

\* A dispatcher that sleeps with a service that is ready has overlooked nothing:
\* no frame, no end of the stream, no timeout, no full write buffer, and no
\* error that a call with a task of its own has left behind (poll()).
NothingOverlooked ==
  pc = "idle" /\ "dispatcher" \notin woken /\ st = "processing" /\ ServiceReady =>
    /\ serr = "none" /\ io.frames = 0
    /\ io.phase = "open" /\ ~io.eof /\ ~io.timeout /\ ~io.full

\* The service is shut down after its last call, whichever task it is in, and
\* the count of calls is that of the calls that exist (CallGuard).
ServiceDrained ==
  LET One(c) == IF c = "none" THEN 0 ELSE 1
  IN /\ inflight = One(slot) + One(stopc) + det.waiting + det.running
     /\ svcdown # "no" => inflight = 0

\* A stop comes to its end: the dispatcher completes, or it has handed the stop
\* call over to a background task.
StopEnds == st = "stop" ~> st = "done" \/ bg # "none"

\* After the hand-over the dispatcher finishes the shutdown of the transport
\* ("stop delivery, draining, and service shutdown continue in a background task
\* while the dispatcher finishes transport shutdown", struct Dispatcher).
HandedOverEnds == bg # "none" ~> st = "done"
=============================================================================
