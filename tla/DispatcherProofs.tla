--------------------------- MODULE DispatcherProofs ---------------------------
(***************************************************************************)
(* Proofs about Dispatcher for any limit on the calls in flight, any       *)
(* timeouts and any number of events.                                      *)
(***************************************************************************)
EXTENDS Dispatcher, Integers, TLAPS

USE DispatcherAssumption DEF DispatcherAssumption

CallStates == {"none", "waiting", "running", "ready"}

Live(c) == IF c = "none" THEN 0 ELSE 1
Calls == Live(slot) + Live(stopc) + det.waiting + det.running

\* Where the calls and the shutdown of the service are in each state of the
\* dispatcher: the stop call exists from the stop on, and the service is shut
\* down by the dispatcher or, after a hand-over, by the background task.
PhaseInv ==
  /\ st \in {"processing", "backpressure", "stop", "shutdown", "shutdownio", "done"}
  /\ Listening => stopc = "none" /\ svcdown = "no" /\ bg = "none"
  /\ st = "stop" => stopc # "none" /\ svcdown = "no" /\ bg = "none"
  /\ st = "shutdown" => bg = "none"
  /\ pc = "flush" => st = "backpressure"

CallInv ==
  /\ slot \in CallStates /\ stopc \in CallStates
  /\ det \in [waiting : Nat, running : Nat] /\ inflight \in Nat
  /\ inflight = Calls
  /\ svcdown # "no" => inflight = 0
  /\ PhaseInv

-----------------------------------------------------------------------------
(* Calls *)

LEMMA CallsTyped ==
  ASSUME CallInv
  PROVE  /\ Live(slot) \in 0..1 /\ Live(stopc) \in 0..1
         /\ det.waiting \in Nat /\ det.running \in Nat /\ inflight \in Nat
         /\ inflight = Live(slot) + Live(stopc) + det.waiting + det.running
BY DEF CallInv, Calls, Live

LEMMA CallPolledType ==
  ASSUME NEW s \in CallStates, NEW p \in CallPolled(s)
  PROVE  /\ p[1] \in CallStates /\ p[2] \in Results
         /\ s = "none" => p[1] = "none"
         /\ s = "waiting" => p[1] \in {"none", "running", "waiting"}
BY DEF CallPolled, CallStates, Results

\* A call that is made is in the slot or has a task of its own.
LEMMA CallServiceCounts ==
  ASSUME CallInv, NEW c, CallService(c)
  PROVE  /\ slot' \in CallStates /\ det' \in [waiting : Nat, running : Nat] /\ inflight' \in Nat
         /\ stopc' = stopc /\ svcdown' = svcdown /\ bg' = bg /\ pc' = "loop" /\ inflight' = Calls'
<1>1. PICK p \in CallPolled("waiting") :
        /\ inflight' = IF p[1] = "none" THEN inflight ELSE inflight + 1
        /\ slot' = IF slot = "none" THEN p[1] ELSE slot
        /\ det' = IF p[1] = "none" \/ slot = "none" THEN det ELSE [det EXCEPT ![p[1]] = @ + 1]
  BY DEF CallService
<1>2. stopc' = stopc /\ svcdown' = svcdown /\ bg' = bg /\ pc' = "loop"
  BY DEF CallService
<1>3. p[1] \in {"none", "running", "waiting"}
  BY CallPolledType DEF CallStates
<1>4. slot \in CallStates /\ det \in [waiting : Nat, running : Nat]
  BY DEF CallInv
<1>5. CASE p[1] = "none"
  <2>1. inflight' = inflight /\ slot' = slot /\ det' = det
    BY <1>1, <1>5
  <2> QED
    BY <1>2, <2>1, <1>4, CallsTyped DEF Calls
<1>6. CASE p[1] # "none" /\ slot = "none"
  <2>1. inflight' = inflight + 1 /\ slot' = p[1] /\ det' = det /\ Live(slot) = 0 /\ Live(p[1]) = 1
    BY <1>1, <1>6 DEF Live
  <2>2. inflight' = Live(slot') + Live(stopc') + det'.waiting + det'.running
    BY <1>2, <2>1, CallsTyped
  <2> QED
    BY <1>2, <1>3, <1>4, <2>1, <2>2, CallsTyped DEF Calls, CallStates
<1>7. CASE p[1] # "none" /\ slot # "none"
  <2>1. /\ inflight' = inflight + 1 /\ slot' = slot /\ det' = [det EXCEPT ![p[1]] = @ + 1]
    BY <1>1, <1>7
  <2>2. /\ det' \in [waiting : Nat, running : Nat]
        /\ det'.waiting + det'.running = det.waiting + det.running + 1
    <3>1. CASE p[1] = "waiting"
      <4>1. det' = [det EXCEPT !.waiting = @ + 1]
        BY <2>1, <3>1
      <4>2. /\ det'.waiting = det.waiting + 1 /\ det'.running = det.running
            /\ det' \in [waiting : Nat, running : Nat]
        BY <1>4, <4>1
      <4> QED
        BY <4>2, CallsTyped
    <3>2. CASE p[1] = "running"
      <4>1. det' = [det EXCEPT !.running = @ + 1]
        BY <2>1, <3>2
      <4>2. /\ det'.waiting = det.waiting /\ det'.running = det.running + 1
            /\ det' \in [waiting : Nat, running : Nat]
        BY <1>4, <4>1
      <4> QED
        BY <4>2, CallsTyped
    <3> QED
      BY <1>3, <1>7, <3>1, <3>2
  <2>3. det'.waiting \in Nat /\ det'.running \in Nat
    BY <2>2
  <2>4. inflight' = Live(slot') + Live(stopc') + det'.waiting + det'.running
    <3> PICK x \in Nat, y \in Nat : det'.waiting = x /\ det'.running = y
      BY <2>3
    <3> QED
      BY <1>2, <2>1, <2>2, CallsTyped
  <2> QED
    BY <1>2, <1>4, <2>1, <2>2, <2>4, CallsTyped DEF Calls
<1> QED
  BY <1>5, <1>6, <1>7

\* The three ways a turn of the loop goes on while the dispatcher listens.
LEMMA ServiceCalled ==
  ASSUME CallInv, Listening, NEW c, CallService(c), st' \in {"processing", "backpressure"}
  PROVE  CallInv'
<1>1. stopc = "none" /\ svcdown = "no" /\ bg = "none" /\ stopc \in CallStates
  BY DEF CallInv, PhaseInv
<1>2. /\ slot' \in CallStates /\ det' \in [waiting : Nat, running : Nat] /\ inflight' \in Nat
      /\ stopc' = stopc /\ svcdown' = svcdown /\ bg' = bg /\ pc' = "loop" /\ inflight' = Calls'
  BY CallServiceCounts
<1>3. PhaseInv'
  BY <1>1, <1>2 DEF PhaseInv, Listening
<1> QED
  BY <1>1, <1>2, <1>3 DEF CallInv

LEMMA Stopped == ASSUME CallInv, Listening, NEW c, NEW why, Stop(c, why) PROVE CallInv'
<1>1. stopc = "none" /\ svcdown = "no" /\ bg = "none"
  BY DEF CallInv, PhaseInv
<1>2. /\ st' = "stop" /\ stopc' = "waiting" /\ inflight' = inflight + 1 /\ pc' = "loop"
      /\ slot' = slot /\ det' = det /\ svcdown' = svcdown /\ bg' = bg
  BY DEF Stop
<1>3. PhaseInv'
  BY <1>1, <1>2 DEF PhaseInv, Listening
<1>4. inflight' = Calls' /\ inflight' \in Nat
  <2>1. Live(stopc) = 0 /\ Live(stopc') = 1
    BY <1>1, <1>2 DEF Live
  <2> QED
    BY <1>2, <2>1, CallsTyped DEF Calls
<1> QED
  BY <1>1, <1>2, <1>3, <1>4 DEF CallInv, CallStates

LEMMA Continued ==
  ASSUME CallInv, Listening, NEW c, NEW to, Continue(c, to), st' \in {"processing", "backpressure"},
         to = "flush" => st' = "backpressure"
  PROVE  CallInv'
BY DEF Continue, CallInv, PhaseInv, Listening, Calls

LEMMA ListeningTurns ==
  ASSUME CallInv,
         ServiceFails \/ CheckError \/ ServicePaused \/ PausedBackpressure \/ DecoderFails
           \/ RecvDecode \/ RecvTimeout \/ RecvBackpressure \/ BackpressureTurn \/ Flush
  PROVE  /\ Listening
         /\ \/ \E c : CallService(c) /\ st' \in {"processing", "backpressure"}
            \/ \E c, why : Stop(c, why)
            \/ \E c, to : /\ Continue(c, to) /\ st' \in {"processing", "backpressure"}
                          /\ to = "flush" => st' = "backpressure"
<1>1. CASE ServiceFails
  BY <1>1 DEF ServiceFails, Listening
<1>2. CASE CheckError
  BY <1>2 DEF CheckError, Listening
<1>3. CASE ServicePaused
  BY <1>3 DEF ServicePaused, PauseStatus, Listening, Pending
<1>4. CASE PausedBackpressure
  BY <1>4 DEF PausedBackpressure, Listening
<1>5. CASE DecoderFails
  BY <1>5 DEF DecoderFails, Receiving, Turn, Listening
<1>6. CASE RecvDecode
  BY <1>6 DEF RecvDecode, Receiving, Turn, Listening, Pending
<1>7. CASE RecvTimeout
  BY <1>7 DEF RecvTimeout, Receiving, Turn, Listening
<1>8. CASE RecvBackpressure
  BY <1>8 DEF RecvBackpressure, Receiving, Turn, Listening
<1>9. CASE BackpressureTurn
  BY <1>9 DEF BackpressureTurn, Turn, Listening
<1>10. CASE Flush
  <2>1. st = "backpressure"
    BY <1>10 DEF Flush, CallInv, PhaseInv
  <2> QED
    BY <1>10, <2>1 DEF Flush, Listening, Pending
<1> QED
  BY <1>1, <1>2, <1>3, <1>4, <1>5, <1>6, <1>7, <1>8, <1>9, <1>10

LEMMA CallStep == CallInv /\ [Next]_vars => CallInv'
<1> SUFFICES ASSUME CallInv, [Next]_vars PROVE CallInv'
  OBVIOUS
<1> USE DEF call, service, task
<1>0. /\ Live(slot) \in 0..1 /\ Live(stopc) \in 0..1
      /\ det.waiting \in Nat /\ det.running \in Nat /\ inflight \in Nat
      /\ inflight = Live(slot) + Live(stopc) + det.waiting + det.running
  BY CallsTyped
<1>1. CASE ServiceFails \/ CheckError \/ ServicePaused \/ PausedBackpressure \/ DecoderFails
             \/ RecvDecode \/ RecvTimeout \/ RecvBackpressure \/ BackpressureTurn \/ Flush
  BY <1>1, ListeningTurns, ServiceCalled, Stopped, Continued
<1>2. ASSUME UNCHANGED <<call, st, svcdown, pc, bg>> PROVE CallInv'
  BY <1>2 DEF CallInv, PhaseInv, Listening, Calls

\* A poll of the call in the slot, which may end it.
<1>3. CASE PollStarts
  <2>1. PICK p \in CallPolled(slot) :
          /\ inflight' = IF slot # "none" /\ p[1] = "none" THEN inflight - 1 ELSE inflight
          /\ slot' = p[1]
    BY <1>3 DEF PollStarts
  <2>2. UNCHANGED <<st, stopc, det, svcdown, bg>> /\ pc' = "loop"
    BY <1>3 DEF PollStarts
  <2>3. p[1] \in CallStates /\ (slot = "none" => p[1] = "none")
    BY CallPolledType DEF CallInv
  <2>4. inflight' \in Nat /\ inflight' = Calls' /\ (inflight = 0 => inflight' = 0)
    <3>1. CASE slot # "none" /\ p[1] = "none"
      <4>1. inflight' = inflight - 1 /\ Live(slot) = 1 /\ Live(slot') = 0
        BY <2>1, <3>1 DEF Live
      <4> QED
        BY <1>0, <2>2, <4>1 DEF Calls
    <3>2. CASE ~(slot # "none" /\ p[1] = "none")
      <4>1. inflight' = inflight /\ Live(slot') = Live(slot)
        BY <2>1, <2>3, <3>2 DEF Live
      <4> QED
        BY <1>0, <2>2, <4>1 DEF Calls
    <3> QED
      BY <3>1, <3>2
  <2> QED
    BY <2>1, <2>2, <2>3, <2>4 DEF CallInv, PhaseInv, Listening
<1>4. CASE StopAnswered
  <2>1. /\ UNCHANGED <<slot, det, svcdown, pc, bg>> /\ stopc' = "none" /\ inflight' = inflight - 1
        /\ st' = "shutdown" /\ st = "stop" /\ pc = "loop"
    BY <1>4 DEF StopAnswered, Turn
  <2>2. stopc # "none" /\ svcdown = "no" /\ bg = "none"
    BY <2>1 DEF CallInv, PhaseInv
  <2>3. Live(stopc) = 1 /\ Live(stopc') = 0
    BY <2>1, <2>2 DEF Live
  <2>4. inflight' \in Nat /\ inflight' = Calls'
    BY <1>0, <2>1, <2>3 DEF Calls
  <2> QED
    BY <2>1, <2>2, <2>4 DEF CallInv, PhaseInv, Listening, CallStates
<1>5. CASE StopPending
  <2>1. PICK p \in CallPolled(stopc) : p[1] # "none" /\ stopc' = p[1]
    BY <1>5 DEF StopPending
  <2>2. UNCHANGED <<st, slot, det, inflight, svcdown, bg>> /\ pc' = "idle" /\ st = "stop"
    BY <1>5 DEF StopPending, Turn
  <2>3. p[1] \in CallStates /\ stopc # "none"
    BY <2>1, <2>2, CallPolledType DEF CallInv, PhaseInv
  <2>4. Live(stopc') = Live(stopc)
    BY <2>1, <2>3 DEF Live
  <2> QED
    BY <2>1, <2>2, <2>3, <2>4 DEF CallInv, PhaseInv, Listening, Calls
<1>6. CASE HandOver
  <2>1. /\ st = "stop" /\ st' = "shutdownio" /\ slot' = "none" /\ pc = "loop"
        /\ inflight' = IF slot = "none" THEN inflight ELSE inflight - 1
        /\ UNCHANGED <<stopc, det, svcdown, pc>>
    BY <1>6 DEF HandOver, Turn
  <2>2. svcdown = "no"
    BY <2>1 DEF CallInv, PhaseInv
  <2>3. inflight' \in Nat /\ inflight' = Calls'
    BY <1>0, <2>1 DEF Calls, Live
  <2> QED
    BY <2>1, <2>2, <2>3 DEF CallInv, PhaseInv, Listening, CallStates
<1>7. CASE ShutdownTurn
  BY <1>7 DEF ShutdownTurn, Turn, CallInv, PhaseInv, Listening, Calls
<1>8. CASE ShutdownIoTurn
  BY <1>8 DEF ShutdownIoTurn, Turn, CallInv, PhaseInv, Listening, Calls
<1>9. CASE BackgroundPoll
  <2>1. PICK p \in CallPolled(stopc) :
          /\ stopc' = p[1]
          /\ inflight' = IF stopc # "none" /\ p[1] = "none" THEN inflight - 1 ELSE inflight
          /\ bg' = IF p[1] = "none" /\ inflight' = 0 /\ svcdown = "done" THEN "done" ELSE bg
          /\ svcdown' = IF p[1] = "none" /\ inflight' = 0 /\ svcdown = "no" THEN "running" ELSE svcdown
    BY <1>9 DEF BackgroundPoll
  <2>2. UNCHANGED <<st, slot, det, pc>> /\ pc = "idle" /\ bg = "deliver"
    BY <1>9 DEF BackgroundPoll
  <2>3. p[1] \in CallStates /\ (stopc = "none" => p[1] = "none")
    BY CallPolledType DEF CallInv
  <2>4. inflight' \in Nat /\ inflight' = Calls' /\ (inflight = 0 => inflight' = 0)
    <3>1. CASE stopc # "none" /\ p[1] = "none"
      <4>1. inflight' = inflight - 1 /\ Live(stopc) = 1 /\ Live(stopc') = 0
        BY <2>1, <3>1 DEF Live
      <4> QED
        BY <1>0, <2>2, <4>1 DEF Calls
    <3>2. CASE ~(stopc # "none" /\ p[1] = "none")
      <4>1. inflight' = inflight /\ Live(stopc') = Live(stopc)
        BY <2>1, <2>3, <3>2 DEF Live
      <4> QED
        BY <1>0, <2>2, <4>1 DEF Calls
    <3> QED
      BY <3>1, <3>2
  <2>5. st \in {"shutdownio", "done"}
    BY <2>2 DEF CallInv, PhaseInv, Listening
  <2>6. svcdown' # "no" => inflight' = 0
    BY <2>1, <2>4 DEF CallInv
  <2> QED
    BY <2>1, <2>2, <2>3, <2>4, <2>5, <2>6 DEF CallInv, PhaseInv, Listening
<1>10. CASE CallWakes
  <2>1. /\ UNCHANGED <<st, det, inflight, svcdown, bg, pc>>
        /\ \/ slot # "none" /\ slot' = "ready" /\ stopc' = stopc
           \/ stopc # "none" /\ stopc' = "ready" /\ slot' = slot
    BY <1>10 DEF CallWakes
  <2>2. Live(slot') = Live(slot) /\ Live(stopc') = Live(stopc)
    BY <2>1 DEF Live
  <2> QED
    BY <2>1, <2>2 DEF CallInv, PhaseInv, Listening, Calls, CallStates

\* A call with a task of its own starts or ends.
<1>11. ASSUME UNCHANGED <<st, slot, stopc, svcdown, bg, pc>>, det' \in [waiting : Nat, running : Nat],
              \/ inflight' = inflight /\ det'.waiting + det'.running = det.waiting + det.running
              \/ /\ inflight' = inflight - 1
                 /\ det'.waiting + det'.running = det.waiting + det.running - 1
       PROVE  CallInv'
  <2>1. det'.waiting \in Nat /\ det'.running \in Nat
    BY <1>11
  <2> PICK x \in Nat, y \in Nat : det'.waiting = x /\ det'.running = y
    BY <2>1
  <2>2. inflight' \in Nat /\ inflight' = Live(slot) + Live(stopc) + x + y /\ (inflight = 0 => inflight' = 0)
    BY <1>0, <1>11
  <2>3. inflight' = Calls'
    BY <1>11, <2>2 DEF Calls
  <2> QED
    BY <1>11, <2>2, <2>3 DEF CallInv, PhaseInv, Listening
<1>12. CASE DetachedDone
  <2>1. /\ UNCHANGED <<st, slot, stopc, svcdown, bg, pc>> /\ inflight' = inflight - 1
        /\ det' = [det EXCEPT !.running = @ - 1] /\ det.running > 0
    BY <1>12 DEF DetachedDone
  <2>2. det' \in [waiting : Nat, running : Nat] /\ det'.waiting = det.waiting /\ det'.running = det.running - 1
    BY <1>0, <2>1 DEF CallInv
  <2>3. det'.waiting + det'.running = det.waiting + det.running - 1
    BY <1>0, <2>2
  <2> QED
    BY <1>11, <2>1, <2>2, <2>3
<1>13. CASE DetachedStarts
  <2>1. UNCHANGED <<st, slot, stopc, svcdown, bg, pc>> /\ det.waiting > 0
    BY <1>13 DEF DetachedStarts
  <2>2. CASE svc = "ready"
    <3>1. inflight' = inflight /\ det' = [waiting |-> det.waiting - 1, running |-> det.running + 1]
      BY <1>13, <2>2 DEF DetachedStarts
    <3>2. det' \in [waiting : Nat, running : Nat] /\ det'.waiting + det'.running = det.waiting + det.running
      BY <1>0, <2>1, <3>1
    <3> QED
      BY <1>11, <2>1, <3>1, <3>2
  <2>3. CASE svc # "ready"
    <3>1. inflight' = inflight - 1 /\ det' = [det EXCEPT !.waiting = @ - 1]
      BY <1>13, <2>3 DEF DetachedStarts
    <3>2. /\ det' \in [waiting : Nat, running : Nat]
          /\ det'.waiting = det.waiting - 1 /\ det'.running = det.running
      BY <1>0, <2>1, <3>1 DEF CallInv
    <3>3. det'.waiting + det'.running = det.waiting + det.running - 1
      BY <1>0, <3>2
    <3> QED
      BY <1>11, <2>1, <3>1, <3>2, <3>3
  <2> QED
    BY <2>2, <2>3
<1>14. CASE ServiceShutdownDone
  BY <1>14 DEF ServiceShutdownDone, CallInv, PhaseInv, Listening, Calls
<1>15. CASE SleepElapses \/ \E s \in {"ready", "pending", "failed"} : ServiceBecomes(s)
  BY <1>2, <1>15 DEF SleepElapses, ServiceBecomes
<1>16. ASSUME NEW i, Transport(i) \/ NotifyTimeout(i) PROVE CallInv'
  BY <1>2, <1>16 DEF Transport, NotifyTimeout
<1>17. CASE TransportStep \/ Closed \/ TimerFires \/ ExternalTimeout
  BY <1>16, <1>17 DEF TransportStep, Receive, PeerEof, Drain, FilterPause, FilterResume, Closed,
     TimerFires, ExternalTimeout
<1>18. CASE UNCHANGED vars
  BY <1>2, <1>18 DEF vars
<1> QED
  BY <1>1, <1>3, <1>4, <1>5, <1>6, <1>7, <1>8, <1>9, <1>10, <1>12, <1>13, <1>14, <1>15, <1>17,
     <1>18 DEF Next, PollStep, ServiceStep

LEMMA CallInit == Init => CallInv
BY DEF Init, CallInv, PhaseInv, Listening, Calls, Live, CallStates

LEMMA CallInvariant == Spec => []CallInv
BY CallInit, CallStep, PTL DEF Spec

\* The count of calls in flight is that of the calls that exist, and the service
\* is shut down only after the last of them, whether the dispatcher or the
\* background task of a handed-over stop call does it (CallGuard, poll, HandOver).
THEOREM ShutdownAfterCalls == Spec => []ServiceDrained
<1>1. CallInv => ServiceDrained
  BY DEF CallInv, ServiceDrained, Calls, Live
<1> QED
  BY <1>1, CallInvariant, PTL

-----------------------------------------------------------------------------
(* Timers and the transport *)

Purposes == {"stopped", "frame", "write", "keepalive", "suspended"}
ReadType == [frame : BOOLEAN, fast : BOOLEAN, budget : Nat]
TmType == [active : Purposes, read : ReadType, passed : BOOLEAN]
IoType ==
  [phase : {"open", "closing", "closed"}, eof : BOOLEAN, frames : Nat, partial : BOOLEAN,
   burst : BOOLEAN, paused : BOOLEAN, filter : BOOLEAN, full : BOOLEAN, drained : BOOLEAN,
   armed : BOOLEAN, timeout : BOOLEAN, waker : {"none", "dispatcher", "background"}]
ConnType == [tm : TmType, io : IoType]

\* What the timers do not touch of the transport: at most they consume a timeout.
Kept(i, j) ==
  /\ j.phase = i.phase /\ j.eof = i.eof /\ j.frames = i.frames /\ j.full = i.full
  /\ j.waker = i.waker
  /\ ~i.timeout => ~j.timeout

LEMMA KeptTwice == ASSUME NEW i, NEW j, NEW k, Kept(i, j), Kept(j, k) PROVE Kept(i, k)
BY DEF Kept

LEMMA ConnParts ==
  ASSUME NEW c \in ConnType
  PROVE  /\ c.tm \in TmType /\ c.io \in IoType /\ Kept(c.io, c.io)
         /\ c.tm.active \in Purposes /\ c.tm.read \in ReadType /\ c.tm.passed \in BOOLEAN
BY DEF ConnType, TmType, Kept

LEMMA ActiveSet ==
  ASSUME NEW c \in ConnType, NEW a \in Purposes
  PROVE  /\ [c EXCEPT !.tm.active = a] \in ConnType
         /\ [c EXCEPT !.tm.active = a].tm.active = a
         /\ [c EXCEPT !.tm.active = a].io = c.io
         /\ [c.tm EXCEPT !.active = a] \in TmType
BY DEF ConnType, TmType

LEMMA IoStopTimerOp ==
  ASSUME NEW i \in IoType
  PROVE  IoStopTimer(i) \in IoType /\ Kept(i, IoStopTimer(i)) /\ ~IoStopTimer(i).timeout
BY DEF IoStopTimer, IoType, Kept

LEMMA StopTimerOp ==
  ASSUME NEW c \in ConnType
  PROVE  /\ StopTimer(c) \in ConnType /\ StopTimer(c).tm.active = "stopped"
         /\ Kept(c.io, StopTimer(c).io)
         /\ c.tm.active # "stopped" => ~StopTimer(c).io.timeout
<1>1. CASE c.tm.active = "stopped"
  BY <1>1, ConnParts DEF StopTimer
<1>2. CASE c.tm.active # "stopped"
  <2>1. /\ StopTimer(c) = [tm |-> [c.tm EXCEPT !.active = "stopped"], io |-> IoStopTimer(c.io)]
    BY <1>2 DEF StopTimer
  <2>2. [c.tm EXCEPT !.active = "stopped"] \in TmType
    BY ConnParts DEF TmType, Purposes
  <2>3. c.io \in IoType /\ c.tm \in TmType
    BY ConnParts
  <2> QED
    BY <2>1, <2>2, <2>3, IoStopTimerOp DEF ConnType, TmType
<1> QED
  BY <1>1, <1>2

LEMMA StartTimerOp ==
  ASSUME NEW c \in ConnType, NEW purpose \in Purposes
  PROVE  /\ StartTimer(c, purpose) \in ConnType /\ StartTimer(c, purpose).tm.active = purpose
         /\ Kept(c.io, StartTimer(c, purpose).io)
<1>1. /\ [c.tm EXCEPT !.active = purpose, !.passed = @ /\ purpose # "keepalive"] \in TmType
      /\ [c.tm EXCEPT !.active = purpose, !.passed = @ /\ purpose # "keepalive"].active = purpose
  BY ConnParts DEF TmType
<1>2. [c.io EXCEPT !.armed = TRUE] \in IoType /\ Kept(c.io, [c.io EXCEPT !.armed = TRUE])
  BY ConnParts DEF IoType, Kept
<1> QED
  BY <1>1, <1>2 DEF StartTimer, ConnType

LEMMA StartWriteTimerOp ==
  ASSUME NEW c \in ConnType
  PROVE  /\ StartWriteTimer(c) \in ConnType
         /\ StartWriteTimer(c).tm.active \in {"write", "stopped"}
         /\ Kept(c.io, StartWriteTimer(c).io)
<1>1. "write" \in Purposes
  BY DEF Purposes
<1> QED
  BY <1>1, ConnParts, StopTimerOp, StartTimerOp DEF StartWriteTimer

LEMMA ReadSet ==
  ASSUME NEW c \in ConnType, NEW r \in ReadType
  PROVE  /\ [c EXCEPT !.tm.read = r] \in ConnType
         /\ [c EXCEPT !.tm.read = r].io = c.io
         /\ [c EXCEPT !.tm.read = r].tm.active = c.tm.active
         /\ [c.tm EXCEPT !.read = r] \in TmType
         /\ [c.tm EXCEPT !.read = r].active = c.tm.active
         /\ [c.tm EXCEPT !.read = r].read = r
BY DEF ConnType, TmType

LEMMA ResetReadOp ==
  ASSUME NEW c \in ConnType
  PROVE  /\ ResetRead(c) \in ConnType /\ ResetRead(c).io = c.io
         /\ ResetRead(c).tm.active = c.tm.active
<1>1. Frame \in ReadType
  BY DEF Frame, ReadType
<1> QED
  BY <1>1, ReadSet DEF ResetRead

\* Suspending keeps a write timer and stops every other one.
LEMMA SuspendOp ==
  ASSUME NEW c \in ConnType
  PROVE  /\ Suspend(c) \in ConnType /\ Kept(c.io, Suspend(c).io)
         /\ Suspend(c).tm.active = IF c.tm.active = "write" THEN "write" ELSE "stopped"
         /\ c.tm.active \notin {"write", "stopped"} => ~Suspend(c).io.timeout
BY ConnParts, StopTimerOp, ResetReadOp DEF Suspend

LEMMA UpdateReadOp ==
  ASSUME NEW c \in ConnType, NEW item \in BOOLEAN, NEW partial \in BOOLEAN
  PROVE  /\ UpdateRead(c, item, partial) \in ConnType
         /\ Kept(c.io, UpdateRead(c, item, partial).io)
         /\ UpdateRead(c, item, partial).tm.active = c.tm.active
         /\ ~item /\ partial => UpdateRead(c, item, partial).tm.read.frame
<1> DEFINE read == c.tm.read
           started == IF read.frame THEN read ELSE Frame
           fast == [started EXCEPT !.fast = @ \/ c.io.burst]
           next == IF item THEN Idle
                   ELSE IF ~FrameRate THEN [Idle EXCEPT !.frame = partial]
                   ELSE IF ~read.frame /\ ~partial THEN read ELSE fast
           burst == [c.io EXCEPT !.burst = @ /\ item]
<1>1. c.tm \in TmType /\ c.io \in IoType /\ read \in ReadType /\ c.io.burst \in BOOLEAN
  BY ConnParts DEF IoType
<1>2. started \in ReadType /\ started.frame
  BY <1>1 DEF Frame, ReadType
<1>3. fast \in ReadType /\ fast.frame
  BY <1>1, <1>2 DEF ReadType
<1>4. /\ Idle \in ReadType /\ [Idle EXCEPT !.frame = partial] \in ReadType
      /\ [Idle EXCEPT !.frame = partial].frame = partial
  BY DEF Idle, ReadType
<1>5. next \in ReadType /\ (~item /\ partial => next.frame)
  BY <1>1, <1>3, <1>4
<1>6. burst \in IoType /\ Kept(c.io, burst)
  BY <1>1 DEF IoType, Kept
<1>7. UpdateRead(c, item, partial) = [tm |-> [c.tm EXCEPT !.read = next], io |-> burst]
  BY DEF UpdateRead
<1>8. /\ [c.tm EXCEPT !.read = next] \in TmType
      /\ [c.tm EXCEPT !.read = next].active = c.tm.active
      /\ [c.tm EXCEPT !.read = next].read = next
  BY <1>5, ReadSet
<1> HIDE DEF next, burst
<1>9. /\ UpdateRead(c, item, partial).tm = [c.tm EXCEPT !.read = next]
      /\ UpdateRead(c, item, partial).io = burst
  BY <1>7
<1>10. UpdateRead(c, item, partial) \in ConnType
  BY <1>6, <1>7, <1>8 DEF ConnType
<1>11. UpdateRead(c, item, partial).tm.read = next
  BY <1>8, <1>9
<1> QED
  BY <1>5, <1>6, <1>8, <1>9, <1>10, <1>11

LEMMA SetTimerOp ==
  ASSUME NEW c \in ConnType, NEW timer \in Purposes \ {"write", "suspended"}
  PROVE  /\ SetTimer(c, timer) \in ConnType /\ Kept(c.io, SetTimer(c, timer).io)
         /\ SetTimer(c, timer).tm.active = "keepalive" => timer = "keepalive"
<1>1. CASE c.tm.active = timer
  BY <1>1, ConnParts DEF SetTimer
<1>2. CASE c.tm.active # timer /\ timer # "stopped"
  BY <1>2, StartTimerOp DEF SetTimer
<1>3. CASE c.tm.active # timer /\ timer = "stopped" /\ c.tm.active \in {"keepalive", "suspended"}
  <2>1. SetTimer(c, timer) = [c EXCEPT !.tm.active = "suspended"] /\ "suspended" \in Purposes
    BY <1>3 DEF SetTimer, Purposes
  <2> QED
    BY <2>1, ConnParts, ActiveSet
<1>4. CASE c.tm.active # timer /\ timer = "stopped" /\ c.tm.active \notin {"keepalive", "suspended"}
  <2>1. SetTimer(c, timer) = StopTimer(c)
    BY <1>4 DEF SetTimer, StopTimer
  <2> QED
    BY <2>1, StopTimerOp
<1> QED
  BY <1>1, <1>2, <1>3, <1>4

\* The keep-alive timer is the one armed only if no call is in flight and no
\* frame is being read.
LEMMA UpdateTimerOp ==
  ASSUME NEW c \in ConnType, NEW item \in BOOLEAN, NEW partial \in BOOLEAN
  PROVE  /\ UpdateTimer(c, item, partial) \in ConnType
         /\ Kept(c.io, UpdateTimer(c, item, partial).io)
         /\ UpdateTimer(c, item, partial).tm.active = "keepalive" /\ ~item =>
              inflight = 0 /\ ~partial
<1> DEFINE u == UpdateRead(c, item, partial)
           handling == item \/ inflight # 0
           timer == Select(u.tm.read, handling)
<1>1. /\ u \in ConnType /\ Kept(c.io, u.io) /\ (~item /\ partial => u.tm.read.frame)
  BY UpdateReadOp
<1>2. /\ timer \in Purposes \ {"write", "suspended"}
      /\ timer = "keepalive" => ~u.tm.read.frame /\ ~handling
  BY DEF Select, Purposes
<1>3. CASE ~item /\ u.io.filter
  <2>1. UpdateTimer(c, item, partial) = Suspend(u)
    BY <1>3 DEF UpdateTimer
  <2> HIDE DEF u
  <2> QED
    BY <1>1, <2>1, SuspendOp, KeptTwice
<1>4. CASE ~(~item /\ u.io.filter)
  <2>1. UpdateTimer(c, item, partial) = SetTimer(u, timer)
    BY <1>4 DEF UpdateTimer
  <2> HIDE DEF u, timer
  <2>2. /\ SetTimer(u, timer) \in ConnType /\ Kept(u.io, SetTimer(u, timer).io)
        /\ SetTimer(u, timer).tm.active = "keepalive" => timer = "keepalive"
    BY <1>1, <1>2, SetTimerOp
  <2> QED
    BY <1>1, <1>2, <2>1, <2>2, KeptTwice
<1> QED
  BY <1>3, <1>4

LEMMA ReadRateOp ==
  ASSUME NEW c \in ConnType
  PROVE  ReadRate(c).c \in ConnType /\ ReadRate(c).stop \in {"none", "failure"}
<1> DEFINE left == IF c.tm.read.budget = 0 THEN 0 ELSE c.tm.read.budget - 1
           slow == [c.tm.read EXCEPT !.fast = FALSE, !.budget = left]
           next == [c EXCEPT !.tm.read.fast = FALSE, !.tm.read.budget = left]
<1>1. c.tm.read \in ReadType /\ c.tm.read.budget \in Nat
  BY ConnParts DEF ReadType
<1>2. left \in Nat
  BY <1>1
<1>3. slow \in ReadType
  <2> HIDE DEF left
  <2> QED
    BY <1>1, <1>2 DEF ReadType
<1>4. next \in ConnType
  <2> HIDE DEF left
  <2> QED
    BY <1>1, <1>2 DEF ConnType, TmType, ReadType
<1>5. "frame" \in Purposes /\ "stopped" \in Purposes
  BY DEF Purposes
<1> QED
  <2> HIDE DEF next
  <2>1. StartTimer(next, "frame") \in ConnType
    BY <1>4, <1>5, StartTimerOp
  <2>2. [c EXCEPT !.tm.active = "stopped"] \in ConnType
    BY <1>5, ActiveSet
  <2> QED
    BY <1>4, <2>1, <2>2 DEF ReadRate, next

\* A timeout that is handled leaves a write timer or none as such, and ends the
\* connection for being idle only with an armed keep-alive timer or no call.
LEMMA HandleTimeoutOp ==
  ASSUME NEW c \in ConnType
  PROVE  /\ HandleTimeout(c).c \in ConnType
         /\ c.tm.active \in {"write", "stopped"} =>
              HandleTimeout(c).c.tm.active \in {"write", "stopped"}
<1>1. "stopped" \in Purposes /\ c.tm.active \in Purposes
  BY ConnParts DEF Purposes
<1>2. /\ [c EXCEPT !.tm.active = "stopped"] \in ConnType
      /\ [c EXCEPT !.tm.active = "stopped"].tm.active = "stopped"
  BY <1>1, ActiveSet
<1>3. CASE c.tm.active = "frame"
  BY <1>3, ReadRateOp DEF HandleTimeout
<1>4. CASE c.tm.active = "write"
  BY <1>2, <1>4, StopTimerOp DEF HandleTimeout
<1>5. CASE c.tm.active = "keepalive"
  BY <1>5 DEF HandleTimeout
<1>6. CASE c.tm.active = "suspended"
  BY <1>2, <1>6 DEF HandleTimeout
<1>7. CASE c.tm.active = "stopped"
  BY <1>7 DEF HandleTimeout
<1> QED
  BY <1>1, <1>3, <1>4, <1>5, <1>6, <1>7 DEF Purposes

-----------------------------------------------------------------------------
(* Wakeups *)

\* A dispatcher that sleeps in its main state, and what it watches: the transport
\* has its waker, and so has the readiness of the service, unless the limit on the
\* calls is what holds it up (the calls that end go by the transport's waker).
Sleeping == pc = "idle" /\ "dispatcher" \notin woken /\ st = "processing"
Clean(error_, i) ==
  error_ = "none" /\ i.frames = 0 /\ i.phase = "open" /\ ~i.eof /\ ~i.timeout /\ ~i.full
Watching ==
  /\ io.waker = "dispatcher"
  /\ ~AtLimit => robs = "dispatcher"
  /\ ServiceReady => Clean(serr, io)

WriteTimed(t) == t.active \in {"write", "stopped"}

WatchInv ==
  /\ tm \in TmType /\ io \in IoType
  /\ st = "backpressure" => WriteTimed(tm)
  /\ Sleeping => Watching

LEMMA ConnTyped == ASSUME WatchInv PROVE Conn \in ConnType /\ Conn.tm = tm /\ Conn.io = io
BY DEF WatchInv, Conn, ConnType

LEMMA FilledOp == ASSUME NEW i \in IoType, NEW r PROVE Filled(i, r) \in IoType
BY ZenonT(60) DEF Filled, IoType

LEMMA ConsumedOp ==
  ASSUME NEW c \in ConnType
  PROVE  Consumed(c) \in ConnType /\ Consumed(c).tm = c.tm /\ Kept(c.io, Consumed(c).io)
BY DEF Consumed, ConnType, IoType, Kept

LEMMA RegisteredOp ==
  ASSUME NEW c \in ConnType
  PROVE  /\ Registered(c) \in ConnType /\ Registered(c).tm = c.tm
         /\ Registered(c).io = [c.io EXCEPT !.waker = "dispatcher"]
         /\ Registered(c).io.waker = "dispatcher"
         /\ \A e : Clean(e, c.io) => Clean(e, Registered(c).io)
<1>1. /\ Registered(c).tm = c.tm /\ Registered(c).io = [c.io EXCEPT !.waker = "dispatcher"]
      /\ Registered(c) \in ConnType
  BY DEF Registered, ConnType, IoType
<1>2. \A e : Clean(e, c.io) => Clean(e, [c.io EXCEPT !.waker = "dispatcher"])
  BY ConnParts DEF Clean, IoType
<1>3. [c.io EXCEPT !.waker = "dispatcher"].waker = "dispatcher"
  BY ConnParts DEF IoType
<1> QED
  BY <1>1, <1>2, <1>3

\* The connection as poll_read_pause() leaves it.
PauseConn == Registered([Suspend(Conn) EXCEPT !.io.paused = TRUE])

LEMMA PauseConnOp ==
  ASSUME WatchInv
  PROVE  /\ PauseConn \in ConnType /\ PauseConn.io.waker = "dispatcher"
         /\ PauseConn.tm.active = IF tm.active = "write" THEN "write" ELSE "stopped"
         /\ tm.active \notin {"write", "stopped"} => ~PauseConn.io.timeout
<1> DEFINE s == Suspend(Conn)
           q == [s EXCEPT !.io.paused = TRUE]
<1>1. /\ s \in ConnType
      /\ s.tm.active = IF tm.active = "write" THEN "write" ELSE "stopped"
      /\ tm.active \notin {"write", "stopped"} => ~s.io.timeout
  BY ConnTyped, SuspendOp
<1> HIDE DEF s
<1>2. q \in ConnType /\ q.tm = s.tm /\ q.io.timeout = s.io.timeout
  BY <1>1 DEF ConnType, IoType
<1> HIDE DEF q
<1>3. /\ Registered(q) \in ConnType /\ Registered(q).tm = s.tm
      /\ Registered(q).io.waker = "dispatcher"
      /\ Registered(q).io = [q.io EXCEPT !.waker = "dispatcher"]
  BY <1>2, RegisteredOp
<1>4. Registered(q).io.timeout = s.io.timeout
  BY <1>2, <1>3, ConnParts DEF IoType
<1>5. PauseConn = Registered(q)
  BY DEF PauseConn, q, s
<1> QED
  BY <1>1, <1>3, <1>4, <1>5

LEMMA WatchStopped ==
  ASSUME NEW c \in ConnType, NEW why, Stop(c, why)
  PROVE  WatchInv'
<1>1. /\ tm' = NoTimer /\ io' = [Quiet EXCEPT !.phase = c.io.phase, !.waker = c.io.waker]
      /\ st' = "stop"
  BY DEF Stop
<1>2. tm' \in TmType
  BY <1>1 DEF NoTimer, Idle, TmType, ReadType, Purposes
<1>3. c.io.phase \in {"open", "closing", "closed"} /\ c.io.waker \in {"none", "dispatcher", "background"}
  BY ConnParts DEF IoType
<1>4. io' \in IoType
  BY <1>1, <1>3 DEF Quiet, IoType
<1> QED
  BY <1>1, <1>2, <1>4 DEF WatchInv, Sleeping

LEMMA WatchCalled ==
  ASSUME NEW c \in ConnType, CallService(c), st' = "backpressure" => WriteTimed(c.tm)
  PROVE  WatchInv'
<1>1. PICK r : Becomes([c EXCEPT !.io = Filled(c.io, r)])
  BY DEF CallService
<1>2. pc' = "loop"
  BY DEF CallService
<1>3. tm' = c.tm /\ io' = Filled(c.io, r)
  BY <1>1 DEF Becomes, ConnType
<1>4. tm' \in TmType /\ io' \in IoType
  BY <1>3, ConnParts, FilledOp
<1> QED
  BY <1>2, <1>3, <1>4 DEF WatchInv, Sleeping, WriteTimed

LEMMA WatchContinued ==
  ASSUME NEW c \in ConnType, NEW to, Continue(c, to), st' = "backpressure" => WriteTimed(c.tm),
         to = "idle" /\ st' = "processing" =>
           /\ Observed /\ c.io.waker = "dispatcher"
           /\ ServiceReady => Clean(serr', c.io)
  PROVE  WatchInv'
<1>1. /\ tm' = c.tm /\ io' = c.io /\ pc' = to
      /\ inflight' = inflight /\ svc' = svc
  BY DEF Continue, Becomes
<1>2. tm' \in TmType /\ io' \in IoType
  BY <1>1, ConnParts
<1>3. AtLimit' = AtLimit /\ ServiceReady' = ServiceReady
  BY <1>1 DEF AtLimit, ServiceReady
<1>4. Sleeping' => Watching'
  BY <1>1, <1>3 DEF Sleeping, Watching, Observed
<1> QED
  BY <1>1, <1>2, <1>4 DEF WatchInv, WriteTimed

\* What is decoded comes with a typed connection, and the timers follow it.
LEMMA DecodedOp ==
  ASSUME NEW c \in ConnType, NEW d \in Decoded(c)
  PROVE  /\ d.c \in ConnType /\ d.item \in BOOLEAN /\ d.partial \in BOOLEAN /\ d.c.tm = c.tm
         /\ ~d.item => c.io.frames = 0 /\ d.partial = c.io.partial /\ Kept(c.io, d.c.io)
<1> DEFINE resumed == [c EXCEPT !.io.paused = FALSE]
<1>1. c.io.frames \in Nat /\ c.io.partial \in BOOLEAN /\ c.io \in IoType
  BY ConnParts DEF IoType
<1>2. resumed \in ConnType /\ resumed.tm = c.tm /\ Kept(c.io, resumed.io)
  BY DEF ConnType, IoType, Kept
<1>3. CASE c.io.frames > 0
  <2>1. d = [c |-> [resumed EXCEPT !.io.frames = @ - 1], item |-> TRUE, partial |-> FALSE]
    BY <1>3 DEF Decoded
  <2>2. resumed.io.frames = c.io.frames
    BY <1>2 DEF Kept
  <2>3. c.io.frames - 1 \in Nat
    BY <1>1, <1>3
  <2> DEFINE n == c.io.frames - 1
  <2>4. d.c = [resumed EXCEPT !.io.frames = n] /\ d.item = TRUE /\ d.partial = FALSE
    BY <2>1, <2>2
  <2> HIDE DEF resumed, n
  <2>5. d.c \in ConnType /\ d.c.tm = c.tm
    BY <1>2, <2>3, <2>4 DEF ConnType, IoType, n
  <2> QED
    BY <2>4, <2>5
<1>4. CASE ~(c.io.frames > 0)
  <2>1. PICK r \in {FALSE, c.io.partial} :
          d = [c |-> [resumed EXCEPT !.io.partial = r], item |-> FALSE, partial |-> c.io.partial]
    BY <1>4 DEF Decoded
  <2>2. r \in BOOLEAN
    BY <1>1
  <2>3. d.c = [resumed EXCEPT !.io.partial = r] /\ d.item = FALSE /\ d.partial = c.io.partial
    BY <2>1
  <2> HIDE DEF resumed
  <2>4. d.c \in ConnType /\ d.c.tm = c.tm /\ Kept(resumed.io, d.c.io)
    BY <1>2, <2>2, <2>3 DEF ConnType, IoType, Kept
  <2>5. c.io.frames = 0
    BY <1>1, <1>4
  <2> QED
    BY <1>1, <1>2, <2>3, <2>4, <2>5, KeptTwice
<1> QED
  BY <1>3, <1>4

LEMMA DecodedTimed ==
  ASSUME NEW c \in ConnType, NEW d \in Decoded(c)
  PROVE  /\ UpdateTimer(d.c, d.item, d.partial) \in ConnType
         /\ ~d.item => /\ Kept(c.io, UpdateTimer(d.c, d.item, d.partial).io)
                       /\ UpdateTimer(d.c, d.item, d.partial).tm.active = "keepalive" =>
                            inflight = 0 /\ ~c.io.partial
<1>1. /\ d.c \in ConnType /\ d.item \in BOOLEAN /\ d.partial \in BOOLEAN
      /\ ~d.item => d.partial = c.io.partial /\ Kept(c.io, d.c.io)
  BY DecodedOp
<1>2. /\ UpdateTimer(d.c, d.item, d.partial) \in ConnType
      /\ Kept(d.c.io, UpdateTimer(d.c, d.item, d.partial).io)
      /\ UpdateTimer(d.c, d.item, d.partial).tm.active = "keepalive" /\ ~d.item =>
           inflight = 0 /\ ~d.partial
  BY <1>1, UpdateTimerOp
<1> QED
  BY <1>1, <1>2, KeptTwice

\* The turns of the loop while the dispatcher listens.
LEMMA WatchTurns ==
  ASSUME CallInv, WatchInv,
         ServiceFails \/ CheckError \/ ServicePaused \/ PausedBackpressure \/ DecoderFails
           \/ RecvDecode \/ RecvTimeout \/ RecvBackpressure \/ BackpressureTurn \/ Flush
  PROVE  WatchInv'
<1>0. /\ Conn \in ConnType /\ Conn.tm = tm /\ Conn.io = io
      /\ st = "backpressure" => WriteTimed(tm)
  BY ConnTyped DEF WatchInv
<1>1. CASE ServiceFails
  BY <1>0, <1>1, WatchStopped DEF ServiceFails
<1>2. CASE CheckError
  BY <1>0, <1>2, WatchStopped DEF CheckError
<1>3. CASE ServicePaused
  <2> DEFINE c == PauseConn
             timedOut == HandleTimeout(Consumed(c))
  <2>1. /\ c \in ConnType /\ c.io.waker = "dispatcher" /\ WriteTimed(c.tm)
    BY PauseConnOp DEF WriteTimed
  <2>2. Consumed(c) \in ConnType /\ Consumed(c).tm = c.tm
    BY <2>1, ConsumedOp
  <2>3. timedOut.c \in ConnType /\ WriteTimed(timedOut.c.tm)
    BY <2>1, <2>2, HandleTimeoutOp DEF WriteTimed
  <2>4. /\ [c EXCEPT !.io.full = FALSE] \in ConnType
        /\ [c EXCEPT !.io.full = FALSE].tm = c.tm
        /\ [c EXCEPT !.io.full = FALSE].io.waker = "dispatcher"
    BY <2>1 DEF ConnType, IoType
  <2>5. Observed /\ ~ServiceReady
    BY <1>3 DEF ServicePaused, Paused, ServiceReady
  <2>6. \/ \E why : Stop(c, why) \/ Stop(timedOut.c, why)
        \/ Continue(timedOut.c, "loop") \/ Continue(c, "idle")
        \/ Continue([c EXCEPT !.io.full = FALSE], "idle")
    BY <1>3 DEF ServicePaused, PauseStatus, PauseConn, Pending
  <2> HIDE DEF c, timedOut
  <2> QED
    BY <2>1, <2>3, <2>4, <2>5, <2>6, WatchStopped, WatchContinued
<1>4. CASE PausedBackpressure
  <2> DEFINE c == PauseConn
  <2>1. c \in ConnType /\ WriteTimed(c.tm)
    BY PauseConnOp DEF WriteTimed
  <2>2. StartWriteTimer(c) \in ConnType /\ WriteTimed(StartWriteTimer(c).tm)
    BY <2>1, StartWriteTimerOp DEF WriteTimed
  <2>3. st' = "backpressure" /\ (CallService(StartWriteTimer(c)) \/ Continue(c, "flush"))
    BY <1>4 DEF PausedBackpressure, PauseConn
  <2> HIDE DEF c
  <2> QED
    BY <2>1, <2>2, <2>3, WatchCalled, WatchContinued
<1>5. CASE DecoderFails
  <2> DEFINE c == [Conn EXCEPT !.io.paused = FALSE]
  <2>1. c \in ConnType
    BY <1>0 DEF ConnType, IoType
  <2>2. Consumed(c) \in ConnType
    BY <2>1, ConsumedOp
  <2> QED
    BY <1>5, <2>2, WatchStopped DEF DecoderFails
<1>6. CASE RecvDecode
  <2>1. /\ st = "processing" /\ ServiceReady /\ serr = "none" /\ Observed
        /\ io.phase = "open" => ~io.full /\ ~io.timeout
    BY <1>6 DEF RecvDecode, Receiving, Turn, TimedOut
  <2>2. PICK d \in Decoded(Conn) :
          LET u == UpdateTimer(d.c, d.item, d.partial)
          IN IF d.item THEN CallService(u) /\ UNCHANGED st
             ELSE /\ UNCHANGED serr
                  /\ IF io.phase # "open" \/ io.eof THEN Stop(d.c, "failure")
                     ELSE Pending(Registered(u)) /\ UNCHANGED st
    BY <1>6 DEF RecvDecode
  <2> DEFINE u == UpdateTimer(d.c, d.item, d.partial)
  <2>3. u \in ConnType /\ d.c \in ConnType /\ (~d.item => Kept(io, u.io) /\ io.frames = 0)
    BY <1>0, DecodedOp, DecodedTimed
  <2>4. /\ d.item => CallService(u) /\ st' = st
        /\ ~d.item /\ (io.phase # "open" \/ io.eof) => Stop(d.c, "failure")
        /\ ~d.item /\ ~(io.phase # "open" \/ io.eof) =>
             Continue(Registered(u), "idle") /\ st' = st /\ serr' = serr
    BY <2>2 DEF Pending
  <2> HIDE DEF u
  <2>5. CASE d.item
    BY <2>1, <2>3, <2>4, <2>5, WatchCalled
  <2>6. CASE ~d.item /\ (io.phase # "open" \/ io.eof)
    BY <2>3, <2>4, <2>6, WatchStopped
  <2>7. CASE ~d.item /\ ~(io.phase # "open" \/ io.eof)
    <3>1. Clean(serr, u.io)
      BY <2>1, <2>3, <2>7 DEF Kept, Clean
    <3>2. /\ Registered(u) \in ConnType /\ Registered(u).io.waker = "dispatcher"
          /\ Clean(serr, Registered(u).io)
      BY <2>3, <3>1, RegisteredOp
    <3> QED
      BY <2>1, <2>4, <2>7, <3>2, WatchContinued
  <2> QED
    BY <2>5, <2>6, <2>7
<1>7. CASE RecvTimeout
  <2>1. st = "processing"
    BY <1>7 DEF RecvTimeout, Receiving, Turn
  <2>2. Consumed(Conn) \in ConnType
    BY <1>0, ConsumedOp
  <2>3. CASE tm.active = "write"
    <3> DEFINE t == HandleTimeout(Consumed(Conn))
    <3>1. t.c \in ConnType
      BY <2>2, HandleTimeoutOp
    <3>2. (Continue(t.c, "loop") /\ st' = st) \/ Stop(t.c, t.stop)
      BY <1>7, <2>3 DEF RecvTimeout
    <3> HIDE DEF t
    <3> QED
      BY <2>1, <3>1, <3>2, WatchContinued, WatchStopped
  <2>4. CASE tm.active # "write"
    <3>1. PICK d \in Decoded(Consumed(Conn)) :
            LET u == UpdateTimer(d.c, d.item, d.partial)
                t == HandleTimeout(u)
            IN IF d.item THEN CallService(u) /\ UNCHANGED st
               ELSE /\ UNCHANGED serr
                    /\ IF u.tm.active # tm.active THEN Continue(u, "loop") /\ UNCHANGED st
                       ELSE IF t.stop = "none" THEN Continue(t.c, "loop") /\ UNCHANGED st
                       ELSE Stop(t.c, t.stop)
      BY <1>7, <2>4 DEF RecvTimeout
    <3> DEFINE u == UpdateTimer(d.c, d.item, d.partial)
               t == HandleTimeout(u)
    <3>2. u \in ConnType
      BY <2>2, DecodedTimed
    <3>3. t.c \in ConnType
      BY <3>2, HandleTimeoutOp
    <3>4. \/ CallService(u) /\ st' = st
          \/ Continue(u, "loop") /\ st' = st
          \/ Continue(t.c, "loop") /\ st' = st
          \/ Stop(t.c, t.stop)
      BY <3>1
    <3> HIDE DEF u, t
    <3> QED
      BY <2>1, <3>2, <3>3, <3>4, WatchCalled, WatchContinued, WatchStopped
  <2> QED
    BY <2>3, <2>4
<1>8. CASE RecvBackpressure
  BY <1>0, <1>8, StartWriteTimerOp, WatchCalled DEF RecvBackpressure, WriteTimed
<1>9. CASE BackpressureTurn
  BY <1>0, <1>9, WatchContinued DEF BackpressureTurn, Turn
<1>10. CASE Flush
  <2> DEFINE r == Registered(Conn)
             t == IF io.phase = "open" /\ io.timeout THEN HandleTimeout(Consumed(r))
                  ELSE [c |-> r, stop |-> "none"]
             w == StartWriteTimer(t.c)
             resumed == [StopTimer(w) EXCEPT !.io.full = FALSE]
  <2>1. st = "backpressure"
    BY <1>10 DEF Flush, CallInv, PhaseInv
  <2>2. r \in ConnType
    BY <1>0, RegisteredOp
  <2>3. t.c \in ConnType
    <3> HIDE DEF r
    <3>1. HandleTimeout(Consumed(r)).c \in ConnType
      BY <2>2, ConsumedOp, HandleTimeoutOp
    <3> QED
      BY <2>2, <3>1
  <2>4. \/ Stop(t.c, t.stop) \/ Stop(w, "failure")
        \/ Continue(w, "idle") /\ st' = st
        \/ st' = "processing" /\ CallService(resumed)
    BY <1>10 DEF Flush, Pending
  <2> HIDE DEF t
  <2>5. w \in ConnType /\ WriteTimed(w.tm)
    BY <2>3, StartWriteTimerOp DEF WriteTimed
  <2> HIDE DEF w
  <2>6. StopTimer(w) \in ConnType
    BY <2>5, StopTimerOp
  <2>7. resumed \in ConnType
    BY <2>6 DEF ConnType, IoType
  <2> HIDE DEF resumed
  <2> QED
    BY <2>1, <2>3, <2>4, <2>5, <2>7, WatchStopped, WatchContinued, WatchCalled
<1> QED
  BY <1>1, <1>2, <1>3, <1>4, <1>5, <1>6, <1>7, <1>8, <1>9, <1>10

LEMMA WatchStep == CallInv /\ WatchInv /\ [Next]_vars => WatchInv'
<1> SUFFICES ASSUME CallInv, WatchInv, [Next]_vars PROVE WatchInv'
  OBVIOUS
<1> USE DEF call, service, task
<1>0. tm \in TmType /\ io \in IoType /\ io.waker \in {"none", "dispatcher", "background"}
  BY DEF WatchInv, IoType
<1>1. CASE ServiceFails \/ CheckError \/ ServicePaused \/ PausedBackpressure \/ DecoderFails
             \/ RecvDecode \/ RecvTimeout \/ RecvBackpressure \/ BackpressureTurn \/ Flush
  BY <1>1, WatchTurns

\* Nothing that it watches changes.
<1>2. ASSUME UNCHANGED <<st, tm, io, inflight, svc, robs, serr, pc>>, woken \subseteq woken'
      PROVE  WatchInv'
  <2>1. Sleeping' => Sleeping
    BY <1>2 DEF Sleeping
  <2>2. Watching' = Watching
    BY <1>2 DEF Watching, AtLimit, ServiceReady
  <2> QED
    BY <1>2, <2>1, <2>2 DEF WatchInv

\* The dispatcher is in another state.
<1>3. ASSUME st' \notin {"processing", "backpressure"}, tm' = tm, io' \in IoType PROVE WatchInv'
  BY <1>0, <1>3 DEF WatchInv, Sleeping

\* Whoever waits at the transport is woken.
<1>4. ASSUME UNCHANGED <<st, pc>>, tm' \in TmType, tm'.active = tm.active, io' \in IoType,
             woken' = woken \cup ({io.waker} \ {"none"})
      PROVE  WatchInv'
  <2>1. Sleeping' => Sleeping /\ io.waker # "dispatcher"
    BY <1>4 DEF Sleeping
  <2> QED
    BY <1>4, <2>1 DEF WatchInv, Watching, WriteTimed
<1>5. CASE PollStarts
  <2>1. PICK r : io' = Filled(io, r)
    BY <1>5 DEF PollStarts
  <2>2. pc' = "loop" /\ st' = st /\ tm' = tm
    BY <1>5 DEF PollStarts
  <2>3. io' \in IoType
    BY <1>0, <2>1, FilledOp
  <2> QED
    BY <2>2, <2>3 DEF WatchInv, Sleeping
<1>6. CASE StopAnswered \/ HandOver
  <2>1. IoStopTimer(io) \in IoType
    BY <1>0, IoStopTimerOp
  <2>2. [IoStopTimer(io) EXCEPT !.waker = "none"] \in IoType
    BY <2>1 DEF IoType
  <2>3. [IoStopTimer(io) EXCEPT !.waker = @] = IoStopTimer(io)
    BY <2>1 DEF IoType
  <2>4. io' \in IoType
    BY <1>6, <2>1, <2>2, <2>3 DEF StopAnswered, HandOver
  <2>5. st' \notin {"processing", "backpressure"} /\ tm' = tm
    BY <1>6 DEF StopAnswered, HandOver
  <2> QED
    BY <1>3, <2>4, <2>5
<1>7. CASE StopPending
  BY <1>0, <1>3, <1>7 DEF StopPending, Turn
<1>8. CASE ShutdownTurn \/ ShutdownIoTurn
  <2>1. /\ [io EXCEPT !.waker = "dispatcher"] \in IoType
        /\ [io EXCEPT !.phase = "closing", !.paused = FALSE, !.waker = "dispatcher"] \in IoType
    BY <1>0 DEF IoType
  <2>2. st' \notin {"processing", "backpressure"} /\ tm' = tm
    BY <1>8 DEF ShutdownTurn, ShutdownIoTurn, Turn
  <2>3. \/ io' = io \/ io' = [io EXCEPT !.waker = "dispatcher"]
        \/ io' = [io EXCEPT !.phase = "closing", !.paused = FALSE, !.waker = "dispatcher"]
    BY <1>8 DEF ShutdownTurn, ShutdownIoTurn
  <2> QED
    BY <1>0, <1>3, <2>1, <2>2, <2>3
<1>9. CASE BackgroundPoll
  <2>1. st' = st /\ tm' = tm /\ bg = "deliver"
    BY <1>9 DEF BackgroundPoll
  <2>2. PICK r : io' \in {Filled(io, r), [Filled(io, r) EXCEPT !.waker = "background"]}
    BY <1>9 DEF BackgroundPoll
  <2>3. Filled(io, r) \in IoType
    BY <1>0, FilledOp
  <2>4. [Filled(io, r) EXCEPT !.waker = "background"] \in IoType
    BY <2>3 DEF IoType
  <2>5. st \notin {"processing", "backpressure"}
    BY <2>1 DEF CallInv, PhaseInv, Listening
  <2> QED
    BY <1>3, <2>1, <2>2, <2>3, <2>4, <2>5
<1>10. CASE CallWakes \/ ServiceShutdownDone \/ SleepElapses
  BY <1>2, <1>10 DEF CallWakes, ServiceShutdownDone, SleepElapses
<1>11. CASE DetachedDone
  <2>1. PICK r : io' = [Filled(io, r) EXCEPT !.waker = "none"]
    BY <1>11 DEF DetachedDone
  <2>2. Filled(io, r) \in IoType
    BY <1>0, FilledOp
  <2>3. io' \in IoType
    BY <2>1, <2>2 DEF IoType
  <2>4. UNCHANGED <<st, pc, tm>> /\ woken' = woken \cup ({io.waker} \ {"none"})
    BY <1>11 DEF DetachedDone
  <2> QED
    BY <1>0, <1>4, <2>3, <2>4
<1>12. CASE DetachedStarts
  <2>1. CASE svc = "ready"
    BY <1>2, <1>12, <2>1 DEF DetachedStarts
  <2>2. CASE svc # "ready"
    <3>1. [io EXCEPT !.waker = "none"] \in IoType
      BY <1>0 DEF IoType
    <3> QED
      BY <1>0, <1>4, <1>12, <2>2, <3>1 DEF DetachedStarts
  <2> QED
    BY <2>1, <2>2

\* The observer of the readiness is woken: without one, the calls are at their limit.
<1>13. ASSUME NEW s, ServiceBecomes(s) PROVE WatchInv'
  <2>1. /\ UNCHANGED <<st, tm, io, inflight, serr, pc>>
        /\ woken \cup ({robs} \ {"none"}) \subseteq woken'
    BY <1>13 DEF ServiceBecomes
  <2>2. Sleeping' => Sleeping /\ robs # "dispatcher"
    BY <2>1 DEF Sleeping
  <2>3. Sleeping' => AtLimit /\ io.waker = "dispatcher"
    BY <2>2 DEF WatchInv, Watching
  <2>4. Sleeping' => Watching'
    BY <2>1, <2>3 DEF Watching, AtLimit, ServiceReady
  <2> QED
    BY <2>1, <2>4 DEF WatchInv
<1>14. ASSUME NEW i \in IoType, i.waker = io.waker, Transport(i),
              tm' \in TmType, tm'.active = tm.active
       PROVE  WatchInv'
  <2>1. [i EXCEPT !.waker = "none"] \in IoType
    BY DEF IoType
  <2> QED
    BY <1>4, <1>14, <2>1 DEF Transport
<1>15. CASE TransportStep \/ Closed
  <2>1. tm' = tm /\ io.frames \in Nat
    BY <1>0, <1>15 DEF TransportStep, Receive, PeerEof, Drain, FilterPause, FilterResume, Closed,
       IoType
  <2>2. PICK i : /\ Transport(i)
                 /\ \/ i = [io EXCEPT !.frames = @ + 1, !.partial = FALSE, !.burst = FALSE]
                    \/ \E fast \in BOOLEAN : i = [io EXCEPT !.partial = TRUE, !.burst = @ \/ fast]
                    \/ i = [io EXCEPT !.eof = TRUE] \/ i = [io EXCEPT !.phase = "closed"]
                    \/ i = [io EXCEPT !.drained = TRUE] \/ i = [io EXCEPT !.filter = TRUE]
                    \/ i = [io EXCEPT !.filter = FALSE]
    BY <1>15 DEF TransportStep, Receive, PeerEof, Drain, FilterPause, FilterResume, Closed
  <2>3. i \in IoType /\ i.waker = io.waker
    <3>1. CASE i = [io EXCEPT !.frames = @ + 1, !.partial = FALSE, !.burst = FALSE]
      <4>1. io.frames + 1 \in Nat
        BY <2>1
      <4> DEFINE n == io.frames + 1
      <4>2. i = [io EXCEPT !.frames = n, !.partial = FALSE, !.burst = FALSE]
        BY <3>1
      <4> HIDE DEF n
      <4> QED
        BY <1>0, <4>1, <4>2 DEF IoType, n
    <3>2. ASSUME NEW fast \in BOOLEAN, i = [io EXCEPT !.partial = TRUE, !.burst = @ \/ fast]
          PROVE  i \in IoType /\ i.waker = io.waker
      BY <1>0, <3>2 DEF IoType
    <3>3. CASE \/ i = [io EXCEPT !.eof = TRUE] \/ i = [io EXCEPT !.phase = "closed"]
               \/ i = [io EXCEPT !.drained = TRUE] \/ i = [io EXCEPT !.filter = TRUE]
               \/ i = [io EXCEPT !.filter = FALSE]
      BY <1>0, <3>3 DEF IoType
    <3> QED
      BY <2>2, <3>1, <3>2, <3>3
  <2> QED
    BY <1>0, <1>14, <2>1, <2>2, <2>3
<1>16. ASSUME NEW i \in IoType, Kept(io, i), NotifyTimeout(i),
              tm' \in TmType, tm'.active = tm.active,
              UNCHANGED <<st, pc, inflight, svc, robs, serr>>
       PROVE  WatchInv'
  <2>1. CASE i.timeout
    <3>1. io' = i /\ woken' = woken
      BY <1>16, <2>1 DEF NotifyTimeout
    <3>2. Sleeping' => Sleeping
      BY <1>16, <3>1 DEF Sleeping
    <3>3. Watching => Watching'
      BY <1>16, <3>1 DEF Watching, AtLimit, ServiceReady, Clean, Kept
    <3> QED
      BY <1>16, <3>1, <3>2, <3>3 DEF WatchInv, WriteTimed
  <2>2. CASE ~i.timeout
    <3>1. /\ [i EXCEPT !.timeout = TRUE] \in IoType /\ [i EXCEPT !.timeout = TRUE].waker = io.waker
      BY <1>16 DEF IoType, Kept
    <3> QED
      BY <1>14, <1>16, <2>2, <3>1 DEF NotifyTimeout
  <2> QED
    BY <2>1, <2>2
<1>17. CASE TimerFires
  <2>1. /\ [io EXCEPT !.armed = FALSE] \in IoType /\ Kept(io, [io EXCEPT !.armed = FALSE])
    BY <1>0 DEF IoType, Kept
  <2>2. tm' \in TmType /\ tm'.active = tm.active
    BY <1>0, <1>17 DEF TimerFires, TmType
  <2>3. UNCHANGED <<st, pc, inflight, svc, robs, serr>> /\ NotifyTimeout([io EXCEPT !.armed = FALSE])
    BY <1>17 DEF TimerFires, NotifyTimeout, Transport
  <2> QED
    BY <1>16, <2>1, <2>2, <2>3
<1>18. CASE ExternalTimeout
  <2>1. Kept(io, io)
    BY DEF Kept
  <2>2. UNCHANGED <<st, pc, inflight, svc, robs, serr, tm>> /\ NotifyTimeout(io)
    BY <1>18 DEF ExternalTimeout, NotifyTimeout, Transport
  <2> QED
    BY <1>0, <1>16, <2>1, <2>2
<1>19. CASE UNCHANGED vars
  BY <1>2, <1>19 DEF vars
<1> QED
  BY <1>1, <1>5, <1>6, <1>7, <1>8, <1>9, <1>10, <1>11, <1>12, <1>13, <1>15, <1>17, <1>18, <1>19
     DEF Next, PollStep, ServiceStep

LEMMA WatchInit == Init => WatchInv
<1> SUFFICES ASSUME Init PROVE WatchInv
  OBVIOUS
<1>1. Idle \in ReadType /\ Frame \in ReadType
  BY DEF Idle, Frame, ReadType
<1>2. NoTimer \in TmType
  BY <1>1 DEF NoTimer, TmType, Purposes
<1>3. [NoTimer EXCEPT !.active = "frame", !.read = Frame] \in TmType
  BY <1>1, <1>2 DEF TmType, Purposes
<1>4. tm \in TmType
  BY <1>2, <1>3 DEF Init
<1>5. io \in IoType
  BY DEF Init, Quiet, IoType
<1> QED
  BY <1>4, <1>5 DEF Init, WatchInv, Sleeping

LEMMA WatchInvariant == Spec => [](CallInv /\ WatchInv)
BY CallInit, CallStep, WatchInit, WatchStep, PTL DEF Spec

\* A dispatcher that sleeps with a service that is ready has overlooked nothing:
\* whatever the order in which calls end, the readiness changes, the transport
\* moves and timeouts are raised, one of them wakes it (poll, notify_dispatcher).
THEOREM SleepsOnlyWhenIdle == Spec => []NothingOverlooked
<1>1. WatchInv => NothingOverlooked
  BY DEF WatchInv, NothingOverlooked, Sleeping, Watching, Clean
<1> QED
  BY <1>1, WatchInvariant, PTL

-----------------------------------------------------------------------------
(* Keep-alive *)

\* The keep-alive timer ends idle connections only: a frame that came with the
\* expiry, a partial one or a call in flight has disarmed it by the time the expiry is
\* handled, a paused service clears it, and it is never armed in backpressure
\* (select(), update_timer(), handle_timeout(), suspend()).
THEOREM KeepAliveEndsIdle == Spec => IdleOnly
<1> DEFINE Ends == st # "stop" /\ st' = "stop" /\ reason' = "keepalive" /\ tm.active = "keepalive"
           Free == inflight = 0 /\ io.frames = 0 /\ ~io.partial
<1>1. ASSUME CallInv, WatchInv, Next, Ends PROVE Free
  <2>0. /\ Conn \in ConnType /\ Conn.tm = tm /\ Conn.io = io
        /\ st = "backpressure" => WriteTimed(tm)
    BY <1>1, ConnTyped DEF WatchInv
  <2>1. CASE RecvTimeout
    <3>1. PICK d \in Decoded(Consumed(Conn)) :
            LET u == UpdateTimer(d.c, d.item, d.partial)
                t == HandleTimeout(u)
            IN IF d.item THEN CallService(u) /\ UNCHANGED st
               ELSE /\ UNCHANGED serr
                    /\ IF u.tm.active # tm.active THEN Continue(u, "loop") /\ UNCHANGED st
                       ELSE IF t.stop = "none" THEN Continue(t.c, "loop") /\ UNCHANGED st
                       ELSE Stop(t.c, t.stop)
      BY <1>1, <2>1 DEF RecvTimeout
    <3> DEFINE u == UpdateTimer(d.c, d.item, d.partial)
    <3>2. ~d.item /\ u.tm.active = "keepalive"
      BY <1>1, <3>1
    <3>3. Consumed(Conn) \in ConnType /\ Consumed(Conn).io.frames = io.frames
      BY <2>0, ConsumedOp DEF Kept
    <3>4. Consumed(Conn).io.partial = io.partial
      BY <2>0 DEF Consumed, ConnType, IoType
    <3> QED
      BY <3>2, <3>3, <3>4, DecodedOp, DecodedTimed
  <2>2. CASE ServicePaused
    <3> DEFINE c == PauseConn
               timedOut == HandleTimeout(Consumed(c))
    <3>1. ~c.io.timeout
      BY <1>1, PauseConnOp
    <3>2. \/ Stop(c, "failure") \/ UNCHANGED st
      BY <1>1, <2>2, <3>1 DEF ServicePaused, PauseStatus, PauseConn
    <3> QED
      BY <1>1, <3>2 DEF Stop
  <2>3. CASE Flush
    BY <1>1, <2>0, <2>3 DEF Flush, CallInv, PhaseInv, WriteTimed
  <2>4. CASE ServiceFails \/ CheckError \/ DecoderFails
    BY <1>1, <2>4 DEF ServiceFails, CheckError, DecoderFails, Stop
  <2>5. CASE RecvDecode
    BY <1>1, <2>5, SMTT(60) DEF RecvDecode, Stop
  <2>6. st' # "stop" \/ st' = st \/ RecvTimeout \/ ServicePaused \/ Flush \/ ServiceFails
          \/ CheckError \/ DecoderFails \/ RecvDecode
    BY <1>1 DEF Next, PollStep, ServiceStep, TransportStep, PollStarts, PausedBackpressure,
       RecvBackpressure, BackpressureTurn, StopAnswered, StopPending, HandOver, ShutdownTurn,
       ShutdownIoTurn, BackgroundPoll, CallWakes, DetachedDone, DetachedStarts,
       ServiceShutdownDone, SleepElapses, ServiceBecomes, Receive, PeerEof, Drain, FilterPause,
       FilterResume, Closed, TimerFires, ExternalTimeout, NotifyTimeout, Transport
  <2> QED
    BY <1>1, <2>1, <2>2, <2>3, <2>4, <2>5, <2>6
<1>2. CallInv /\ WatchInv /\ [Next]_vars => [Ends => Free]_vars
  BY <1>1
<1> QED
  BY <1>2, WatchInvariant, PTL DEF Spec, IdleOnly
=============================================================================
