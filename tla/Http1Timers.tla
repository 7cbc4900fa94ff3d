------------------------------ MODULE Http1Timers ------------------------------
(***************************************************************************)
(* The timers of a HTTP/1 connection, ntex/src/http/h1/timer.rs.  The      *)
(* transport has one timer, and `act` says what it is armed for: the first *)
(* request, an idle connection, the rate of a request head or payload, or  *)
(* write backpressure.                                                     *)
(*                                                                         *)
(* The operators take and return a context c of the dispatcher: c.tm are   *)
(* the Timers, c.io is the transport, c.sc the configuration.  A duration  *)
(* is a number of periods; of the rest of a period only zero is told       *)
(* apart.  `for` is what the transport's timer was last started for, and   *)
(* for which request; `exp` is what the timer of the last expiry was       *)
(* started for.  Both are history, the code does not keep them.            *)
(***************************************************************************)
EXTENDS Naturals

NoTimers ==
  [act |-> "ClientTimeout", susp |-> "no", wsusp |-> FALSE,
   fast |-> FALSE, budget |-> 0, zero |-> TRUE]

IsWrite(c) == c.tm.act \in {"Write", "WriteWithPayload"}

Purpose(c) == IF IsWrite(c) THEN <<"Write", 0>> ELSE <<c.tm.act, c.log.reqs>>

-----------------------------------------------------------------------------
(* The transport's timer.  A handle stays set after its expiry. *)

IoStopTimer(c) == [c EXCEPT !.io.timer = "none", !.io.timeout = FALSE]

\* A pending expiry stays pending.
IoStartTimer(c) == [c EXCEPT !.io.timer = "armed", !.io.for = Purpose(c)]

NotifyTimeout(c) ==
  IF c.io.timeout THEN c
  ELSE [c EXCEPT !.io.timeout = TRUE, !.io.exp = c.io.for, !.io.waker = FALSE,
                 !.woken = @ \/ c.io.waker]

\* The rest of a period goes on; one without a rest is over at once.
Continue(c, over) ==
  IF over THEN NotifyTimeout([c EXCEPT !.io.for = Purpose(c)]) ELSE IoStartTimer(c)

-----------------------------------------------------------------------------
\* Timers::new
NewTimers(c) ==
  LET n == IoStopTimer([c EXCEPT !.tm = NoTimers])
  IN IF "headers" \in c.sc.limits THEN IoStartTimer(n) ELSE n

StopTimers(c) == IoStopTimer([c EXCEPT !.tm.act = "Stopped", !.tm.susp = "no"])

StopIdle(c) == IF c.tm.act = "Idle" THEN StopTimers(c) ELSE c

\* read_timeout(): the first period is taken from the budget, 0 is no limit.
AfterPeriod(budget) == IF budget = 0 THEN 0 ELSE budget - 1

\* Mutant: the timer left armed for the last request may have expired.
StartReadKeepsExpiry(c, timer) ==
  IoStartTimer([c EXCEPT !.tm.act = timer, !.tm.susp = "no",
                         !.tm.budget = AfterPeriod(c.sc.budget)])

\* Timers::start
StartRead(c, timer) ==
  IoStartTimer([StopIdle(c) EXCEPT !.tm.act = timer, !.tm.susp = "no",
                                   !.tm.budget = AfterPeriod(c.sc.budget)])

PayloadDone(c) ==
  IF IsWrite(c) THEN [c EXCEPT !.tm.act = "Write"]
  ELSE IF c.tm.act = "Idle" THEN c
  ELSE StopTimers(c)

\* Timers::reset
ResetTimers(c) ==
  LET n == [c EXCEPT !.tm.susp = "no", !.tm.fast = FALSE, !.tm.budget = 0, !.tm.zero = TRUE]
  IN IF c.tm.act = "KeepAlive" THEN [n EXCEPT !.tm.act = "Idle"] ELSE PayloadDone(n)

StartKeepAlive(c) ==
  IF c.tm.act = "KeepAlive" THEN c
  ELSE IoStartTimer([c EXCEPT !.tm.act = "KeepAlive", !.tm.susp = "no"])

\* Only called with a headers read rate.  The bytes of the head count.
StartHeaders(c) == StartRead([c EXCEPT !.tm.fast = TRUE], "Headers")

HeadersDecoded(c, received) ==
  IF c.tm.act = "Headers" THEN [c EXCEPT !.tm.fast = @ \/ received] ELSE c

StartPayload(c) ==
  LET n == [c EXCEPT !.tm.fast = FALSE]
  IN IF "payload" \notin c.sc.limits THEN c
     ELSE IF IsWrite(c)
     THEN [n EXCEPT !.tm.act = "WriteWithPayload", !.tm.zero = FALSE,
                    !.tm.budget = AfterPeriod(c.sc.budget)]
     ELSE StartRead(n, "Payload")

PayloadConsumed(c, received) ==
  IF c.tm.act = "Payload" THEN [c EXCEPT !.tm.fast = @ \/ received] ELSE c

PayloadDecoded(c, received) ==
  LET n == PayloadConsumed([c EXCEPT !.tm.act = "Payload", !.tm.zero = TRUE], received)
  IN IF c.tm.act # "PayloadPaused" \/ c.io.filter THEN PayloadConsumed(c, received)
     ELSE Continue(n, c.tm.zero)

\* Mutant: the rest of the period is dropped with the timer.
PausePayloadForgets(c) ==
  IF c.tm.act # "Payload" THEN c ELSE [IoStopTimer(c) EXCEPT !.tm.act = "Stopped"]

\* What is left of the period is kept, nothing of one that has expired.
PausePayload(c) ==
  IF c.tm.act # "Payload" THEN c
  ELSE [IoStopTimer(c) EXCEPT !.tm.act = "PayloadPaused", !.tm.zero = c.io.timer # "armed"]

SuspendRead(c) ==
  IF c.tm.act = "Payload" THEN PausePayload(c)
  ELSE IF c.tm.act \in {"ClientTimeout", "KeepAlive", "Headers"}
          /\ c.tm.susp = "no" /\ c.io.timer # "none"
  THEN [IoStopTimer(c) EXCEPT !.tm.susp = IF c.io.timer = "armed" THEN "left" ELSE "zero"]
  ELSE c

ResumeRead(c) ==
  IF c.tm.susp = "no" THEN c ELSE Continue([c EXCEPT !.tm.susp = "no"], c.tm.susp = "zero")

StartWrite(c) ==
  LET paused == PausePayload(c)
      act == IF paused.tm.act = "PayloadPaused" THEN "WriteWithPayload" ELSE "Write"
      n == IF IsWrite(c) THEN c
           ELSE IoStopTimer([paused EXCEPT !.tm.act = act, !.tm.susp = "no", !.tm.wsusp = TRUE])
  IN IF "write" \notin c.sc.limits THEN c
     ELSE IF n.io.filter THEN (IF n.tm.wsusp THEN n ELSE IoStopTimer([n EXCEPT !.tm.wsusp = TRUE]))
     ELSE IF n.tm.wsusp THEN IoStartTimer([n EXCEPT !.tm.wsusp = FALSE])
     ELSE n

StopWrite(c) ==
  LET next == IF c.tm.act = "Write" THEN "Stopped" ELSE "PayloadPaused"
  IN IF ~IsWrite(c) THEN c
     ELSE IoStopTimer([c EXCEPT !.tm.act = next, !.tm.wsusp = FALSE])

\* Timers::extend: whether the bytes of a period suffice is not told apart
\* when there were any; `enough` decides.
Extends(c, enough) == c.tm.fast /\ enough /\ (c.sc.budget = 0 \/ c.tm.budget > 0)

Extend(c, enough) ==
  LET n == [c EXCEPT !.tm.fast = FALSE]
  IN IF Extends(c, enough) THEN IoStartTimer([n EXCEPT !.tm.budget = AfterPeriod(@)]) ELSE n
=============================================================================
