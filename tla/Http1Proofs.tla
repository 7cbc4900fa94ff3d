----------------------------- MODULE Http1Proofs -----------------------------
(***************************************************************************)
(* Proofs of the safety properties of Http1, for every script a peer may   *)
(* send and everything that services, filters and timers may do meanwhile. *)
(*                                                                         *)
(* A step of the dispatcher is a composition of operators on contexts, the *)
(* state of one connection as a record.  Each operator is given a relation *)
(* between the context it takes and the one it returns, and relations      *)
(* compose: Moves (nothing is read, written or reported), Clocked (only    *)
(* the timers change, and go on serving what they were started for), Ends  *)
(* (the one disconnect message is under way), Eats and Decoded (tokens are *)
(* taken off the input).                                                   *)
(*                                                                         *)
(* The inductive invariant has two parts.  Sound holds whatever happens:   *)
(* types, and Framed, which says where a response is owed and where none   *)
(* may be open.  Settled holds unless the control service rejects a        *)
(* request, the case of the run http1_reuse: the timer and an expiry that  *)
(* is pending are Timely, one that waits for the buffered payload is Held, *)
(* and the input that is left starts with a head wherever a head may be    *)
(* read next and inside a payload while one is read (Base, Kept, over Rem).*)
(***************************************************************************)
EXTENDS Http1, TLAPS, SequenceTheorems, WellFoundedInduction

USE Http1Assumption DEF Http1Assumption

-----------------------------------------------------------------------------
(* Contexts *)

\* A head is not timed while a payload is read.
Headless(c) == c.inner.pay => c.tm.act # "Headers"

\* Between c and d nothing is read, written or reported; a payload may fail.
Moves(c, d) ==
  /\ d \in CtxType /\ d.st = c.st /\ d.sc = c.sc /\ d.fut = c.fut
  /\ d.io.phase = c.io.phase /\ d.io.in = c.io.in
  /\ d.inner.disc = c.inner.disc /\ d.inner.pend = c.inner.pend
  /\ d.inner.started = c.inner.started /\ d.inner.keep = c.inner.keep
  /\ (d.inner.pay => c.inner.pay)
  /\ d.log.reqs = c.log.reqs /\ d.log.resp = c.log.resp /\ d.log.open = c.log.open
  /\ d.log.mixed = c.log.mixed /\ d.log.told = c.log.told /\ d.log.misread = c.log.misread
  /\ (d.rx.end = "eof" => c.rx.end = "eof") /\ d.rx.whole = c.rx.whole
  /\ (d.tm.act = "Payload" => c.tm.act = "Payload" \/ c.inner.pay)
  /\ (Headless(c) => Headless(d))

\* What the timer was started for is what it is used for, and so is the timer
\* whose expiry is pending.
TimelyAt(t, i, l) ==
  /\ ~l.stale
  /\ t.act \in {"Payload", "Headers", "KeepAlive"} => i.for = <<t.act, l.reqs>>
  /\ t.act = "ClientTimeout" /\ (i.timer # "none" \/ i.timeout) => i.for = <<t.act, l.reqs>>
  /\ t.act \in {"Write", "WriteWithPayload"} /\ (i.timer # "none" \/ i.timeout) => i.for = <<"Write", 0>>
  /\ t.act \in {"Payload", "Headers", "KeepAlive", "ClientTimeout"} /\ i.timeout => i.exp = <<t.act, l.reqs>>
  /\ t.act \in {"Write", "WriteWithPayload"} /\ i.timeout => i.exp = <<"Write", 0>>
  /\ t.act \in {"Stopped", "PayloadPaused"} => ~i.timeout /\ i.timer # "armed"
  /\ t.susp # "no" => t.act \in {"ClientTimeout", "KeepAlive", "Headers"}
Timely(c) == TimelyAt(c.tm, c.io, c.log)

\* The timer may be started: an expiry of an earlier start is not pending.
Starts(c) ==
  /\ c.io.timeout => c.io.exp = Purpose(c)
  /\ ~c.log.stale /\ c.tm.act \notin {"Stopped", "PayloadPaused"}
  /\ c.tm.susp # "no" => c.tm.act \in {"ClientTimeout", "KeepAlive", "Headers"}

\* A move of the timers only.
Clocked(c, d) ==
  Moves(c, d) /\ d.inner = c.inner /\ d.log = c.log /\ (Timely(c) => Timely(d))

LEMMA MovesTwice ==
  ASSUME NEW c \in CtxType, NEW d, NEW e, Moves(c, d), Moves(d, e) PROVE Moves(c, e)
BY DEF Moves

LEMMA ClockedTwice ==
  ASSUME NEW c \in CtxType, NEW d, NEW e, Clocked(c, d), Clocked(d, e) PROVE Clocked(c, e)
BY DEF Clocked, Moves

LEMMA ClockedSame == ASSUME NEW c \in CtxType PROVE Clocked(c, c)
BY DEF Clocked, Moves

\* A change of the timers' state and the transport.
With(c, t, i, w) == [c EXCEPT !.tm = t, !.io = i, !.woken = w]

LEMMA WithFields ==
  ASSUME NEW c \in CtxType, NEW t \in TmType, NEW i \in IoType, NEW w \in BOOLEAN
  PROVE  /\ With(c, t, i, w) \in CtxType /\ With(c, t, i, w).tm = t /\ With(c, t, i, w).io = i
         /\ With(c, t, i, w).st = c.st /\ With(c, t, i, w).sc = c.sc
         /\ With(c, t, i, w).fut = c.fut /\ With(c, t, i, w).inner = c.inner
         /\ With(c, t, i, w).rx = c.rx /\ With(c, t, i, w).log = c.log
BY DEF CtxType, With

\* The parts of a context have their types.
LEMMA Parts ==
  ASSUME NEW c \in CtxType
  PROVE  /\ c.tm \in TmType /\ c.io \in IoType /\ c.woken \in BOOLEAN /\ c.inner \in InnerType
         /\ c.rx \in RxType /\ c.fut \in FutType /\ c.log \in LogType /\ c.sc \in Scenarios
BY DEF CtxType

LEMMA WithMoves ==
  ASSUME NEW c \in CtxType, NEW t \in TmType, NEW i \in IoType, NEW w \in BOOLEAN,
         i.phase = c.io.phase, i.in = c.io.in,
         t.act = "Payload" => c.tm.act = "Payload" \/ c.inner.pay,
         t.act = "Headers" => c.tm.act = "Headers" \/ ~c.inner.pay
  PROVE  Moves(c, With(c, t, i, w))
BY WithFields DEF Moves, Headless

LEMMA WithClocked ==
  ASSUME NEW c \in CtxType, NEW t \in TmType, NEW i \in IoType, NEW w \in BOOLEAN,
         i.phase = c.io.phase, i.in = c.io.in,
         t.act = "Payload" => c.tm.act = "Payload" \/ c.inner.pay,
         t.act = "Headers" => c.tm.act = "Headers" \/ ~c.inner.pay,
         Timely(c) => TimelyAt(t, i, c.log)
  PROVE  Clocked(c, With(c, t, i, w))
BY WithFields, WithMoves DEF Clocked, Timely

-----------------------------------------------------------------------------
(* The transport's timer *)

LEMMA PurposeType ==
  ASSUME NEW c \in CtxType PROVE Purpose(c) \in Purposes
BY DEF CtxType, TmType, LogType, Purpose, Purposes

LEMMA IoStopTimerClocked ==
  ASSUME NEW c \in CtxType
  PROVE  /\ Clocked(c, IoStopTimer(c))
         /\ IoStopTimer(c).tm = c.tm
         /\ IoStopTimer(c).io.timer = "none" /\ ~IoStopTimer(c).io.timeout
         /\ IoStopTimer(c).io.for = c.io.for /\ IoStopTimer(c).io.exp = c.io.exp
<1> DEFINE i == [c.io EXCEPT !.timer = "none", !.timeout = FALSE]
<1>1. c.io \in IoType /\ c.tm \in TmType /\ c.woken \in BOOLEAN
  BY Parts
<1>2. i \in IoType /\ i.phase = c.io.phase /\ i.in = c.io.in /\ i.timer = "none"
      /\ i.timeout = FALSE /\ i.for = c.io.for /\ i.exp = c.io.exp
  BY <1>1 DEF IoType
<1>3. IoStopTimer(c) = With(c, c.tm, i, c.woken)
  BY DEF CtxType, IoStopTimer, With
<1> HIDE DEF i
<1>4. Timely(c) => TimelyAt(c.tm, i, c.log)
  BY <1>2 DEF Timely, TimelyAt
<1> QED
  BY <1>1, <1>2, <1>3, <1>4, WithClocked, WithFields

LEMMA IoStartTimerMoves ==
  ASSUME NEW c \in CtxType
  PROVE  /\ Moves(c, IoStartTimer(c)) /\ IoStartTimer(c).tm = c.tm
         /\ IoStartTimer(c).inner = c.inner /\ IoStartTimer(c).log = c.log
         /\ IoStartTimer(c).io.exp = c.io.exp
         /\ Starts(c) => Timely(IoStartTimer(c))
<1> DEFINE i == [c.io EXCEPT !.timer = "armed", !.for = Purpose(c)]
<1>1. c.io \in IoType /\ c.tm \in TmType /\ c.woken \in BOOLEAN
  BY Parts
<1>2. i \in IoType /\ i.phase = c.io.phase /\ i.in = c.io.in /\ i.for = Purpose(c)
      /\ i.timeout = c.io.timeout /\ i.exp = c.io.exp
  BY <1>1, PurposeType DEF IoType
<1>3. IoStartTimer(c) = With(c, c.tm, i, c.woken)
  BY DEF CtxType, IoStartTimer, With
<1> HIDE DEF i
<1>4. Starts(c) => TimelyAt(c.tm, i, c.log)
  BY <1>2 DEF Starts, TimelyAt, Purpose, IsWrite
<1> QED
  BY <1>1, <1>2, <1>3, <1>4, WithMoves, WithFields DEF Timely

LEMMA NotifyTimeoutMoves ==
  ASSUME NEW c \in CtxType
  PROVE  /\ Moves(c, NotifyTimeout(c)) /\ NotifyTimeout(c).tm = c.tm
         /\ NotifyTimeout(c).inner = c.inner /\ NotifyTimeout(c).log = c.log
         /\ NotifyTimeout(c).io.for = c.io.for /\ NotifyTimeout(c).io.timer = c.io.timer
         /\ NotifyTimeout(c).io.timeout
         /\ NotifyTimeout(c).io.exp = IF c.io.timeout THEN c.io.exp ELSE c.io.for
<1> DEFINE i == [c.io EXCEPT !.timeout = TRUE, !.exp = c.io.for, !.waker = FALSE]
           w == c.woken \/ c.io.waker
<1>1. c.io \in IoType /\ c.tm \in TmType /\ c.woken \in BOOLEAN
  BY Parts
<1>2. i \in IoType /\ i.phase = c.io.phase /\ i.in = c.io.in /\ i.for = c.io.for
      /\ i.timer = c.io.timer /\ i.timeout = TRUE /\ i.exp = c.io.for /\ w \in BOOLEAN
  BY <1>1 DEF IoType
<1>3. ~c.io.timeout => NotifyTimeout(c) = With(c, c.tm, i, w)
  BY DEF CtxType, NotifyTimeout, With
<1>4. c.io.timeout => NotifyTimeout(c) = c
  BY DEF NotifyTimeout
<1> HIDE DEF i, w
<1>5. CASE ~c.io.timeout
  BY <1>1, <1>2, <1>3, <1>5, WithMoves, WithFields
<1>6. CASE c.io.timeout
  BY <1>4, <1>6 DEF Moves
<1> QED
  BY <1>5, <1>6

LEMMA ContinueMoves ==
  ASSUME NEW c \in CtxType, NEW over
  PROVE  /\ Moves(c, Continue(c, over)) /\ Continue(c, over).tm = c.tm
         /\ Continue(c, over).inner = c.inner /\ Continue(c, over).log = c.log
         /\ Starts(c) => Timely(Continue(c, over))
<1>1. CASE over
  <2> DEFINE i == [c.io EXCEPT !.for = Purpose(c)]
             d == With(c, c.tm, i, c.woken)
  <2>1. c.io \in IoType /\ c.tm \in TmType /\ c.woken \in BOOLEAN
    BY Parts
  <2>2. i \in IoType /\ i.phase = c.io.phase /\ i.in = c.io.in /\ i.for = Purpose(c)
        /\ i.timeout = c.io.timeout /\ i.exp = c.io.exp
    BY <2>1, PurposeType DEF IoType
  <2>3. Continue(c, over) = NotifyTimeout(d)
    BY <1>1 DEF CtxType, Continue, With
  <2> HIDE DEF i
  <2>4. Moves(c, d) /\ d \in CtxType /\ d.tm = c.tm /\ d.io = i /\ d.inner = c.inner /\ d.log = c.log
    BY <2>1, <2>2, WithMoves, WithFields
  <2> HIDE DEF d
  <2>5. Moves(c, NotifyTimeout(d))
    BY <2>4, NotifyTimeoutMoves, MovesTwice
  <2>6. Starts(c) => Timely(NotifyTimeout(d))
    BY <2>2, <2>4, NotifyTimeoutMoves DEF Starts, Timely, TimelyAt, Purpose, IsWrite
  <2> QED
    BY <2>3, <2>4, <2>5, <2>6, NotifyTimeoutMoves
<1>2. CASE ~over
  BY <1>2, IoStartTimerMoves DEF Continue
<1> QED
  BY <1>1, <1>2

-----------------------------------------------------------------------------
(* The timers *)

LEMMA StopTimersClocked ==
  ASSUME NEW c \in CtxType
  PROVE  /\ Clocked(c, StopTimers(c)) /\ StopTimers(c).tm.act = "Stopped"
         /\ ~StopTimers(c).io.timeout
         /\ ~c.log.stale => Timely(StopTimers(c))
<1> DEFINE t == [c.tm EXCEPT !.act = "Stopped", !.susp = "no"]
           i == [c.io EXCEPT !.timer = "none", !.timeout = FALSE]
<1>1. c.io \in IoType /\ c.tm \in TmType /\ c.woken \in BOOLEAN
  BY Parts
<1>2. /\ i \in IoType /\ i.phase = c.io.phase /\ i.in = c.io.in /\ i.timer = "none"
      /\ i.timeout = FALSE
  BY <1>1 DEF IoType
<1>3. t \in TmType /\ t.act = "Stopped" /\ t.susp = "no"
  BY <1>1 DEF TmType
<1>4. StopTimers(c) = With(c, t, i, c.woken)
  BY DEF CtxType, StopTimers, IoStopTimer, With
<1> HIDE DEF i, t
<1>5. ~c.log.stale => TimelyAt(t, i, c.log)
  BY <1>2, <1>3 DEF TimelyAt
<1>6. Timely(c) => ~c.log.stale
  BY DEF Timely, TimelyAt
<1> QED
  BY <1>1, <1>2, <1>3, <1>4, <1>5, <1>6, WithClocked, WithFields DEF Timely

LEMMA StopIdleClocked ==
  ASSUME NEW c \in CtxType
  PROVE  /\ Clocked(c, StopIdle(c)) /\ StopIdle(c).tm.act # "Idle"
         /\ c.tm.act = "Idle" => ~StopIdle(c).io.timeout
BY StopTimersClocked, ClockedSame DEF StopIdle

LEMMA AfterPeriodType == ASSUME NEW n \in Nat PROVE AfterPeriod(n) \in Nat
BY DEF AfterPeriod

LEMMA BudgetType == ASSUME NEW c \in CtxType PROVE c.sc.budget \in Nat
<1>1. c.sc \in ScenarioType
  BY Parts
<1> QED
  BY <1>1 DEF ScenarioType

LEMMA StartReadClocked ==
  ASSUME NEW c \in CtxType, NEW timer \in {"Headers", "Payload"},
         timer = "Payload" => c.inner.pay, timer = "Headers" => ~c.inner.pay,
         c.io.timeout => c.tm.act \in {"Idle", "Stopped"}
  PROVE  Clocked(c, StartRead(c, timer))
<1> DEFINE n == StopIdle(c)
           b == AfterPeriod(c.sc.budget)
           t == [n.tm EXCEPT !.act = timer, !.susp = "no", !.budget = b]
           m == With(n, t, n.io, n.woken)
<1>1. Clocked(c, n) /\ n \in CtxType /\ n.inner = c.inner /\ n.log = c.log
  BY StopIdleClocked DEF Clocked, Moves
<1>9. Timely(c) => ~n.io.timeout
  <2>1. CASE c.tm.act = "Idle"
    BY <2>1, StopIdleClocked
  <2>2. CASE c.tm.act # "Idle"
    BY <2>2 DEF StopIdle, Timely, TimelyAt
  <2> QED
    BY <2>1, <2>2
<1>2. b \in Nat
  BY AfterPeriodType, BudgetType
<1>3. StartRead(c, timer) = IoStartTimer(m)
  BY <1>1 DEF CtxType, StartRead, With
<1> HIDE DEF n, b
<1>4. n.io \in IoType /\ n.tm \in TmType /\ n.woken \in BOOLEAN
  BY <1>1, Parts
<1>5. t \in TmType /\ t.act = timer /\ t.susp = "no"
  BY <1>2, <1>4 DEF TmType
<1> HIDE DEF t
<1>6. Moves(n, m) /\ m \in CtxType /\ m.tm = t /\ m.io = n.io /\ m.inner = n.inner /\ m.log = n.log
  BY <1>1, <1>4, <1>5, WithMoves, WithFields
<1> HIDE DEF m
<1>7. Moves(c, IoStartTimer(m))
  BY <1>1, <1>6, IoStartTimerMoves, MovesTwice DEF Clocked
<1>8. Timely(c) => Starts(m)
  BY <1>1, <1>5, <1>6, <1>9 DEF Timely, TimelyAt, Starts
<1> QED
  BY <1>1, <1>3, <1>6, <1>7, <1>8, IoStartTimerMoves DEF Clocked

\* A change of the timers' state alone.
LEMMA SetClocked ==
  ASSUME NEW c \in CtxType, NEW t \in TmType,
         t.act = "Payload" => c.tm.act = "Payload" \/ c.inner.pay,
         t.act = "Headers" => c.tm.act = "Headers" \/ ~c.inner.pay,
         Timely(c) => TimelyAt(t, c.io, c.log)
  PROVE  /\ Clocked(c, With(c, t, c.io, c.woken))
         /\ With(c, t, c.io, c.woken).tm = t /\ With(c, t, c.io, c.woken).io = c.io
<1>1. c.io \in IoType /\ c.woken \in BOOLEAN
  BY Parts
<1> QED
  BY <1>1, WithClocked, WithFields

LEMMA PayloadDoneClocked ==
  ASSUME NEW c \in CtxType
  PROVE  Clocked(c, PayloadDone(c)) /\ PayloadDone(c).tm.act \in {"Write", "Idle", "Stopped"}
<1> DEFINE t == [c.tm EXCEPT !.act = "Write"]
<1>1. t \in TmType /\ t.act = "Write" /\ t.susp = c.tm.susp
  BY Parts DEF TmType
<1>2. CASE IsWrite(c)
  <2>1. PayloadDone(c) = With(c, t, c.io, c.woken)
    BY <1>2 DEF CtxType, PayloadDone, With
  <2> HIDE DEF t
  <2>2. Timely(c) => TimelyAt(t, c.io, c.log)
    BY <1>1, <1>2 DEF Timely, TimelyAt, IsWrite
  <2> QED
    BY <1>1, <2>1, <2>2, SetClocked
<1>3. CASE ~IsWrite(c) /\ c.tm.act = "Idle"
  BY <1>3, ClockedSame DEF PayloadDone
<1>4. CASE ~IsWrite(c) /\ c.tm.act # "Idle"
  BY <1>4, StopTimersClocked DEF PayloadDone
<1> QED
  BY <1>2, <1>3, <1>4

\* The timer is reset for a request, whatever the last one has left.
Resets(c) ==
  /\ ~c.log.stale
  /\ IsWrite(c) /\ (c.io.timer # "none" \/ c.io.timeout) => c.io.for = <<"Write", 0>>
  /\ IsWrite(c) /\ c.io.timeout => c.io.exp = <<"Write", 0>>

LEMMA ResetTimersMoves ==
  ASSUME NEW c \in CtxType
  PROVE  /\ Moves(c, ResetTimers(c)) /\ ResetTimers(c).inner = c.inner
         /\ ResetTimers(c).log = c.log
         /\ ResetTimers(c).tm.act \in {"Write", "Idle", "Stopped"}
         /\ Resets(c) => Timely(ResetTimers(c))
<1> DEFINE t == [c.tm EXCEPT !.susp = "no", !.fast = FALSE, !.budget = 0, !.zero = TRUE]
           u == [t EXCEPT !.act = "Idle"]
           n == With(c, t, c.io, c.woken)
<1>1. c.tm \in TmType /\ c.io \in IoType /\ c.woken \in BOOLEAN
  BY Parts
<1>2. t \in TmType /\ t.act = c.tm.act /\ t.susp = "no"
  BY <1>1 DEF TmType
<1>3. u \in TmType /\ u.act = "Idle" /\ u.susp = "no"
  BY <1>2 DEF TmType
<1>4. CASE c.tm.act = "KeepAlive"
  <2>1. ResetTimers(c) = With(c, u, c.io, c.woken)
    BY <1>4 DEF CtxType, ResetTimers, With
  <2> HIDE DEF u
  <2>2. Resets(c) => TimelyAt(u, c.io, c.log)
    BY <1>3 DEF TimelyAt, Resets
  <2> QED
    BY <1>1, <1>3, <2>1, <2>2, WithMoves, WithFields DEF Timely
<1>5. CASE c.tm.act # "KeepAlive"
  <2>1. ResetTimers(c) = PayloadDone(n)
    BY <1>5 DEF CtxType, ResetTimers, With
  <2> HIDE DEF t
  <2>2. Moves(c, n) /\ n \in CtxType /\ n.tm = t /\ n.io = c.io /\ n.inner = c.inner /\ n.log = c.log
    BY <1>1, <1>2, WithMoves, WithFields
  <2> HIDE DEF n
  <2>3. Moves(c, PayloadDone(n)) /\ PayloadDone(n).inner = c.inner /\ PayloadDone(n).log = c.log
    BY <2>2, PayloadDoneClocked, MovesTwice DEF Clocked
  <2>4. ASSUME Resets(c) PROVE Timely(PayloadDone(n))
    <3>1. CASE IsWrite(n) \/ n.tm.act = "Idle"
      <4>1. Timely(n)
        BY <1>2, <2>2, <2>4, <3>1 DEF Resets, Timely, TimelyAt, IsWrite
      <4> QED
        BY <2>2, <4>1, PayloadDoneClocked DEF Clocked
    <3>2. CASE ~IsWrite(n) /\ n.tm.act # "Idle"
      BY <2>2, <2>4, <3>2, StopTimersClocked DEF PayloadDone, Resets
    <3> QED
      BY <3>1, <3>2
  <2> QED
    BY <2>1, <2>2, <2>3, <2>4, PayloadDoneClocked
<1> QED
  BY <1>4, <1>5

LEMMA StartKeepAliveClocked ==
  ASSUME NEW c \in CtxType, ~c.io.timeout PROVE Clocked(c, StartKeepAlive(c))
<1> DEFINE t == [c.tm EXCEPT !.act = "KeepAlive", !.susp = "no"]
           m == With(c, t, c.io, c.woken)
<1>1. CASE c.tm.act = "KeepAlive"
  BY <1>1, ClockedSame DEF StartKeepAlive
<1>2. CASE c.tm.act # "KeepAlive"
  <2>1. t \in TmType /\ t.act = "KeepAlive" /\ t.susp = "no" /\ c.io \in IoType /\ c.woken \in BOOLEAN
    BY Parts DEF TmType
  <2>2. StartKeepAlive(c) = IoStartTimer(m)
    BY <1>2 DEF CtxType, StartKeepAlive, With
  <2> HIDE DEF t
  <2>3. Moves(c, m) /\ m \in CtxType /\ m.tm = t /\ m.io = c.io /\ m.inner = c.inner /\ m.log = c.log
    BY <2>1, WithMoves, WithFields
  <2> HIDE DEF m
  <2>4. Moves(c, IoStartTimer(m))
    BY <2>3, IoStartTimerMoves, MovesTwice
  <2>5. Timely(c) => Starts(m)
    BY <2>1, <2>3 DEF Timely, TimelyAt, Starts
  <2> QED
    BY <2>2, <2>3, <2>4, <2>5, IoStartTimerMoves DEF Clocked
<1> QED
  BY <1>1, <1>2

LEMMA StartHeadersClocked ==
  ASSUME NEW c \in CtxType, ~c.inner.pay, ~c.io.timeout PROVE Clocked(c, StartHeaders(c))
<1> DEFINE t == [c.tm EXCEPT !.fast = TRUE]
           m == With(c, t, c.io, c.woken)
<1>1. t \in TmType /\ t.act = c.tm.act /\ t.susp = c.tm.susp
  BY Parts DEF TmType
<1>2. StartHeaders(c) = StartRead(m, "Headers")
  BY DEF CtxType, StartHeaders, With
<1> HIDE DEF t
<1>3. Timely(c) => TimelyAt(t, c.io, c.log)
  BY <1>1 DEF Timely, TimelyAt
<1>4. Clocked(c, m) /\ m.io = c.io
  BY <1>1, <1>3, SetClocked
<1> HIDE DEF m
<1>5. m \in CtxType /\ ~m.inner.pay /\ ~m.io.timeout
  BY <1>4 DEF Clocked, Moves
<1> QED
  BY <1>2, <1>4, <1>5, StartReadClocked, ClockedTwice

LEMMA FastClocked ==
  ASSUME NEW c \in CtxType, NEW f \in BOOLEAN
  PROVE  /\ Clocked(c, [c EXCEPT !.tm.fast = f])
         /\ [c EXCEPT !.tm.fast = f].tm.act = c.tm.act /\ [c EXCEPT !.tm.fast = f].io = c.io
<1> DEFINE t == [c.tm EXCEPT !.fast = f]
           m == With(c, t, c.io, c.woken)
<1>1. t \in TmType /\ t.act = c.tm.act /\ t.susp = c.tm.susp
  BY Parts DEF TmType
<1>2. [c EXCEPT !.tm.fast = f] = m
  BY DEF CtxType, With
<1> HIDE DEF t
<1>3. Timely(c) => TimelyAt(t, c.io, c.log)
  BY <1>1 DEF Timely, TimelyAt
<1>4. Clocked(c, m) /\ m.tm = t /\ m.io = c.io
  BY <1>1, <1>3, SetClocked
<1> HIDE DEF m
<1> QED
  BY <1>1, <1>2, <1>4

LEMMA HeadersDecodedClocked ==
  ASSUME NEW c \in CtxType, NEW r \in BOOLEAN
  PROVE  Clocked(c, HeadersDecoded(c, r)) /\ HeadersDecoded(c, r).tm.act = c.tm.act /\ HeadersDecoded(c, r).io = c.io
<1>1. c.tm.fast \in BOOLEAN
  BY Parts DEF TmType
<1>2. (c.tm.fast \/ r) \in BOOLEAN
  BY <1>1
<1>3. HeadersDecoded(c, r) = c \/ HeadersDecoded(c, r) = [c EXCEPT !.tm.fast = c.tm.fast \/ r]
  BY DEF HeadersDecoded
<1> QED
  BY <1>2, <1>3, FastClocked, ClockedSame

LEMMA PayloadConsumedClocked ==
  ASSUME NEW c \in CtxType, NEW r \in BOOLEAN
  PROVE  Clocked(c, PayloadConsumed(c, r)) /\ PayloadConsumed(c, r).tm.act = c.tm.act /\ PayloadConsumed(c, r).io = c.io
<1>1. c.tm.fast \in BOOLEAN
  BY Parts DEF TmType
<1>2. (c.tm.fast \/ r) \in BOOLEAN
  BY <1>1
<1>3. PayloadConsumed(c, r) = c \/ PayloadConsumed(c, r) = [c EXCEPT !.tm.fast = c.tm.fast \/ r]
  BY DEF PayloadConsumed
<1> QED
  BY <1>2, <1>3, FastClocked, ClockedSame

LEMMA StartPayloadClocked ==
  ASSUME NEW c \in CtxType, c.inner.pay, c.tm.act \in {"Stopped", "Idle", "Write"}
  PROVE  Clocked(c, StartPayload(c))
<1> DEFINE t == [c.tm EXCEPT !.fast = FALSE]
           b == AfterPeriod(c.sc.budget)
           u == [t EXCEPT !.act = "WriteWithPayload", !.zero = FALSE, !.budget = b]
           n == [c EXCEPT !.tm.fast = FALSE]
<1>1. b \in Nat
  BY AfterPeriodType, BudgetType
<1>2. t \in TmType /\ t.act = c.tm.act /\ t.susp = c.tm.susp
  BY Parts DEF TmType
<1>3. CASE "payload" \notin c.sc.limits
  BY <1>3, ClockedSame DEF StartPayload
<1>4. CASE "payload" \in c.sc.limits /\ IsWrite(c)
  <2> HIDE DEF b
  <2>1. u \in TmType /\ u.act = "WriteWithPayload" /\ u.susp = c.tm.susp
    BY <1>1, <1>2 DEF TmType
  <2>2. StartPayload(c) = With(c, u, c.io, c.woken)
    BY <1>4 DEF CtxType, StartPayload, With, b
  <2> HIDE DEF u
  <2>3. Timely(c) => TimelyAt(u, c.io, c.log)
    BY <1>4, <2>1 DEF Timely, TimelyAt, IsWrite
  <2> QED
    BY <2>1, <2>2, <2>3, SetClocked
<1>5. CASE "payload" \in c.sc.limits /\ ~IsWrite(c)
  <2>1. StartPayload(c) = StartRead(n, "Payload")
    BY <1>5 DEF StartPayload
  <2>2. Clocked(c, n) /\ n.tm.act = c.tm.act
    BY FastClocked
  <2> HIDE DEF n
  <2>3. n \in CtxType /\ n.inner.pay /\ n.tm.act \in {"Idle", "Stopped"}
    BY <1>5, <2>2 DEF Clocked, Moves, IsWrite
  <2> QED
    BY <2>1, <2>2, <2>3, StartReadClocked, ClockedTwice
<1> QED
  BY <1>3, <1>4, <1>5

LEMMA PayloadDecodedClocked ==
  ASSUME NEW c \in CtxType, c.inner.pay, NEW r \in BOOLEAN
  PROVE  Clocked(c, PayloadDecoded(c, r))
<1> DEFINE t == [c.tm EXCEPT !.act = "Payload", !.zero = TRUE]
           m == With(c, t, c.io, c.woken)
           n == PayloadConsumed(m, r)
<1>1. CASE c.tm.act # "PayloadPaused" \/ c.io.filter
  BY <1>1, PayloadConsumedClocked DEF PayloadDecoded
<1>2. CASE c.tm.act = "PayloadPaused" /\ ~c.io.filter
  <2>1. t \in TmType /\ t.act = "Payload" /\ t.susp = c.tm.susp /\ c.io \in IoType /\ c.woken \in BOOLEAN
    BY Parts DEF TmType
  <2>2. PayloadDecoded(c, r) = Continue(n, c.tm.zero)
    <3>1. m = [c EXCEPT !.tm.act = "Payload", !.tm.zero = TRUE]
      BY DEF CtxType, With
    <3> QED
      BY <1>2, <3>1 DEF PayloadDecoded
  <2> HIDE DEF t
  <2>3. Moves(c, m) /\ m \in CtxType /\ m.tm = t /\ m.io = c.io /\ m.inner = c.inner /\ m.log = c.log
    BY <2>1, WithMoves, WithFields
  <2> HIDE DEF m
  <2>4. Clocked(m, n) /\ n.tm.act = "Payload" /\ n \in CtxType /\ n.inner = c.inner /\ n.log = c.log /\ n.io = c.io
    BY <2>1, <2>3, PayloadConsumedClocked DEF Clocked, Moves
  <2>5. n.tm.susp = m.tm.susp
    BY <2>3 DEF n, PayloadConsumed, CtxType, TmType
  <2> HIDE DEF n
  <2>6. Timely(c) => Starts(n)
    BY <1>2, <2>1, <2>3, <2>4, <2>5 DEF Timely, TimelyAt, Starts
  <2>7. Moves(c, n)
    BY <2>3, <2>4, MovesTwice DEF Clocked
  <2> QED
    BY <2>2, <2>4, <2>6, <2>7, ContinueMoves, MovesTwice DEF Clocked
<1> QED
  BY <1>1, <1>2

LEMMA PausePayloadClocked ==
  ASSUME NEW c \in CtxType
  PROVE  /\ Clocked(c, PausePayload(c))
         /\ PausePayload(c).tm.act = (IF c.tm.act = "Payload" THEN "PayloadPaused" ELSE c.tm.act)
<1> DEFINE b == c.io.timer # "armed"
           t == [c.tm EXCEPT !.act = "PayloadPaused", !.zero = b]
           i == [c.io EXCEPT !.timer = "none", !.timeout = FALSE]
<1>1. CASE c.tm.act # "Payload"
  BY <1>1, ClockedSame DEF PausePayload
<1>2. CASE c.tm.act = "Payload"
  <2>1. /\ i \in IoType /\ i.phase = c.io.phase /\ i.in = c.io.in /\ i.timer = "none"
        /\ i.timeout = FALSE /\ c.woken \in BOOLEAN
    BY Parts DEF IoType
  <2>2. b \in BOOLEAN
    OBVIOUS
  <2>3. PausePayload(c) = With(c, t, i, c.woken)
    BY <1>2 DEF CtxType, PausePayload, IoStopTimer, With
  <2> HIDE DEF b
  <2>4. t \in TmType /\ t.act = "PayloadPaused" /\ t.susp = c.tm.susp
    BY <2>2, Parts DEF TmType
  <2> HIDE DEF i, t
  <2>5. Timely(c) => TimelyAt(t, i, c.log)
    BY <1>2, <2>1, <2>4 DEF Timely, TimelyAt
  <2> QED
    BY <1>2, <2>1, <2>3, <2>4, <2>5, WithClocked, WithFields
<1> QED
  BY <1>1, <1>2

LEMMA SuspendReadClocked ==
  ASSUME NEW c \in CtxType PROVE Clocked(c, SuspendRead(c))
<1> DEFINE x == IF c.io.timer = "armed" THEN "left" ELSE "zero"
           n == IoStopTimer(c)
           t == [n.tm EXCEPT !.susp = x]
<1>1. CASE c.tm.act = "Payload"
  BY <1>1, PausePayloadClocked DEF SuspendRead
<1>2. CASE /\ c.tm.act \in {"ClientTimeout", "KeepAlive", "Headers"}
           /\ c.tm.susp = "no" /\ c.io.timer # "none"
  <2>1. Clocked(c, n) /\ n \in CtxType /\ n.tm = c.tm
    BY IoStopTimerClocked DEF Clocked, Moves
  <2>2. SuspendRead(c) = With(n, t, n.io, n.woken)
    BY <1>2, <2>1 DEF CtxType, SuspendRead, With
  <2>3. x \in {"left", "zero"}
    OBVIOUS
  <2> HIDE DEF n, x
  <2>4. t \in TmType /\ t.act = n.tm.act
    BY <2>1, <2>3, Parts DEF TmType
  <2> HIDE DEF t
  <2>5. Timely(n) => TimelyAt(t, n.io, n.log)
    BY <1>2, <2>1, <2>4 DEF Timely, TimelyAt
  <2> QED
    BY <2>1, <2>2, <2>4, <2>5, SetClocked, ClockedTwice
<1>3. CASE /\ c.tm.act # "Payload"
           /\ ~(/\ c.tm.act \in {"ClientTimeout", "KeepAlive", "Headers"}
                /\ c.tm.susp = "no" /\ c.io.timer # "none")
  BY <1>3, ClockedSame DEF SuspendRead
<1> QED
  BY <1>1, <1>2, <1>3

LEMMA ResumeReadClocked ==
  ASSUME NEW c \in CtxType
  PROVE  Clocked(c, ResumeRead(c)) /\ ResumeRead(c).tm.act = c.tm.act
<1> DEFINE t == [c.tm EXCEPT !.susp = "no"]
           m == With(c, t, c.io, c.woken)
<1>1. CASE c.tm.susp = "no"
  BY <1>1, ClockedSame DEF ResumeRead
<1>2. CASE c.tm.susp # "no"
  <2>1. t \in TmType /\ t.act = c.tm.act /\ t.susp = "no" /\ c.io \in IoType /\ c.woken \in BOOLEAN
    BY Parts DEF TmType
  <2>2. ResumeRead(c) = Continue(m, c.tm.susp = "zero")
    BY <1>2 DEF CtxType, ResumeRead, With
  <2> HIDE DEF t
  <2>3. Moves(c, m) /\ m \in CtxType /\ m.tm = t /\ m.io = c.io /\ m.inner = c.inner /\ m.log = c.log
    BY <2>1, WithMoves, WithFields
  <2> HIDE DEF m
  <2>4. Timely(c) => Starts(m)
    BY <1>2, <2>1, <2>3 DEF Timely, TimelyAt, Starts, Purpose, IsWrite
  <2> QED
    BY <2>1, <2>2, <2>3, <2>4, ContinueMoves, MovesTwice DEF Clocked
<1> QED
  BY <1>1, <1>2

LEMMA StopWriteClocked ==
  ASSUME NEW c \in CtxType PROVE Clocked(c, StopWrite(c)) /\ ~IsWrite(StopWrite(c))
<1> DEFINE x == IF c.tm.act = "Write" THEN "Stopped" ELSE "PayloadPaused"
           t == [c.tm EXCEPT !.act = x, !.wsusp = FALSE]
           i == [c.io EXCEPT !.timer = "none", !.timeout = FALSE]
<1>1. CASE ~IsWrite(c)
  BY <1>1, ClockedSame DEF StopWrite
<1>2. CASE IsWrite(c)
  <2>1. /\ i \in IoType /\ i.phase = c.io.phase /\ i.in = c.io.in /\ i.timer = "none"
        /\ i.timeout = FALSE /\ c.woken \in BOOLEAN
    BY Parts DEF IoType
  <2>2. x \in {"Stopped", "PayloadPaused"}
    OBVIOUS
  <2>3. StopWrite(c) = With(c, t, i, c.woken)
    BY <1>2 DEF CtxType, StopWrite, IoStopTimer, With
  <2> HIDE DEF x
  <2>4. t \in TmType /\ t.act = x /\ t.susp = c.tm.susp
    BY <2>2, Parts DEF TmType
  <2> HIDE DEF i, t
  <2>5. Timely(c) => TimelyAt(t, i, c.log)
    BY <1>2, <2>1, <2>2, <2>4 DEF Timely, TimelyAt, IsWrite
  <2> QED
    BY <2>1, <2>2, <2>3, <2>4, <2>5, WithClocked, WithFields DEF IsWrite
<1> QED
  BY <1>1, <1>2

\* StartWrite() enters backpressure with the timer stopped.
LEMMA EnterWriteClocked ==
  ASSUME NEW c \in CtxType, NEW a \in {"Write", "WriteWithPayload"}
  PROVE  LET d == IoStopTimer([c EXCEPT !.tm.act = a, !.tm.susp = "no", !.tm.wsusp = TRUE])
         IN Clocked(c, d) /\ IsWrite(d)
<1> DEFINE t == [c.tm EXCEPT !.act = a, !.susp = "no", !.wsusp = TRUE]
           i == [c.io EXCEPT !.timer = "none", !.timeout = FALSE]
<1>1. /\ i \in IoType /\ i.phase = c.io.phase /\ i.in = c.io.in /\ i.timer = "none"
      /\ i.timeout = FALSE /\ c.woken \in BOOLEAN
  BY Parts DEF IoType
<1>2. t \in TmType /\ t.act = a /\ t.susp = "no"
  BY Parts DEF TmType
<1>3. IoStopTimer([c EXCEPT !.tm.act = a, !.tm.susp = "no", !.tm.wsusp = TRUE])
        = With(c, t, i, c.woken)
  BY DEF CtxType, IoStopTimer, With
<1> HIDE DEF i, t
<1>4. Timely(c) => TimelyAt(t, i, c.log)
  BY <1>1, <1>2 DEF Timely, TimelyAt
<1> QED
  BY <1>1, <1>2, <1>3, <1>4, WithClocked, WithFields DEF IsWrite

LEMMA WriteSuspClocked ==
  ASSUME NEW c \in CtxType, NEW b \in BOOLEAN
  PROVE  LET d == [c EXCEPT !.tm.wsusp = b]
         IN Clocked(c, d) /\ d.tm.act = c.tm.act /\ d.tm.susp = c.tm.susp /\ d.io = c.io
<1> DEFINE t == [c.tm EXCEPT !.wsusp = b]
           m == With(c, t, c.io, c.woken)
<1>1. t \in TmType /\ t.act = c.tm.act /\ t.susp = c.tm.susp
  BY Parts DEF TmType
<1>2. [c EXCEPT !.tm.wsusp = b] = m
  BY DEF CtxType, With
<1> HIDE DEF t
<1>3. Timely(c) => TimelyAt(t, c.io, c.log)
  BY <1>1 DEF Timely, TimelyAt
<1>4. Clocked(c, m) /\ m.tm = t /\ m.io = c.io
  BY <1>1, <1>3, SetClocked
<1> HIDE DEF m
<1> QED
  BY <1>1, <1>2, <1>4

LEMMA StartWriteClocked ==
  ASSUME NEW c \in CtxType PROVE Clocked(c, StartWrite(c))
<1> DEFINE paused == PausePayload(c)
           act == IF paused.tm.act = "PayloadPaused" THEN "WriteWithPayload" ELSE "Write"
           n == IF IsWrite(c) THEN c
                ELSE IoStopTimer([paused EXCEPT !.tm.act = act, !.tm.susp = "no", !.tm.wsusp = TRUE])
           s == [n EXCEPT !.tm.wsusp = TRUE]
           r == [n EXCEPT !.tm.wsusp = FALSE]
<1>1. CASE "write" \notin c.sc.limits
  BY <1>1, ClockedSame DEF StartWrite
<1>2. CASE "write" \in c.sc.limits
  <2>1. Clocked(c, paused) /\ paused \in CtxType
    BY PausePayloadClocked DEF Clocked, Moves
  <2>2. Clocked(c, n) /\ n \in CtxType /\ IsWrite(n)
    <3>1. CASE IsWrite(c)
      BY <3>1, ClockedSame
    <3>2. CASE ~IsWrite(c)
      <4>1. act \in {"Write", "WriteWithPayload"}
        OBVIOUS
      <4> HIDE DEF paused, act
      <4>2. Clocked(paused, n) /\ IsWrite(n)
        BY <2>1, <3>2, <4>1, EnterWriteClocked
      <4> HIDE DEF n
      <4> QED
        BY <2>1, <4>2, ClockedTwice DEF Clocked, Moves
    <3> QED
      BY <3>1, <3>2
  <2>3. StartWrite(c) \in {n, IoStopTimer(s), IoStartTimer(r)}
    BY <1>2 DEF StartWrite
  <2> HIDE DEF n
  <2>4. Clocked(c, IoStopTimer(s))
    <3>1. Clocked(n, s) /\ s \in CtxType
      BY <2>2, WriteSuspClocked DEF Clocked, Moves
    <3> HIDE DEF s
    <3>2. Clocked(c, s)
      BY <2>2, <3>1, ClockedTwice
    <3> QED
      BY <3>1, <3>2, IoStopTimerClocked, ClockedTwice
  <2>5. Clocked(n, r) /\ r \in CtxType /\ r.tm.act = n.tm.act /\ r.tm.susp = n.tm.susp /\ r.io = n.io
    BY <2>2, WriteSuspClocked DEF Clocked, Moves
  <2> HIDE DEF r
  <2>6. Timely(n) => Starts(r)
    BY <2>2, <2>5 DEF Clocked, Timely, TimelyAt, Starts, Purpose, IsWrite
  <2>7. Clocked(n, IoStartTimer(r))
    BY <2>2, <2>5, <2>6, IoStartTimerMoves, MovesTwice DEF Clocked
  <2> QED
    BY <2>2, <2>3, <2>4, <2>7, ClockedTwice
<1> QED
  BY <1>1, <1>2

LEMMA ReleaseWriteClocked ==
  ASSUME NEW c \in CtxType PROVE Clocked(c, ReleaseWrite(c))
BY StopWriteClocked, ClockedSame DEF ReleaseWrite

LEMMA ExtendClocked ==
  ASSUME NEW c \in CtxType, c.tm.act \in {"Headers", "Payload"}, NEW enough \in BOOLEAN
  PROVE  /\ Clocked(c, Extend(c, enough)) /\ Extend(c, enough).tm.act = c.tm.act
         /\ Extend(c, enough).io.exp = c.io.exp
<1> DEFINE n == [c EXCEPT !.tm.fast = FALSE]
           b == AfterPeriod(n.tm.budget)
           t == [n.tm EXCEPT !.budget = b]
           m == With(n, t, n.io, n.woken)
<1>1. Clocked(c, n) /\ n \in CtxType /\ n.tm.act = c.tm.act /\ n.io = c.io
  BY FastClocked DEF Clocked, Moves
<1>2. CASE ~Extends(c, enough)
  BY <1>1, <1>2 DEF Extend
<1>3. CASE Extends(c, enough)
  <2>1. Extend(c, enough) = IoStartTimer(m)
    <3>1. m = [n EXCEPT !.tm.budget = AfterPeriod(@)]
      BY <1>1 DEF CtxType, TmType, With
    <3> QED
      BY <1>3, <3>1 DEF Extend
  <2> HIDE DEF n
  <2>2. b \in Nat
    BY <1>1, Parts, AfterPeriodType DEF TmType
  <2> HIDE DEF b
  <2>3. t \in TmType /\ t.act = n.tm.act /\ t.susp = n.tm.susp /\ n.io \in IoType /\ n.woken \in BOOLEAN
    BY <1>1, <2>2, Parts DEF TmType
  <2> HIDE DEF t
  <2>4. Moves(n, m) /\ m \in CtxType /\ m.tm = t /\ m.io = n.io /\ m.inner = n.inner /\ m.log = n.log
    BY <1>1, <2>3, WithMoves, WithFields
  <2> HIDE DEF m
  <2>5. Timely(n) => Starts(m)
    BY <1>1, <2>3, <2>4 DEF Timely, TimelyAt, Starts, Purpose, IsWrite
  <2>6. /\ Clocked(n, IoStartTimer(m)) /\ IoStartTimer(m).tm.act = c.tm.act
        /\ IoStartTimer(m).io.exp = c.io.exp
    BY <1>1, <2>3, <2>4, <2>5, IoStartTimerMoves, MovesTwice DEF Clocked
  <2> QED
    BY <1>1, <2>1, <2>6, ClockedTwice
<1> QED
  BY <1>2, <1>3

-----------------------------------------------------------------------------
(* Changes of the transport and failures of a payload *)

LEMMA IoClocked ==
  ASSUME NEW c \in CtxType, NEW i \in IoType, NEW w \in BOOLEAN,
         i.phase = c.io.phase, i.in = c.io.in, i.timer = c.io.timer, i.for = c.io.for, i.exp = c.io.exp,
         i.timeout => c.io.timeout
  PROVE  /\ Clocked(c, With(c, c.tm, i, w)) /\ With(c, c.tm, i, w).tm = c.tm
         /\ With(c, c.tm, i, w).io = i
<1>1. Timely(c) => TimelyAt(c.tm, i, c.log)
  BY DEF Timely, TimelyAt
<1>2. c.tm \in TmType
  BY Parts
<1> QED
  BY <1>1, <1>2, WithClocked, WithFields

LEMMA RegisteredClocked ==
  ASSUME NEW c \in CtxType
  PROVE  /\ Clocked(c, Registered(c)) /\ Registered(c).tm = c.tm
         /\ Registered(c).io = [c.io EXCEPT !.waker = TRUE]
<1> DEFINE i == [c.io EXCEPT !.waker = TRUE]
<1>1. /\ i \in IoType /\ i.phase = c.io.phase /\ i.in = c.io.in /\ i.timer = c.io.timer
      /\ i.for = c.io.for /\ i.exp = c.io.exp /\ i.timeout = c.io.timeout /\ c.woken \in BOOLEAN
  BY Parts DEF IoType
<1>2. Registered(c) = With(c, c.tm, i, c.woken)
  BY DEF CtxType, Registered, With
<1> HIDE DEF i
<1>3. Clocked(c, Registered(c)) /\ Registered(c).tm = c.tm /\ Registered(c).io = i
  BY <1>1, <1>2, IoClocked
<1> QED
  BY <1>3 DEF i

\* The expiry of the timer is taken note of.
Noted(c) == [c EXCEPT !.io.timeout = FALSE]

LEMMA NotedClocked ==
  ASSUME NEW c \in CtxType
  PROVE  /\ Clocked(c, Noted(c)) /\ Noted(c).tm = c.tm
         /\ Noted(c).io = [c.io EXCEPT !.timeout = FALSE]
<1> DEFINE i == [c.io EXCEPT !.timeout = FALSE]
<1>1. /\ i \in IoType /\ i.phase = c.io.phase /\ i.in = c.io.in /\ i.timer = c.io.timer
      /\ i.for = c.io.for /\ i.exp = c.io.exp /\ ~i.timeout /\ c.woken \in BOOLEAN
  BY Parts DEF IoType
<1>2. Noted(c) = With(c, c.tm, i, c.woken)
  BY DEF CtxType, Noted, With
<1> HIDE DEF i
<1>3. Clocked(c, Noted(c)) /\ Noted(c).tm = c.tm /\ Noted(c).io = i
  BY <1>1, <1>2, IoClocked
<1> QED
  BY <1>3 DEF i

LEMMA PausedClocked ==
  ASSUME NEW c \in CtxType, NEW b \in BOOLEAN
  PROVE  Clocked(c, [c EXCEPT !.io.paused = b])
<1> DEFINE i == [c.io EXCEPT !.paused = b]
<1>1. /\ i \in IoType /\ i.phase = c.io.phase /\ i.in = c.io.in /\ i.timer = c.io.timer
      /\ i.for = c.io.for /\ i.exp = c.io.exp /\ i.timeout = c.io.timeout /\ c.woken \in BOOLEAN
  BY Parts DEF IoType
<1>2. [c EXCEPT !.io.paused = b] = With(c, c.tm, i, c.woken)
  BY DEF CtxType, With
<1> HIDE DEF i
<1> QED
  BY <1>1, <1>2, IoClocked

LEMMA DrainedClocked ==
  ASSUME NEW c \in CtxType PROVE Clocked(c, [c EXCEPT !.io.full = FALSE])
<1> DEFINE i == [c.io EXCEPT !.full = FALSE]
<1>1. /\ i \in IoType /\ i.phase = c.io.phase /\ i.in = c.io.in /\ i.timer = c.io.timer
      /\ i.for = c.io.for /\ i.exp = c.io.exp /\ i.timeout = c.io.timeout /\ c.woken \in BOOLEAN
  BY Parts DEF IoType
<1>2. [c EXCEPT !.io.full = FALSE] = With(c, c.tm, i, c.woken)
  BY DEF CtxType, With
<1> HIDE DEF i
<1> QED
  BY <1>1, <1>2, IoClocked

LEMMA FillClocked ==
  ASSUME NEW c \in CtxType, NEW f \in BOOLEAN PROVE Clocked(c, Fill(c, f))
<1> DEFINE b == c.io.drained /\ ~f
           i == [c.io EXCEPT !.drained = b]
           k == [c.io EXCEPT !.full = TRUE, !.drained = FALSE, !.waker = FALSE]
           w == c.woken \/ c.io.waker
<1>1. c.io \in IoType /\ c.woken \in BOOLEAN
  BY Parts
<1>2. /\ k \in IoType /\ k.phase = c.io.phase /\ k.in = c.io.in /\ k.timer = c.io.timer
      /\ k.for = c.io.for /\ k.exp = c.io.exp /\ k.timeout = c.io.timeout /\ w \in BOOLEAN
  BY <1>1 DEF IoType
<1>3. b \in BOOLEAN
  BY <1>1 DEF IoType
<1>4. Fill(c, f) = With(c, c.tm, i, c.woken) \/ Fill(c, f) = With(c, c.tm, k, w)
  BY DEF CtxType, Fill, With
<1> HIDE DEF b
<1>5. /\ i \in IoType /\ i.phase = c.io.phase /\ i.in = c.io.in /\ i.timer = c.io.timer
      /\ i.for = c.io.for /\ i.exp = c.io.exp /\ i.timeout = c.io.timeout
  BY <1>1, <1>3 DEF IoType
<1> HIDE DEF i, k, w
<1> QED
  BY <1>1, <1>2, <1>4, <1>5, IoClocked

LEMMA LateMoves ==
  ASSUME NEW c \in CtxType, NEW p
  PROVE  /\ Moves(c, Late(c, p)) /\ Late(c, p).inner = c.inner /\ Late(c, p).tm = c.tm
         /\ Late(c, p).io = c.io
         /\ Timely(c) /\ c.io.exp = p => Timely(Late(c, p))
<1> DEFINE b == c.log.stale \/ c.io.exp # p
           l == [c.log EXCEPT !.stale = b]
           d == [c EXCEPT !.log = l]
<1>1. b \in BOOLEAN /\ c.log \in LogType
  BY Parts DEF LogType
<1>2. Late(c, p) = d
  BY DEF CtxType, Late
<1> HIDE DEF b
<1>3. /\ l \in LogType /\ l.stale = b /\ l.reqs = c.log.reqs /\ l.resp = c.log.resp
      /\ l.open = c.log.open /\ l.mixed = c.log.mixed /\ l.told = c.log.told
      /\ l.misread = c.log.misread
  BY <1>1 DEF LogType
<1> HIDE DEF l
<1>4. /\ d \in CtxType /\ d.log = l /\ d.tm = c.tm /\ d.io = c.io /\ d.inner = c.inner
      /\ d.st = c.st /\ d.sc = c.sc /\ d.fut = c.fut /\ d.rx = c.rx
  BY <1>3 DEF CtxType
<1> HIDE DEF d
<1>5. Moves(c, d)
  BY <1>3, <1>4 DEF Moves, Headless
<1>6. Timely(c) /\ c.io.exp = p => Timely(d)
  BY <1>3, <1>4 DEF Timely, TimelyAt, b
<1> QED
  BY <1>2, <1>4, <1>5, <1>6

LEMMA EndStreamFields ==
  ASSUME NEW c \in CtxType, NEW end \in {"eof", "error"}
  PROVE  LET d == EndStream(c, end)
         IN /\ d \in CtxType /\ d.log = c.log /\ d.tm = c.tm /\ d.io = c.io /\ d.inner = c.inner
            /\ d.st = c.st /\ d.sc = c.sc /\ d.fut = c.fut
            /\ d.rx.whole = c.rx.whole /\ d.rx.alive = c.rx.alive
            /\ d.rx.end = IF c.inner.pay /\ c.rx.alive
                          THEN (IF c.rx.end = "error" THEN "error" ELSE end) ELSE c.rx.end
<1> DEFINE z == IF c.rx.end = "error" THEN "error" ELSE end
           x == [c.rx EXCEPT !.end = z, !.task = FALSE]
           w == c.woken \/ c.rx.task
           d == [c EXCEPT !.rx = x, !.woken = w]
<1>1. CASE ~c.inner.pay \/ ~c.rx.alive
  BY <1>1 DEF EndStream
<1>2. CASE c.inner.pay /\ c.rx.alive
  <2>1. c.rx \in RxType /\ c.woken \in BOOLEAN /\ z \in {"none", "eof", "error"}
    BY Parts
  <2>2. EndStream(c, end) = d
    BY <1>2, <2>1 DEF CtxType, RxType, EndStream
  <2> HIDE DEF z
  <2>3. /\ x \in RxType /\ x.end = z /\ x.whole = c.rx.whole /\ x.alive = c.rx.alive
        /\ w \in BOOLEAN
    BY <2>1 DEF RxType
  <2> HIDE DEF x, w
  <2>4. /\ d \in CtxType /\ d.log = c.log /\ d.tm = c.tm /\ d.io = c.io /\ d.inner = c.inner
        /\ d.st = c.st /\ d.sc = c.sc /\ d.fut = c.fut /\ d.rx = x
    BY <2>3 DEF CtxType
  <2> HIDE DEF d
  <2> QED
    BY <1>2, <2>2, <2>3, <2>4 DEF z
<1> QED
  BY <1>1, <1>2

LEMMA SetErrorMoves ==
  ASSUME NEW c \in CtxType
  PROVE  /\ Moves(c, SetError(c)) /\ SetError(c).inner = c.inner /\ SetError(c).log = c.log
         /\ SetError(c).tm = c.tm /\ SetError(c).io = c.io
         /\ SetError(c).rx.alive = c.rx.alive
         /\ c.inner.pay /\ c.rx.alive => SetError(c).rx.end = "error"
<1> DEFINE d == SetError(c)
<1>1. /\ d \in CtxType /\ d.log = c.log /\ d.tm = c.tm /\ d.io = c.io /\ d.inner = c.inner
      /\ d.st = c.st /\ d.sc = c.sc /\ d.fut = c.fut
      /\ d.rx.whole = c.rx.whole /\ d.rx.alive = c.rx.alive
      /\ d.rx.end = IF c.inner.pay /\ c.rx.alive THEN "error" ELSE c.rx.end
  BY EndStreamFields DEF SetError
<1> HIDE DEF d
<1> QED
  BY <1>1 DEF Moves, Headless, d

\* The sender is dropped: a stream that has not failed ends.
LEMMA DropSenderFields ==
  ASSUME NEW c \in CtxType
  PROVE  LET d == DropSender(c)
         IN /\ d \in CtxType /\ d.log = c.log /\ d.tm = c.tm /\ d.io = c.io /\ ~d.inner.pay
            /\ d.st = c.st /\ d.sc = c.sc /\ d.fut = c.fut /\ d.inner.disc = c.inner.disc
            /\ d.inner.pend = c.inner.pend /\ d.inner.started = c.inner.started
            /\ d.inner.keep = c.inner.keep
            /\ d.rx.whole = c.rx.whole
            /\ d.rx.end = IF c.inner.pay /\ c.rx.alive /\ c.rx.end # "error" THEN "eof" ELSE c.rx.end
<1> DEFINE e == EndStream(c, "eof")
           n == [e.inner EXCEPT !.pay = FALSE]
           d == [e EXCEPT !.inner = n]
<1>1. /\ e \in CtxType /\ e.log = c.log /\ e.tm = c.tm /\ e.io = c.io /\ e.inner = c.inner
      /\ e.st = c.st /\ e.sc = c.sc /\ e.fut = c.fut /\ e.rx.whole = c.rx.whole
      /\ e.rx.end = IF c.inner.pay /\ c.rx.alive /\ c.rx.end # "error" THEN "eof" ELSE c.rx.end
  BY EndStreamFields
<1>2. DropSender(c) = d
  BY <1>1 DEF CtxType, DropSender
<1> HIDE DEF e
<1>3. /\ n \in InnerType /\ ~n.pay /\ n.disc = e.inner.disc /\ n.pend = e.inner.pend
      /\ n.started = e.inner.started /\ n.keep = e.inner.keep
  BY <1>1, Parts DEF InnerType
<1> HIDE DEF n
<1>4. /\ d \in CtxType /\ d.log = e.log /\ d.tm = e.tm /\ d.io = e.io /\ d.inner = n
      /\ d.st = e.st /\ d.sc = e.sc /\ d.fut = e.fut /\ d.rx = e.rx
  BY <1>1, <1>3 DEF CtxType
<1> HIDE DEF d
<1> QED
  BY <1>1, <1>2, <1>3, <1>4

\* A stream that has ended already, or has nobody to read it, stays as it is.
LEMMA DropSenderMoves ==
  ASSUME NEW c \in CtxType, c.inner.pay /\ c.rx.alive => c.rx.end # "none"
  PROVE  /\ Moves(c, DropSender(c)) /\ ~DropSender(c).inner.pay
         /\ DropSender(c).log = c.log
         /\ DropSender(c).tm = c.tm /\ DropSender(c).io = c.io
<1> DEFINE d == DropSender(c)
<1>1. /\ d \in CtxType /\ d.log = c.log /\ d.tm = c.tm /\ d.io = c.io /\ ~d.inner.pay
      /\ d.st = c.st /\ d.sc = c.sc /\ d.fut = c.fut /\ d.inner.disc = c.inner.disc
      /\ d.inner.pend = c.inner.pend /\ d.inner.started = c.inner.started
      /\ d.inner.keep = c.inner.keep
      /\ d.rx.whole = c.rx.whole /\ d.rx.end = c.rx.end
  BY DropSenderFields, Parts DEF RxType
<1> HIDE DEF d
<1> QED
  BY <1>1 DEF Moves, Headless, d

LEMMA SetPayloadErrorMoves ==
  ASSUME NEW c \in CtxType
  PROVE  /\ Moves(c, SetPayloadError(c)) /\ ~SetPayloadError(c).inner.pay
         /\ SetPayloadError(c).log = c.log
         /\ SetPayloadError(c).tm = c.tm /\ SetPayloadError(c).io = c.io
<1> DEFINE e == SetError(c)
<1>1. /\ Moves(c, e) /\ e \in CtxType /\ e.inner = c.inner /\ e.log = c.log /\ e.tm = c.tm
      /\ e.io = c.io /\ (e.inner.pay /\ e.rx.alive => e.rx.end = "error")
  BY SetErrorMoves DEF Moves
<1>2. SetPayloadError(c) = DropSender(e)
  BY DEF SetPayloadError
<1> HIDE DEF e
<1> QED
  BY <1>1, <1>2, DropSenderMoves, MovesTwice

\* The write timer has expired, and was started for this.
LEMMA WriteTimerExpiredMoves ==
  ASSUME NEW c \in CtxType
  PROVE  /\ Moves(c, WriteTimerExpired(c))
         /\ ~WriteTimerFails(c) => WriteTimerExpired(c).inner.pay = c.inner.pay
         /\ Timely(c) /\ c.io.exp = <<"Write", 0>> => Timely(WriteTimerExpired(c))
<1> DEFINE l == Late(c, <<"Write", 0>>)
<1>1. CASE WriteTimerFails(c)
  <2>1. /\ Moves(c, l) /\ l \in CtxType
        /\ Timely(c) /\ c.io.exp = <<"Write", 0>> => Timely(l)
    BY LateMoves DEF Moves
  <2>2. WriteTimerExpired(c) = SetPayloadError(l)
    BY <1>1 DEF WriteTimerExpired
  <2> HIDE DEF l
  <2> QED
    BY <1>1, <2>1, <2>2, SetPayloadErrorMoves, MovesTwice DEF Timely
<1>2. CASE ~WriteTimerFails(c)
  <2>1. Clocked(c, WriteTimerExpired(c))
    BY <1>2, StartWriteClocked, StopWriteClocked DEF WriteTimerExpired
  <2> QED
    BY <1>2, <2>1 DEF Clocked
<1> QED
  BY <1>1, <1>2

LEMMA WritesFor ==
  ASSUME NEW c \in CtxType, Timely(c), IsWrite(c), c.io.timeout
  PROVE  c.io.exp = <<"Write", 0>>
BY DEF Timely, TimelyAt, IsWrite

LEMMA ExpiredMoves ==
  ASSUME NEW c \in CtxType, IsWrite(c), c.io.timeout
  PROVE  /\ Moves(c, WriteTimerExpired(Noted(c)))
         /\ ~WriteTimerFails(c) => WriteTimerExpired(Noted(c)).inner.pay = c.inner.pay
         /\ Timely(c) => Timely(WriteTimerExpired(Noted(c)))
<1> DEFINE n == Noted(c)
<1>1. /\ Clocked(c, n) /\ n \in CtxType /\ n.inner = c.inner /\ Moves(c, n)
      /\ n.io = [c.io EXCEPT !.timeout = FALSE]
  BY NotedClocked DEF Clocked, Moves
<1>2. n.io.full = c.io.full /\ n.io.filter = c.io.filter /\ n.io.for = c.io.for /\ n.io.exp = c.io.exp
  BY <1>1, Parts DEF IoType
<1>3. WriteTimerFails(n) <=> WriteTimerFails(c)
  BY <1>2 DEF WriteTimerFails
<1>4. Timely(c) => Timely(n) /\ n.io.exp = <<"Write", 0>>
  BY <1>1, <1>2, WritesFor DEF Clocked
<1> HIDE DEF n
<1> QED
  BY <1>1, <1>3, <1>4, WriteTimerExpiredMoves, MovesTwice DEF n

LEMMA FlushTimedMoves ==
  ASSUME NEW c \in CtxType
  PROVE  /\ Moves(c, FlushTimed(c))
         /\ FlushResult(c) # "failed" => FlushTimed(c).inner.pay = c.inner.pay
         /\ Timely(c) => Timely(FlushTimed(c))
<1> DEFINE s == StartWrite(c)
           w == Registered(s)
           f == [c EXCEPT !.io.full = FALSE]
<1>1. CASE Gone(c)
  <2>1. Clocked(c, StopWrite(c))
    BY StopWriteClocked
  <2> QED
    BY <1>1, <2>1 DEF FlushTimed, FlushResult, Clocked
<1>2. CASE ~Gone(c) /\ (~c.io.full \/ c.io.drained)
  <2>1. Clocked(c, f) /\ f \in CtxType
    BY DrainedClocked DEF Clocked, Moves
  <2>2. FlushTimed(c) = StopWrite(f)
    BY <1>2 DEF FlushTimed
  <2> HIDE DEF f
  <2>3. Clocked(c, StopWrite(f))
    BY <2>1, StopWriteClocked, ClockedTwice
  <2> QED
    BY <2>2, <2>3 DEF Clocked
<1>3. CASE ~Gone(c) /\ ~(~c.io.full \/ c.io.drained)
  <2>1. Clocked(c, s) /\ s \in CtxType
    BY StartWriteClocked DEF Clocked, Moves
  <2>2. FlushTimed(c) = IF IsWrite(w) /\ w.io.timeout THEN WriteTimerExpired(Noted(w)) ELSE w
    BY <1>3 DEF FlushTimed, Noted
  <2>3. FlushResult(c) = IF IsWrite(s) /\ s.io.timeout /\ ~s.io.filter THEN "failed" ELSE "pending"
    BY <1>3 DEF FlushResult
  <2> HIDE DEF s
  <2>4. /\ Clocked(s, w) /\ w \in CtxType /\ w.tm = s.tm /\ w.io.timeout = s.io.timeout
        /\ w.io.filter = s.io.filter
    <3>1. Clocked(s, w) /\ w.tm = s.tm /\ w.io = [s.io EXCEPT !.waker = TRUE] /\ s.io \in IoType
      BY <2>1, RegisteredClocked, Parts
    <3>2. w.io.timeout = s.io.timeout /\ w.io.filter = s.io.filter
      BY <3>1 DEF IoType
    <3> QED
      BY <3>1, <3>2 DEF Clocked, Moves
  <2> HIDE DEF w
  <2>5. Clocked(c, w)
    BY <2>1, <2>4, ClockedTwice
  <2>6. CASE IsWrite(w) /\ w.io.timeout
    <3>1. FlushResult(c) # "failed" => ~WriteTimerFails(w)
      BY <2>3, <2>4, <2>6 DEF WriteTimerFails, IsWrite
    <3>2. Moves(c, FlushTimed(c)) /\ (Timely(c) => Timely(FlushTimed(c)))
      BY <2>2, <2>4, <2>5, <2>6, ExpiredMoves, MovesTwice DEF Clocked
    <3>3. ~WriteTimerFails(w) => FlushTimed(c).inner.pay = c.inner.pay
      BY <2>2, <2>4, <2>5, <2>6, ExpiredMoves DEF Clocked
    <3> QED
      BY <3>1, <3>2, <3>3
  <2>7. CASE ~(IsWrite(w) /\ w.io.timeout)
    BY <2>2, <2>5, <2>7 DEF Clocked
  <2> QED
    BY <2>6, <2>7
<1> QED
  BY <1>1, <1>2, <1>3

\* The expiry that is handled is that of the timer in use.
Due(c) == c.tm.act \in {"Headers", "Payload"} => c.io.exp = <<c.tm.act, c.log.reqs>>

LEMMA HandleTimeoutMoves ==
  ASSUME NEW c \in CtxType, NEW enough \in BOOLEAN
  PROVE  /\ Moves(c, HandleTimeout(c, enough))
         /\ ~TimesOut(c, enough) => HandleTimeout(c, enough).inner.pay = c.inner.pay
         /\ Timely(c) /\ Due(c) => Timely(HandleTimeout(c, enough))
<1> DEFINE n == Extend(c, enough)
           l == Late(n, Purpose(n))
<1>1. CASE c.tm.act \notin {"Headers", "Payload"}
  BY <1>1, ClockedSame DEF HandleTimeout, Clocked
<1>2. CASE c.tm.act \in {"Headers", "Payload"}
  <2>1. Clocked(c, n) /\ n \in CtxType /\ n.tm.act = c.tm.act /\ n.io.exp = c.io.exp
    BY <1>2, ExtendClocked DEF Clocked, Moves
  <2>2. ~TimesOut(c, enough) => HandleTimeout(c, enough) = n
    BY <1>2 DEF HandleTimeout
  <2>3. TimesOut(c, enough) => HandleTimeout(c, enough) \in {l, SetPayloadError(l)}
    BY <1>2 DEF HandleTimeout
  <2> HIDE DEF n
  <2>4. Due(c) => n.io.exp = Purpose(n)
    BY <1>2, <2>1 DEF Due, Clocked, Moves, Purpose, IsWrite
  <2>5. Moves(n, l) /\ l \in CtxType /\ (Timely(n) /\ Due(c) => Timely(l))
    BY <2>1, <2>4, LateMoves DEF Moves
  <2> HIDE DEF l
  <2>6. Moves(c, l) /\ (Timely(c) /\ Due(c) => Timely(l))
    BY <2>1, <2>5, MovesTwice DEF Clocked
  <2>7. Moves(c, SetPayloadError(l)) /\ (Timely(c) /\ Due(c) => Timely(SetPayloadError(l)))
    BY <2>5, <2>6, SetPayloadErrorMoves, MovesTwice DEF Timely
  <2> QED
    BY <2>1, <2>2, <2>3, <2>6, <2>7 DEF Clocked
<1> QED
  BY <1>1, <1>2

LEMMA StartPayloadTimerClocked ==
  ASSUME NEW c \in CtxType PROVE Clocked(c, StartPayloadTimer(c))
BY StartPayloadClocked, ClockedSame DEF StartPayloadTimer

-----------------------------------------------------------------------------
(* Disconnects *)

Asked == {"request", "expect", "upgrade"}
Msgs == {"gone", "proto", "error", "keepalive", "service"}
Ended(c) == c.st \in {"stop", "done"}
Sent(c) == IF c.inner.disc = "sent" THEN 1 ELSE 0
Whole(c) == c.rx.end = "eof" => c.rx.whole

\* d tells the control service of the end of the connection, or stops because
\* that has been done.
Ends(c, d, msg) ==
  /\ d \in CtxType /\ d.sc = c.sc /\ d.tm.act \in {c.tm.act, "Stopped"}
  /\ d.io.phase = c.io.phase /\ d.io.in = c.io.in
  /\ d.inner.disc = "sent" /\ d.inner.pend = c.inner.pend /\ d.inner.started = c.inner.started
  /\ d.inner.keep = c.inner.keep /\ d.inner.pay = c.inner.pay /\ d.rx = c.rx
  /\ d.log.reqs = c.log.reqs /\ d.log.resp = c.log.resp /\ d.log.open = c.log.open
  /\ d.log.mixed = c.log.mixed /\ d.log.misread = c.log.misread
  /\ (Timely(c) => Timely(d))
  /\ \/ /\ c.inner.disc = "sent" /\ d.st = "stop" /\ d.log.told = c.log.told
     \/ /\ c.inner.disc # "sent" /\ d.st = "control" /\ d.fut.what = msg
        /\ d.fut.res \in {"pending", "ack"}

\* A change of the state, and of what it waits for.
At(c, s) == [c EXCEPT !.st = s]
Calling(c, s, f) == [c EXCEPT !.st = s, !.fut = f]
States == {"read", "control", "publish", "payload", "send", "stop", "done"}

LEMMA CallingFields ==
  ASSUME NEW c \in CtxType, NEW f \in FutType, NEW s \in States
  PROVE  /\ Calling(c, s, f) \in CtxType /\ Calling(c, s, f).st = s /\ Calling(c, s, f).fut = f
         /\ Calling(c, s, f).sc = c.sc /\ Calling(c, s, f).tm = c.tm /\ Calling(c, s, f).io = c.io
         /\ Calling(c, s, f).inner = c.inner /\ Calling(c, s, f).rx = c.rx
         /\ Calling(c, s, f).log = c.log
BY DEF CtxType, Calling, States

LEMMA AtFields ==
  ASSUME NEW c \in CtxType, NEW s \in States
  PROVE  /\ At(c, s) \in CtxType /\ At(c, s).st = s /\ At(c, s).fut = c.fut
         /\ At(c, s).sc = c.sc /\ At(c, s).tm = c.tm /\ At(c, s).io = c.io
         /\ At(c, s).inner = c.inner /\ At(c, s).rx = c.rx /\ At(c, s).log = c.log
BY DEF CtxType, At, States

LEMMA CallType ==
  ASSUME NEW msg \in Msgs \cup Asked \cup {"publish", "body"}, NEW r \in {"pending", "ack"}
  PROVE  /\ Call(msg) \in FutType /\ Call(msg).what = msg /\ Call(msg).res = "pending"
         /\ [Call(msg) EXCEPT !.res = r] \in FutType
         /\ [Call(msg) EXCEPT !.res = r].what = msg /\ [Call(msg) EXCEPT !.res = r].res = r
BY DEF Call, FutType, Msgs, Asked

LEMMA ControlFields ==
  ASSUME NEW c \in CtxType, NEW msg \in Msgs \cup Asked
  PROVE  LET d == Control(c, msg)
         IN /\ d \in CtxType /\ d.st = "control" /\ d.fut.what = msg
            /\ d.fut.res \in {"pending", "ack"} /\ d.sc = c.sc /\ d.tm = c.tm /\ d.io = c.io
            /\ d.inner = c.inner /\ d.rx = c.rx /\ d.log = c.log
<1> DEFINE r == IF c.sc.control THEN "pending" ELSE "ack"
           f == [Call(msg) EXCEPT !.res = r]
<1>1. r \in {"pending", "ack"}
  OBVIOUS
<1>2. Control(c, msg) = Calling(c, "control", f)
  BY DEF Control, Calling
<1> HIDE DEF r
<1>3. f \in FutType /\ f.what = msg /\ f.res \in {"pending", "ack"}
  BY <1>1, CallType
<1> HIDE DEF f
<1>4. "control" \in States
  BY DEF States
<1> QED
  BY <1>2, <1>3, <1>4, CallingFields

LEMMA StopFields ==
  ASSUME NEW c \in CtxType
  PROVE  LET d == Stop(c)
         IN /\ d \in CtxType /\ d.st = "stop" /\ d.sc = c.sc /\ d.fut = c.fut
            /\ d.io.phase = c.io.phase /\ d.io.in = c.io.in
            /\ d.inner = c.inner /\ d.rx.end = c.rx.end /\ d.rx = c.rx /\ d.log = c.log
            /\ d.tm.act = "Stopped" /\ (~c.log.stale => Timely(d))
<1> DEFINE n == StopTimers(c)
<1>1. Clocked(c, n) /\ n.tm.act = "Stopped" /\ n \in CtxType /\ (~c.log.stale => Timely(n))
  BY StopTimersClocked DEF Clocked, Moves
<1>2. n.rx = c.rx
  BY DEF CtxType, StopTimers, IoStopTimer
<1>3. Stop(c) = At(n, "stop")
  BY DEF Stop, At
<1> HIDE DEF n
<1> QED
  BY <1>1, <1>2, <1>3, AtFields DEF Clocked, Moves, Timely, States

\* The control service is told of the end.
LEMMA TellFields ==
  ASSUME NEW c \in CtxType
  PROVE  LET d == [c EXCEPT !.inner.disc = "sent", !.log.told = @ + 1]
         IN /\ d \in CtxType /\ d.inner.disc = "sent" /\ d.inner.pend = c.inner.pend
            /\ d.inner.started = c.inner.started /\ d.inner.keep = c.inner.keep
            /\ d.inner.pay = c.inner.pay /\ d.sc = c.sc /\ d.tm = c.tm /\ d.io = c.io
            /\ d.rx = c.rx /\ d.log.reqs = c.log.reqs /\ d.log.resp = c.log.resp
            /\ d.log.open = c.log.open /\ d.log.mixed = c.log.mixed
            /\ d.log.misread = c.log.misread /\ d.log.stale = c.log.stale
<1> DEFINE n == [c.inner EXCEPT !.disc = "sent"]
           l == [c.log EXCEPT !.told = @ + 1]
           d == [c EXCEPT !.inner = n, !.log = l]
<1>1. c.inner \in InnerType /\ c.log \in LogType
  BY Parts
<1>2. n \in InnerType /\ n.disc = "sent" /\ n.pend = c.inner.pend /\ n.started = c.inner.started
      /\ n.keep = c.inner.keep /\ n.pay = c.inner.pay
  BY <1>1 DEF InnerType
<1>3. l \in LogType /\ l.reqs = c.log.reqs /\ l.resp = c.log.resp /\ l.open = c.log.open
      /\ l.mixed = c.log.mixed /\ l.misread = c.log.misread /\ l.stale = c.log.stale
  BY <1>1 DEF LogType
<1>4. [c EXCEPT !.inner.disc = "sent", !.log.told = @ + 1] = d
  BY DEF CtxType
<1> HIDE DEF n, l
<1>5. d \in CtxType /\ d.inner = n /\ d.log = l /\ d.sc = c.sc /\ d.tm = c.tm /\ d.io = c.io
      /\ d.rx = c.rx
  BY <1>2, <1>3 DEF CtxType
<1> HIDE DEF d
<1> QED
  BY <1>2, <1>3, <1>4, <1>5

LEMMA CtlDisconnectEnds ==
  ASSUME NEW c \in CtxType, NEW msg \in Msgs
  PROVE  Ends(c, CtlDisconnect(c, msg), msg)
<1> DEFINE t == [c EXCEPT !.inner.disc = "sent", !.log.told = @ + 1]
<1>1. CASE c.inner.disc = "sent"
  <2>1. CtlDisconnect(c, msg) = Stop(c)
    BY <1>1 DEF CtlDisconnect
  <2>2. Timely(c) => ~c.log.stale
    BY DEF Timely, TimelyAt
  <2> QED
    BY <1>1, <2>1, <2>2, StopFields DEF Ends
<1>2. CASE c.inner.disc # "sent"
  <2>1. CtlDisconnect(c, msg) = Control(t, msg)
    BY <1>2 DEF CtlDisconnect
  <2>2. /\ t \in CtxType /\ t.inner.disc = "sent" /\ t.inner.pend = c.inner.pend
        /\ t.inner.started = c.inner.started /\ t.inner.keep = c.inner.keep
        /\ t.inner.pay = c.inner.pay /\ t.sc = c.sc /\ t.tm = c.tm /\ t.io = c.io
        /\ t.rx = c.rx /\ t.log.reqs = c.log.reqs /\ t.log.resp = c.log.resp
        /\ t.log.open = c.log.open /\ t.log.mixed = c.log.mixed
        /\ t.log.misread = c.log.misread /\ t.log.stale = c.log.stale
    BY TellFields
  <2> HIDE DEF t
  <2>3. Timely(c) => Timely(Control(t, msg))
    BY <2>2, ControlFields DEF Timely, TimelyAt
  <2> QED
    BY <1>2, <2>1, <2>2, <2>3, ControlFields DEF Ends
<1> QED
  BY <1>1, <1>2

LEMMA CheckDisconnectEnds ==
  ASSUME NEW c \in CtxType PROVE Ends(c, CheckDisconnect(c), "service")
<1>1. CheckDisconnect(c) = CtlDisconnect(c, "service")
  BY DEF CheckDisconnect, CtlDisconnect
<1> QED
  BY <1>1, CtlDisconnectEnds DEF Msgs

LEMMA CtlEnds ==
  ASSUME NEW c \in CtxType
  PROVE  /\ Ends(c, CtlPeerGone(c), "gone") /\ Ends(c, CtlProtoErr(c), "proto")
         /\ Ends(c, CtlError(c), "error") /\ Ends(c, CtlKeepAlive(c), "keepalive")
         /\ Ends(c, CtlSvcDisconnect(c), "service")
BY CtlDisconnectEnds
   DEF Msgs, CtlPeerGone, CtlProtoErr, CtlError, CtlKeepAlive, CtlSvcDisconnect

LEMMA CtlPayloadErrEnds ==
  ASSUME NEW c \in CtxType, NEW failure
  PROVE  \E msg \in {"gone", "proto"} : Ends(c, CtlPayloadErr(c, failure), msg)
BY CtlEnds DEF CtlPayloadErr

-----------------------------------------------------------------------------
(* Responses and their requests *)

\* What holds of a context from which the connection may be ended.
Loose(c) ==
  /\ ~c.log.mixed /\ c.log.resp <= c.log.reqs + Sent(c)
  /\ (c.inner.started <=> c.log.open) /\ Whole(c) /\ Headless(c)

\* A response is owed where the dispatcher asks for one, and none is open where
\* another one may be written.
Framed(c) ==
  /\ ~c.log.mixed /\ c.log.resp <= c.log.reqs + Sent(c)
  /\ ~Ended(c) => (c.inner.started <=> c.log.open)
  /\ Whole(c) /\ Headless(c)
  /\ c.st \in {"read", "payload"} => c.log.resp <= c.log.reqs /\ ~c.log.open
  /\ c.st = "read" => c.inner.disc # "none" \/ ~c.inner.pay
  /\ c.st = "publish" => c.log.resp < c.log.reqs /\ ~c.log.open
  /\ c.st = "control" /\ c.fut.what \in Asked => c.log.resp < c.log.reqs /\ ~c.log.open
  /\ c.st = "control" /\ c.fut.what \notin Asked => c.inner.disc = "sent"
  /\ c.st = "control" /\ c.fut.what \in {"proto", "error"} => c.log.resp <= c.log.reqs
  /\ c.st = "control" /\ c.fut.what = "error" => ~c.log.open
  /\ c.st = "control" /\ c.fut.res = "fail" => c.fut.what \in Asked

LEMMA Counts ==
  ASSUME NEW c \in CtxType
  PROVE  c.log.reqs \in Nat /\ c.log.resp \in Nat /\ Sent(c) \in {0, 1}
BY Parts DEF LogType, Sent

LEMMA FramedIsLoose ==
  ASSUME NEW c \in CtxType, Framed(c), ~Ended(c) PROVE Loose(c)
BY DEF Framed, Loose

LEMMA EndsFramed ==
  ASSUME NEW c \in CtxType, NEW d, NEW msg \in Msgs, Loose(c), Ends(c, d, msg),
         msg = "error" => ~c.log.open
  PROVE  Framed(d) /\ Loose(d)
<1>1. d \in CtxType
  BY DEF Ends
<1>2. /\ ~d.log.mixed /\ (d.inner.started <=> d.log.open) /\ Whole(d) /\ Headless(d)
      /\ d.inner.disc = "sent"
  BY DEF Ends, Loose, Whole, Headless
<1>3. d.log.resp <= d.log.reqs + 1 /\ (d.st = "control" => d.log.resp <= d.log.reqs)
  BY Counts DEF Ends, Loose, Sent
<1>4. d.st \in {"stop", "control"} /\ (d.st = "control" => d.fut.what = msg /\ d.fut.res # "fail")
  BY DEF Ends
<1>5. msg \notin Asked
  BY DEF Msgs, Asked
<1> QED
  BY <1>2, <1>3, <1>4, <1>5 DEF Framed, Loose, Sent, Ends

LEMMA MovesLoose ==
  ASSUME NEW c \in CtxType, NEW d, Moves(c, d), Loose(c) PROVE Loose(d)
BY DEF Moves, Loose, Whole, Sent

LEMMA MovesFramed ==
  ASSUME NEW c \in CtxType, NEW d, Moves(c, d), Framed(c) PROVE Framed(d)
BY DEF Moves, Framed, Whole, Sent, Ended

LEMMA CloseFields ==
  ASSUME NEW c \in CtxType
  PROVE  LET d == Close(c)
         IN /\ d \in CtxType /\ d.st = c.st /\ d.fut = c.fut /\ d.sc = c.sc /\ d.tm = c.tm
            /\ d.inner = c.inner /\ d.rx = c.rx /\ d.log = c.log
            /\ d.io.in = c.io.in /\ (d.io.phase = "gone" <=> c.io.phase = "gone")
            /\ (Timely(c) => Timely(d))
<1> DEFINE i == [c.io EXCEPT !.phase = "closing"]
           d == With(c, c.tm, i, c.woken)
<1>1. c.io \in IoType /\ c.tm \in TmType /\ c.woken \in BOOLEAN
  BY Parts
<1>2. /\ i \in IoType /\ i.phase = "closing" /\ i.in = c.io.in /\ i.timer = c.io.timer
      /\ i.for = c.io.for /\ i.exp = c.io.exp /\ i.timeout = c.io.timeout
  BY <1>1 DEF IoType
<1>3. Active(c) => Close(c) = d
  BY DEF CtxType, Close, With
<1>4. ~Active(c) => Close(c) = c
  BY DEF Close
<1> HIDE DEF i
<1>5. /\ d \in CtxType /\ d.st = c.st /\ d.fut = c.fut /\ d.sc = c.sc /\ d.tm = c.tm
      /\ d.inner = c.inner /\ d.rx = c.rx /\ d.log = c.log /\ d.io = i
  BY <1>1, <1>2, WithFields
<1> HIDE DEF d
<1>6. Timely(c) => Timely(d)
  BY <1>2, <1>5 DEF Timely, TimelyAt
<1> QED
  BY <1>2, <1>3, <1>4, <1>5, <1>6 DEF Active

\* The end of a response: what it changes in the codec and in the history.
Answered(c) == [c EXCEPT !.inner.started = FALSE, !.log.open = FALSE]

LEMMA AnsweredFields ==
  ASSUME NEW c \in CtxType
  PROVE  LET d == Answered(c)
         IN /\ d \in CtxType /\ d.st = c.st /\ d.fut = c.fut /\ d.sc = c.sc /\ d.tm = c.tm
            /\ d.io = c.io /\ d.rx = c.rx /\ ~d.inner.started /\ d.inner.disc = c.inner.disc
            /\ d.inner.pend = c.inner.pend /\ d.inner.pay = c.inner.pay /\ d.inner.keep = c.inner.keep
            /\ ~d.log.open /\ d.log.reqs = c.log.reqs /\ d.log.resp = c.log.resp
            /\ d.log.mixed = c.log.mixed /\ d.log.told = c.log.told /\ d.log.misread = c.log.misread
            /\ d.log.stale = c.log.stale
<1> DEFINE n == [c.inner EXCEPT !.started = FALSE]
           l == [c.log EXCEPT !.open = FALSE]
           d == [c EXCEPT !.inner = n, !.log = l]
<1>1. c.inner \in InnerType /\ c.log \in LogType
  BY Parts
<1>2. n \in InnerType /\ n.disc = c.inner.disc /\ n.pend = c.inner.pend /\ ~n.started
      /\ n.keep = c.inner.keep /\ n.pay = c.inner.pay
  BY <1>1 DEF InnerType
<1>3. l \in LogType /\ l.reqs = c.log.reqs /\ l.resp = c.log.resp /\ ~l.open
      /\ l.mixed = c.log.mixed /\ l.told = c.log.told /\ l.misread = c.log.misread
      /\ l.stale = c.log.stale
  BY <1>1 DEF LogType
<1>4. Answered(c) = d
  BY DEF CtxType, Answered
<1> HIDE DEF n, l
<1>5. d \in CtxType /\ d.inner = n /\ d.log = l /\ d.sc = c.sc /\ d.tm = c.tm /\ d.io = c.io
      /\ d.rx = c.rx /\ d.st = c.st /\ d.fut = c.fut
  BY <1>2, <1>3 DEF CtxType
<1> HIDE DEF d
<1> QED
  BY <1>2, <1>3, <1>4, <1>5

-----------------------------------------------------------------------------
(* Payloads and the input *)

\* The head of a payload has been read: its tokens may come first.
InBody(s) ==
  \A i \in 1..Len(s) :
    s[i] \in {"data", "end"} => Carried(s, i) \/ \A k \in 1..(i - 1) : s[k] = "data"

\* What is still to be read.
Rem(c, left) == IF Gone(c) THEN c.io.in ELSE c.io.in \o left

\* The timer and the input, while a payload is read.
Base(c, left) ==
  /\ Timely(c) /\ ~c.log.misread /\ (c.inner.pay => InBody(Rem(c, left)))
  /\ c.inner.pend # "none" => ~c.inner.pay

\* The next head may be read, the payload of the last one has not failed.
Free(c) == ~c.inner.pay /\ c.inner.pend = "none" /\ c.inner.disc = "none"
Clean(c, left) == AtHead(Rem(c, left)) /\ c.tm.act # "Payload"
Fit(c, left) == Base(c, left) /\ (Free(c) => Clean(c, left))

\* A failure that is pending is reported before the next request is read.
Reports(c) == c.inner.pend # "none" => c.inner.disc # "none"

\* What holds between two turns, failed payloads included.
Kept(c, left) ==
  /\ Base(c, left)
  /\ ~Ended(c) /\ Free(c) => Clean(c, left)
  /\ c.inner.pend # "none" => c.st = "control" \/ c.inner.disc # "none" \/ Ended(c)
  /\ c.st = "control" /\ c.fut.res = "fail" => c.fut.what # "request"

LEMMA EndsKept ==
  ASSUME NEW c \in CtxType, NEW d, NEW msg, NEW left, Base(c, left), Ends(c, d, msg)
  PROVE  Kept(d, left)
BY DEF Ends, Base, Kept, Free, Rem, Gone

\* A persistent connection is not ended as an idle one.
Spares(c, d) == d.inner.keep /\ d.log.told # c.log.told => d.fut.what # "keepalive"

LEMMA EndsGood ==
  ASSUME NEW c \in CtxType, NEW d, NEW msg \in Msgs, Loose(c), Ends(c, d, msg),
         msg = "error" => ~c.log.open, NEW left
  PROVE  /\ d \in CtxType /\ d.sc = c.sc /\ Framed(d) /\ Loose(d) /\ (Base(c, left) => Kept(d, left))
         /\ msg # "keepalive" \/ ~c.inner.keep => Spares(c, d)
<1>1. d \in CtxType /\ d.sc = c.sc /\ (msg # "keepalive" \/ ~c.inner.keep => Spares(c, d))
  BY DEF Ends, Spares
<1> QED
  BY <1>1, EndsFramed, EndsKept

LEMMA MovesBase ==
  ASSUME NEW c \in CtxType, NEW d, NEW left, Moves(c, d), Timely(c) => Timely(d), Base(c, left)
  PROVE  Base(d, left)
BY DEF Moves, Base, Rem, Gone

LEMMA MovesFit ==
  ASSUME NEW c \in CtxType, NEW d, NEW left, Moves(c, d), Timely(c) => Timely(d), Fit(c, left),
         d.inner.pay = c.inner.pay
  PROVE  Fit(d, left)
BY MovesBase DEF Moves, Fit, Free, Clean, Rem, Gone

LEMMA MovesKept ==
  ASSUME NEW c \in CtxType, NEW d, NEW left, Moves(c, d), Timely(c) => Timely(d), Kept(c, left),
         d.inner.pay = c.inner.pay
  PROVE  Kept(d, left)
BY MovesBase DEF Moves, Kept, Free, Clean, Rem, Gone, Ended

LEMMA NextRequestGood ==
  ASSUME NEW c \in CtxType, Loose(c), ~c.log.open, c.log.resp <= c.log.reqs, ~c.inner.pay, NEW left
  PROVE  /\ NextRequest(c) \in CtxType /\ NextRequest(c).sc = c.sc /\ Framed(NextRequest(c))
         /\ Fit(c, left) /\ Reports(c) => Kept(NextRequest(c), left)
         /\ Spares(c, NextRequest(c))
<1>1. CASE c.inner.keep
  <2> DEFINE d == At(c, "read")
  <2>1. NextRequest(c) = d /\ "read" \in States
    BY <1>1 DEF NextRequest, At, States
  <2>2. /\ d \in CtxType /\ d.st = "read" /\ d.fut = c.fut /\ d.sc = c.sc /\ d.tm = c.tm /\ d.io = c.io
        /\ d.inner = c.inner /\ d.rx = c.rx /\ d.log = c.log
    BY <2>1, AtFields
  <2> HIDE DEF d
  <2>3. Framed(d)
    BY <2>2 DEF Framed, Loose, Sent, Whole, Headless, Ended
  <2>4. Fit(c, left) /\ Reports(c) => Kept(d, left)
    BY <2>2 DEF Fit, Reports, Kept, Base, Free, Clean, Rem, Gone, Timely, Ended
  <2> QED
    BY <2>1, <2>2, <2>3, <2>4 DEF Spares
<1>2. CASE ~c.inner.keep
  <2> DEFINE d == Close(c)
  <2>1. d \in CtxType /\ d.sc = c.sc /\ Loose(d) /\ ~d.inner.keep /\ d.log.told = c.log.told
    BY <1>2, CloseFields DEF Loose, Sent, Whole, Headless
  <2>2. Base(c, left) => Base(d, left)
    BY CloseFields DEF Base, Rem, Gone
  <2>3. NextRequest(c) = CtlKeepAlive(d)
    BY <1>2 DEF NextRequest
  <2> HIDE DEF d
  <2>4. Ends(d, CtlKeepAlive(d), "keepalive")
    BY <2>1, CtlEnds
  <2> QED
    BY <2>1, <2>2, <2>3, <2>4, EndsGood DEF Msgs, Fit, Spares
<1> QED
  BY <1>1, <1>2

LEMMA ResponseDoneGood ==
  ASSUME NEW c \in CtxType, ~c.log.mixed, c.log.resp <= c.log.reqs + Sent(c), Whole(c), Headless(c),
         NEW left
  PROVE  /\ ResponseDone(c) \in CtxType /\ ResponseDone(c).sc = c.sc /\ Framed(ResponseDone(c))
         /\ Fit(c, left) /\ Reports(c) => Kept(ResponseDone(c), left)
         /\ Spares(c, ResponseDone(c))
<1> DEFINE n == Answered(c)
<1>1. n \in CtxType /\ n.sc = c.sc /\ Loose(n) /\ ~n.log.open /\ n.inner.disc = c.inner.disc
      /\ n.log.told = c.log.told
      /\ n.inner.pay = c.inner.pay /\ n.log.resp = c.log.resp /\ n.log.reqs = c.log.reqs
  BY AnsweredFields DEF Loose, Sent, Whole, Headless
<1>2. (Fit(c, left) => Fit(n, left)) /\ (Reports(c) => Reports(n))
  BY AnsweredFields DEF Fit, Base, Free, Clean, Rem, Gone, Timely, TimelyAt, Reports
<1>3. ResponseDone(c) = IF c.inner.disc # "none" THEN CheckDisconnect(n)
                        ELSE IF c.inner.pay THEN At(StartPayloadTimer(n), "payload")
                        ELSE NextRequest(n)
  BY DEF ResponseDone, Answered, At
<1> HIDE DEF n
<1>4. CASE c.inner.disc # "none"
  <2>1. Ends(n, CheckDisconnect(n), "service") /\ "service" \in Msgs
    BY <1>1, CheckDisconnectEnds DEF Msgs
  <2>2. Fit(n, left) => Base(n, left)
    BY DEF Fit
  <2> QED
    BY <1>1, <1>2, <1>3, <1>4, <2>1, <2>2, EndsGood DEF Spares
<1>5. CASE c.inner.disc = "none" /\ c.inner.pay
  <2> DEFINE d == StartPayloadTimer(n)
             e == At(d, "payload")
  <2>1. Moves(n, d) /\ d \in CtxType /\ d.sc = c.sc /\ d.inner = n.inner /\ (Timely(n) => Timely(d))
    BY <1>1, StartPayloadTimerClocked DEF Clocked, Moves
  <2>2. Loose(d) /\ (Fit(n, left) => Fit(d, left))
    BY <1>1, <2>1, MovesLoose, MovesFit
  <2> HIDE DEF d
  <2>3. ~d.log.open /\ d.log.resp <= d.log.reqs
    BY <1>1, <1>5, <2>1, Counts DEF Moves, Sent
  <2>4. "payload" \in States
    BY DEF States
  <2>5. /\ e \in CtxType /\ e.st = "payload" /\ e.fut = d.fut /\ e.sc = d.sc /\ e.tm = d.tm
        /\ e.io = d.io /\ e.inner = d.inner /\ e.rx = d.rx /\ e.log = d.log
    BY <2>1, <2>4, AtFields
  <2> HIDE DEF e
  <2>6. Framed(e)
    BY <2>2, <2>3, <2>5 DEF Framed, Loose, Sent, Whole, Headless, Ended
  <2>7. Fit(d, left) /\ Reports(d) => Kept(e, left)
    BY <2>5 DEF Fit, Reports, Kept, Base, Free, Clean, Rem, Gone, Timely, Ended
  <2>8. Reports(n) => Reports(d)
    BY <2>1 DEF Reports
  <2> QED
    BY <1>1, <1>2, <1>3, <1>5, <2>1, <2>2, <2>5, <2>6, <2>7, <2>8 DEF d, e, Spares, Moves
<1>6. CASE c.inner.disc = "none" /\ ~c.inner.pay
  <2>1. n.log.resp <= n.log.reqs
    BY <1>1, <1>6, Counts DEF Sent
  <2> QED
    BY <1>1, <1>2, <1>3, <1>6, <2>1, NextRequestGood DEF Spares
<1> QED
  BY <1>4, <1>5, <1>6

\* The head of a response.
Headed(c, k, done) ==
  [c EXCEPT !.inner.keep = k, !.log.resp = @ + 1, !.log.mixed = @ \/ c.log.open, !.inner.complete = done]

LEMMA HeadedFields ==
  ASSUME NEW c \in CtxType, NEW k \in BOOLEAN, NEW done \in BOOLEAN
  PROVE  LET d == Headed(c, k, done)
         IN /\ d \in CtxType /\ d.st = c.st /\ d.fut = c.fut /\ d.sc = c.sc /\ d.tm = c.tm
            /\ d.io = c.io /\ d.rx = c.rx /\ d.inner.started = c.inner.started
            /\ d.inner.disc = c.inner.disc /\ d.inner.pend = c.inner.pend
            /\ d.inner.pay = c.inner.pay
            /\ d.log.open = c.log.open /\ d.log.reqs = c.log.reqs
            /\ d.log.resp = c.log.resp + 1 /\ (d.log.mixed <=> c.log.mixed \/ c.log.open)
            /\ d.log.told = c.log.told /\ d.log.misread = c.log.misread
            /\ d.log.stale = c.log.stale
<1> DEFINE x == c.log.mixed \/ c.log.open
           n == [c.inner EXCEPT !.keep = k, !.complete = done]
           r == c.log.resp + 1
           l == [c.log EXCEPT !.resp = r, !.mixed = x]
           d == [c EXCEPT !.inner = n, !.log = l]
<1>1. c.inner \in InnerType /\ c.log \in LogType
  BY Parts
<1>2. n \in InnerType /\ n.disc = c.inner.disc /\ n.pend = c.inner.pend
      /\ n.started = c.inner.started /\ n.pay = c.inner.pay
  BY <1>1 DEF InnerType
<1>3. x \in BOOLEAN /\ r \in Nat
  BY <1>1 DEF LogType
<1>4. Headed(c, k, done) = d
  BY DEF CtxType, LogType, Headed
<1> HIDE DEF x, r
<1>5. l \in LogType /\ l.reqs = c.log.reqs /\ l.resp = r /\ l.open = c.log.open
      /\ l.mixed = x /\ l.told = c.log.told /\ l.misread = c.log.misread
      /\ l.stale = c.log.stale
  BY <1>1, <1>3 DEF LogType
<1> HIDE DEF n, l
<1>6. d \in CtxType /\ d.inner = n /\ d.log = l /\ d.sc = c.sc /\ d.tm = c.tm /\ d.io = c.io
      /\ d.rx = c.rx /\ d.st = c.st /\ d.fut = c.fut
  BY <1>2, <1>5 DEF CtxType
<1> HIDE DEF d
<1> QED
  BY <1>2, <1>4, <1>5, <1>6 DEF x, r

\* The body of a response follows.
Opened(c) == [c EXCEPT !.inner.started = TRUE, !.log.open = TRUE, !.st = "send", !.fut = Call("body")]

LEMMA OpenedFields ==
  ASSUME NEW c \in CtxType
  PROVE  LET d == Opened(c)
         IN /\ d \in CtxType /\ d.st = "send" /\ d.sc = c.sc /\ d.tm = c.tm
            /\ d.io = c.io /\ d.rx = c.rx /\ d.inner.started
            /\ d.inner.disc = c.inner.disc /\ d.inner.pend = c.inner.pend
            /\ d.inner.pay = c.inner.pay
            /\ d.log.open /\ d.log.reqs = c.log.reqs
            /\ d.log.resp = c.log.resp /\ d.log.mixed = c.log.mixed
            /\ d.log.told = c.log.told /\ d.log.misread = c.log.misread
            /\ d.log.stale = c.log.stale
<1> DEFINE n == [c.inner EXCEPT !.started = TRUE]
           l == [c.log EXCEPT !.open = TRUE]
           f == Call("body")
           d == [c EXCEPT !.inner = n, !.log = l, !.st = "send", !.fut = f]
<1>1. c.inner \in InnerType /\ c.log \in LogType
  BY Parts
<1>2. n \in InnerType /\ n.disc = c.inner.disc /\ n.pend = c.inner.pend
      /\ n.started /\ n.pay = c.inner.pay
  BY <1>1 DEF InnerType
<1>3. f \in FutType
  BY CallType
<1>4. Opened(c) = d
  BY DEF CtxType, Opened
<1>5. l \in LogType /\ l.reqs = c.log.reqs /\ l.resp = c.log.resp /\ l.open
      /\ l.mixed = c.log.mixed /\ l.told = c.log.told /\ l.misread = c.log.misread
      /\ l.stale = c.log.stale
  BY <1>1 DEF LogType
<1> HIDE DEF n, l, f
<1>6. d \in CtxType /\ d.inner = n /\ d.log = l /\ d.sc = c.sc /\ d.tm = c.tm /\ d.io = c.io
      /\ d.rx = c.rx /\ d.st = "send"
  BY <1>2, <1>3, <1>5 DEF CtxType
<1> HIDE DEF d
<1> QED
  BY <1>2, <1>4, <1>5, <1>6

LEMMA SendResponseGood ==
  ASSUME NEW c \in CtxType, NEW res, NEW fills \in BOOLEAN, NEW left,
         Loose(c), ~c.log.open, c.log.resp + 1 <= c.log.reqs + Sent(c)
  PROVE  LET d == SendResponse(c, res, fills)
         IN /\ d \in CtxType /\ d.sc = c.sc /\ Framed(d) /\ (Fit(c, left) /\ Reports(c) => Kept(d, left))
            /\ Spares(c, d)
<1> DEFINE close == c.inner.disc = "pending" \/ (c.inner.pay /\ ~c.rx.alive) \/ res = "last"
           k == c.inner.keep /\ ~close
           done == res # "body"
           h == Headed(c, k, done)
           head == Fill(h, fills)
           e == SetError(c)
<1>1. k \in BOOLEAN /\ done \in BOOLEAN
  BY Parts DEF InnerType
<1>2. /\ ~Active(c) => SendResponse(c, res, fills) = CtlPeerGone(c)
      /\ Active(c) /\ res = "broken" => SendResponse(c, res, fills) = CtlProtoErr(e)
      /\ Active(c) /\ res = "body" => SendResponse(c, res, fills) = Opened(head)
      /\ Active(c) /\ res \notin {"broken", "body"} => SendResponse(c, res, fills) = ResponseDone(head)
  BY DEF SendResponse, Headed, Opened
<1> HIDE DEF k, done
<1>3. /\ h \in CtxType /\ h.st = c.st /\ h.sc = c.sc /\ Loose(h) /\ h.inner.started = h.log.open
      /\ (Fit(c, left) => Fit(h, left)) /\ (Reports(c) => Reports(h)) /\ h.log.told = c.log.told
  <2>1. /\ h \in CtxType /\ h.st = c.st /\ h.fut = c.fut /\ h.sc = c.sc /\ h.tm = c.tm
        /\ h.io = c.io /\ h.rx = c.rx /\ h.inner.started = c.inner.started
        /\ h.inner.disc = c.inner.disc /\ h.inner.pend = c.inner.pend
        /\ h.inner.pay = c.inner.pay
        /\ h.log.open = c.log.open /\ h.log.reqs = c.log.reqs
        /\ h.log.resp = c.log.resp + 1 /\ (h.log.mixed <=> c.log.mixed \/ c.log.open)
        /\ h.log.misread = c.log.misread /\ h.log.stale = c.log.stale /\ h.log.told = c.log.told
    BY <1>1, HeadedFields
  <2> HIDE DEF h
  <2>2. Loose(h)
    BY <2>1 DEF Loose, Sent, Whole, Headless
  <2>3. (Fit(c, left) => Fit(h, left)) /\ (Reports(c) => Reports(h))
    BY <2>1 DEF Fit, Base, Free, Clean, Rem, Gone, Timely, TimelyAt, Reports
  <2>4. h.inner.started = h.log.open
    BY <2>1, Parts DEF Loose, InnerType, LogType
  <2> QED
    BY <2>1, <2>2, <2>3, <2>4
<1> HIDE DEF h
<1>4. /\ Moves(h, head) /\ head \in CtxType /\ head.sc = c.sc /\ head.inner = h.inner
      /\ head.log.told = c.log.told
      /\ (Timely(h) => Timely(head))
  BY <1>3, FillClocked DEF Clocked, Moves
<1> HIDE DEF head
<1>5. /\ Loose(head) /\ (Fit(c, left) => Fit(head, left)) /\ (Reports(c) => Reports(head))
  BY <1>3, <1>4, MovesLoose, MovesFit DEF Reports
<1>6. CASE ~Active(c)
  BY <1>2, <1>6, CtlEnds, EndsGood DEF Msgs, Fit
<1>7. CASE Active(c) /\ res = "broken"
  <2>1. /\ Moves(c, e) /\ e \in CtxType /\ e.sc = c.sc /\ (Timely(c) => Timely(e))
        /\ e.log.told = c.log.told
    BY SetErrorMoves DEF Moves, Timely
  <2> HIDE DEF e
  <2>2. Loose(e) /\ (Fit(c, left) => Base(e, left))
    BY <2>1, MovesLoose, MovesBase DEF Fit
  <2>3. Ends(e, CtlProtoErr(e), "proto") /\ "proto" \in Msgs
    BY <2>1, CtlEnds DEF Msgs
  <2> QED
    BY <1>2, <1>7, <2>1, <2>2, <2>3, EndsGood DEF Spares
<1>8. CASE Active(c) /\ res = "body"
  <2> DEFINE d == Opened(head)
  <2>1. /\ d \in CtxType /\ d.st = "send" /\ d.sc = head.sc /\ d.tm = head.tm
        /\ d.io = head.io /\ d.rx = head.rx /\ d.inner.started
        /\ d.inner.disc = head.inner.disc /\ d.inner.pend = head.inner.pend
        /\ d.inner.pay = head.inner.pay
        /\ d.log.open /\ d.log.reqs = head.log.reqs
        /\ d.log.resp = head.log.resp /\ d.log.mixed = head.log.mixed
        /\ d.log.misread = head.log.misread /\ d.log.stale = head.log.stale
        /\ d.log.told = head.log.told
    BY <1>4, OpenedFields
  <2> HIDE DEF d
  <2>2. Framed(d)
    BY <1>5, <2>1 DEF Framed, Loose, Sent, Whole, Headless, Ended
  <2>3. Fit(head, left) /\ Reports(head) => Kept(d, left)
    BY <2>1 DEF Fit, Reports, Kept, Base, Free, Clean, Rem, Gone, Timely, TimelyAt, Ended
  <2> QED
    BY <1>2, <1>4, <1>5, <1>8, <2>1, <2>2, <2>3 DEF d, Spares
<1>9. CASE Active(c) /\ res \notin {"broken", "body"}
  BY <1>2, <1>4, <1>5, <1>9, ResponseDoneGood DEF Loose, Spares
<1> QED
  BY <1>6, <1>7, <1>8, <1>9

-----------------------------------------------------------------------------
(* The control service's answers *)

\* A change of the dispatcher's own state.
Inner(c, n) == [c EXCEPT !.inner = n]

LEMMA InnerFields ==
  ASSUME NEW c \in CtxType, NEW n \in InnerType
  PROVE  /\ Inner(c, n) \in CtxType /\ Inner(c, n).inner = n /\ Inner(c, n).st = c.st
         /\ Inner(c, n).fut = c.fut /\ Inner(c, n).sc = c.sc /\ Inner(c, n).tm = c.tm
         /\ Inner(c, n).io = c.io /\ Inner(c, n).rx = c.rx /\ Inner(c, n).log = c.log
BY DEF CtxType, Inner

\* d is c with another disconnect, pending failure or persistence.
Retold(c, d) ==
  /\ d \in CtxType /\ d.st = c.st /\ d.fut = c.fut /\ d.sc = c.sc /\ d.tm = c.tm /\ d.io = c.io
  /\ d.rx = c.rx /\ d.log = c.log /\ d.inner.pay = c.inner.pay /\ d.inner.started = c.inner.started

LEMMA UnpendFields ==
  ASSUME NEW c \in CtxType
  PROVE  LET d == [c EXCEPT !.inner.pend = "none"]
         IN /\ Retold(c, d) /\ d.inner.pend = "none" /\ d.inner.disc = c.inner.disc
            /\ d.inner.keep = c.inner.keep
<1> DEFINE n == [c.inner EXCEPT !.pend = "none"]
<1>1. c.inner \in InnerType
  BY Parts
<1>2. /\ n \in InnerType /\ n.pend = "none" /\ n.disc = c.inner.disc /\ n.keep = c.inner.keep
      /\ n.pay = c.inner.pay /\ n.started = c.inner.started
  BY <1>1 DEF InnerType
<1>3. [c EXCEPT !.inner.pend = "none"] = Inner(c, n)
  BY DEF CtxType, Inner
<1> HIDE DEF n
<1>4. Retold(c, Inner(c, n)) /\ Inner(c, n).inner = n
  BY <1>2, InnerFields DEF Retold
<1> QED
  BY <1>2, <1>3, <1>4

LEMMA TransientFields ==
  ASSUME NEW c \in CtxType
  PROVE  LET d == [c EXCEPT !.inner.keep = FALSE]
         IN /\ Retold(c, d) /\ d.inner.pend = c.inner.pend /\ d.inner.disc = c.inner.disc
<1> DEFINE n == [c.inner EXCEPT !.keep = FALSE]
<1>1. c.inner \in InnerType
  BY Parts
<1>2. /\ n \in InnerType /\ n.pend = c.inner.pend /\ n.disc = c.inner.disc
      /\ n.pay = c.inner.pay /\ n.started = c.inner.started
  BY <1>1 DEF InnerType
<1>3. [c EXCEPT !.inner.keep = FALSE] = Inner(c, n)
  BY DEF CtxType, Inner
<1> HIDE DEF n
<1>4. Retold(c, Inner(c, n)) /\ Inner(c, n).inner = n
  BY <1>2, InnerFields DEF Retold
<1> QED
  BY <1>2, <1>3, <1>4

LEMMA SetDisconnectFields ==
  ASSUME NEW c \in CtxType
  PROVE  LET d == SetDisconnect(c)
         IN /\ Retold(c, d) /\ d.inner.pend = c.inner.pend /\ d.inner.keep = c.inner.keep
            /\ d.inner.disc # "none" /\ (d.inner.disc = "sent" <=> c.inner.disc = "sent")
<1> DEFINE n == [c.inner EXCEPT !.disc = "pending"]
<1>1. c.inner \in InnerType
  BY Parts
<1>2. /\ n \in InnerType /\ n.pend = c.inner.pend /\ n.disc = "pending" /\ n.keep = c.inner.keep
      /\ n.pay = c.inner.pay /\ n.started = c.inner.started
  BY <1>1 DEF InnerType
<1>3. c.inner.disc # "sent" => SetDisconnect(c) = Inner(c, n)
  BY DEF CtxType, Inner, SetDisconnect
<1>4. c.inner.disc = "sent" => SetDisconnect(c) = c
  BY DEF SetDisconnect
<1> HIDE DEF n
<1> QED
  BY <1>2, <1>3, <1>4, InnerFields DEF Retold

LEMMA TakePayloadErrorGood ==
  ASSUME NEW c \in CtxType, Loose(c), NEW left
  PROVE  LET d == TakePayloadError(c)
         IN /\ d \in CtxType /\ d.sc = c.sc /\ Framed(d) /\ (Base(c, left) => Kept(d, left))
            /\ Spares(c, d)
<1> DEFINE n == [c EXCEPT !.inner.pend = "none"]
<1>1. /\ Retold(c, n) /\ n.inner.pend = "none" /\ n.inner.disc = c.inner.disc
  BY UnpendFields
<1>2. TakePayloadError(c) = CtlPayloadErr(n, c.inner.pend)
  BY DEF TakePayloadError
<1> HIDE DEF n
<1>3. n \in CtxType /\ n.sc = c.sc /\ n.log = c.log /\ Loose(n) /\ (Base(c, left) => Base(n, left))
  BY <1>1 DEF Retold, Loose, Sent, Whole, Headless, Base, Rem, Gone, Timely
<1>4. PICK msg \in {"gone", "proto"} : Ends(n, CtlPayloadErr(n, c.inner.pend), msg)
  BY <1>3, CtlPayloadErrEnds
<1>5. msg \in Msgs /\ msg # "error" /\ msg # "keepalive"
  BY DEF Msgs
<1> QED
  BY <1>2, <1>3, <1>4, <1>5, EndsGood DEF Spares

\* A response is owed, and the connection is as Fit says.
LEMMA PublishGood ==
  ASSUME NEW c \in CtxType, Loose(c), ~c.log.open, c.log.resp < c.log.reqs, NEW left
  PROVE  LET d == Publish(c)
         IN /\ d \in CtxType /\ d.sc = c.sc /\ Framed(d) /\ (Fit(c, left) => Kept(d, left))
            /\ Spares(c, d)
<1>1. CASE c.inner.pend # "none"
  BY <1>1, TakePayloadErrorGood DEF Publish, Fit
<1>2. CASE c.inner.pend = "none"
  <2> DEFINE n == StartPayloadTimer(c)
             f == Call("publish")
             d == Calling(n, "publish", f)
  <2>1. Moves(c, n) /\ n \in CtxType /\ n.inner = c.inner /\ n.log = c.log /\ (Timely(c) => Timely(n))
    BY StartPayloadTimerClocked DEF Clocked, Moves
  <2>2. Publish(c) = d
    BY <1>2 DEF Publish, Calling
  <2>3. f \in FutType /\ "publish" \in States
    BY CallType DEF States
  <2> HIDE DEF n, f
  <2>4. Loose(n) /\ (Fit(c, left) => Fit(n, left))
    BY <2>1, MovesLoose, MovesFit
  <2>5. /\ d \in CtxType /\ d.st = "publish" /\ d.sc = n.sc /\ d.tm = n.tm
        /\ d.io = n.io /\ d.inner = n.inner /\ d.rx = n.rx /\ d.log = n.log
    BY <2>1, <2>3, CallingFields
  <2> HIDE DEF d
  <2>6. Framed(d)
    BY <2>1, <2>4, <2>5 DEF Framed, Loose, Sent, Whole, Headless, Ended
  <2>7. Fit(n, left) => Kept(d, left)
    BY <1>2, <2>1, <2>5 DEF Fit, Kept, Base, Free, Clean, Rem, Gone, Timely, Ended
  <2> QED
    BY <2>1, <2>2, <2>4, <2>5, <2>6, <2>7 DEF Moves, Spares
<1> QED
  BY <1>1, <1>2

\* The control service is asked about the request.
LEMMA ControlGood ==
  ASSUME NEW c \in CtxType, NEW msg \in Asked, Loose(c), ~c.log.open, c.log.resp < c.log.reqs,
         NEW left
  PROVE  LET d == Control(c, msg)
         IN /\ d \in CtxType /\ d.sc = c.sc /\ Framed(d) /\ (Fit(c, left) => Kept(d, left))
            /\ Spares(c, d)
<1> DEFINE d == Control(c, msg)
<1>1. /\ d \in CtxType /\ d.st = "control" /\ d.fut.what = msg
      /\ d.fut.res \in {"pending", "ack"} /\ d.sc = c.sc /\ d.tm = c.tm /\ d.io = c.io
      /\ d.inner = c.inner /\ d.rx = c.rx /\ d.log = c.log
  BY ControlFields
<1> HIDE DEF d
<1>2. Framed(d)
  BY <1>1 DEF Framed, Loose, Sent, Whole, Headless, Ended, Asked
<1>3. Fit(c, left) => Kept(d, left)
  BY <1>1 DEF Fit, Kept, Base, Free, Clean, Rem, Gone, Timely, Ended
<1> QED
  BY <1>1, <1>2, <1>3 DEF d, Spares

LEMMA CtlUpgradeGood ==
  ASSUME NEW c \in CtxType, Loose(c), ~c.log.open, c.log.resp < c.log.reqs, NEW left
  PROVE  LET d == CtlUpgrade(c)
         IN /\ d \in CtxType /\ d.sc = c.sc /\ Framed(d) /\ (Fit(c, left) => Kept(d, left))
            /\ Spares(c, d)
<1> DEFINE n == [c EXCEPT !.inner.keep = FALSE]
<1>1. Retold(c, n) /\ n.inner.pend = c.inner.pend /\ n.inner.disc = c.inner.disc
  BY TransientFields
<1>2. CtlUpgrade(c) = Control(n, "upgrade")
  BY DEF CtlUpgrade
<1> HIDE DEF n
<1>3. n \in CtxType /\ n.sc = c.sc /\ n.log = c.log /\ Loose(n) /\ (Fit(c, left) => Fit(n, left))
  BY <1>1 DEF Retold, Loose, Sent, Whole, Headless, Fit, Base, Free, Clean, Rem, Gone, Timely
<1> QED
  BY <1>2, <1>3, ControlGood DEF Asked, Spares

LEMMA ControlContinueGood ==
  ASSUME NEW c \in CtxType, Loose(c), ~c.log.open, c.log.resp < c.log.reqs, NEW fills \in BOOLEAN,
         NEW left
  PROVE  LET d == ControlContinue(c, fills)
         IN /\ d \in CtxType /\ d.sc = c.sc /\ Framed(d) /\ (Fit(c, left) => Kept(d, left))
            /\ Spares(c, d)
<1> DEFINE m == [c EXCEPT !.log.mixed = @ \/ c.log.open]
           f == Fill(m, fills)
           n == StartPayloadTimer(f)
<1>1. CASE ~Active(c)
  BY <1>1, CtlEnds, EndsGood DEF ControlContinue, Msgs, Fit
<1>2. CASE Active(c)
  <2>1. m = c
    BY Parts DEF CtxType, LogType, Loose
  <2>2. ControlContinue(c, fills) \in {CtlUpgrade(n), Publish(n)}
    BY <1>2 DEF ControlContinue
  <2> HIDE DEF m
  <2>3. Clocked(c, f) /\ f \in CtxType
    BY <2>1, FillClocked DEF Clocked, Moves
  <2> HIDE DEF f
  <2>4. Clocked(c, n) /\ n \in CtxType
    BY <2>3, StartPayloadTimerClocked, ClockedTwice DEF Clocked, Moves
  <2> HIDE DEF n
  <2>5. Loose(n) /\ (Fit(c, left) => Fit(n, left)) /\ n.log = c.log /\ n.sc = c.sc
    BY <2>4, MovesLoose, MovesFit DEF Clocked, Moves
  <2> QED
    BY <2>2, <2>4, <2>5, CtlUpgradeGood, PublishGood DEF Spares
<1> QED
  BY <1>1, <1>2

LEMMA ControlProtoGood ==
  ASSUME NEW c \in CtxType, NEW res, NEW fills \in BOOLEAN, Loose(c), c.log.resp <= c.log.reqs,
         c.inner.disc = "sent", NEW left
  PROVE  LET d == ControlProto(c, res, fills)
         IN /\ d \in CtxType /\ d.sc = c.sc /\ Framed(d) /\ (Base(c, left) => Kept(d, left))
            /\ Spares(c, d)
<1> DEFINE i == [c.inner EXCEPT !.started = FALSE]
           n == Inner(c, i)
           k == Close(n)
           d == Stop(k)
<1>1. CASE c.inner.started
  <2>1. /\ i \in InnerType /\ i.pend = c.inner.pend /\ i.disc = c.inner.disc
        /\ i.pay = c.inner.pay
    BY Parts DEF InnerType
  <2>2. ControlProto(c, res, fills) = d
    BY <1>1 DEF ControlProto, CtxType, Inner
  <2> HIDE DEF i
  <2>3. /\ n \in CtxType /\ n.inner = i /\ n.fut = c.fut /\ n.sc = c.sc /\ n.tm = c.tm /\ n.io = c.io
        /\ n.rx = c.rx /\ n.log = c.log
    BY <2>1, InnerFields
  <2> HIDE DEF n
  <2>4. /\ k \in CtxType /\ k.inner = i /\ k.sc = c.sc /\ k.rx = c.rx /\ k.log = c.log
        /\ k.tm = c.tm /\ k.io.in = c.io.in /\ (k.io.phase = "gone" <=> c.io.phase = "gone")
    BY <2>3, CloseFields
  <2> HIDE DEF k
  <2>5. /\ d \in CtxType /\ d.st = "stop" /\ d.sc = c.sc
        /\ d.io.phase = k.io.phase /\ d.io.in = c.io.in
        /\ d.inner = i /\ d.rx = c.rx /\ d.log = c.log
        /\ d.tm.act = "Stopped" /\ (~c.log.stale => Timely(d))
    BY <2>4, StopFields
  <2> HIDE DEF d
  <2>6. Framed(d)
    BY <2>1, <2>5 DEF Framed, Loose, Sent, Whole, Headless, Ended
  <2>7. Base(c, left) => Kept(d, left)
    BY <2>1, <2>4, <2>5 DEF Base, Kept, Free, Rem, Gone, Timely, TimelyAt, Ended
  <2> QED
    BY <2>2, <2>5, <2>6, <2>7 DEF Spares
<1>2. CASE ~c.inner.started
  <2>1. ~c.log.open /\ c.log.resp + 1 <= c.log.reqs + Sent(c)
    BY <1>2, Counts DEF Loose, Sent
  <2>2. Base(c, left) => Fit(c, left) /\ Reports(c)
    BY DEF Fit, Reports, Free
  <2> QED
    BY <1>2, <2>1, <2>2, SendResponseGood DEF ControlProto
<1> QED
  BY <1>1, <1>2

LEMMA ControlAckGood ==
  ASSUME NEW c \in CtxType, NEW res, NEW fills \in BOOLEAN, NEW left, Framed(c), c.st = "control"
  PROVE  LET d == ControlAck(c, res, fills)
         IN /\ d \in CtxType /\ d.sc = c.sc /\ Framed(d) /\ (Kept(c, left) => Kept(d, left))
            /\ Spares(c, d)
<1> DEFINE msg == c.fut.what
           s == SetDisconnect(c)
<1>1. Loose(c) /\ (Kept(c, left) => Fit(c, left) /\ Base(c, left))
  BY DEF Framed, Loose, Kept, Fit, Ended
<1>2. CASE msg = "request" /\ c.inner.kind \in Expecting
  <2>1. ControlAck(c, res, fills) = Control(c, "expect")
    BY <1>2 DEF ControlAck
  <2> QED
    BY <1>1, <1>2, <2>1, ControlGood DEF Framed, Asked
<1>3. CASE msg = "request" /\ c.inner.kind \in Upgrading \ Expecting
  <2>1. ControlAck(c, res, fills) = CtlUpgrade(c)
    BY <1>3 DEF ControlAck
  <2> QED
    BY <1>1, <1>3, <2>1, CtlUpgradeGood DEF Framed, Asked
<1>4. CASE msg = "request" /\ c.inner.kind \notin Expecting \cup Upgrading
  <2>1. ControlAck(c, res, fills) = Publish(c)
    BY <1>4 DEF ControlAck
  <2> QED
    BY <1>1, <1>4, <2>1, PublishGood DEF Framed, Asked
<1>5. CASE msg = "expect"
  BY <1>1, <1>5, ControlContinueGood DEF ControlAck, Framed, Asked
<1>6. CASE msg = "upgrade"
  <2>1. /\ Retold(c, s) /\ s.inner.pend = c.inner.pend /\ s.inner.disc # "none"
        /\ (s.inner.disc = "sent" <=> c.inner.disc = "sent")
    BY SetDisconnectFields
  <2>2. ControlAck(c, res, fills) = Publish(s)
    BY <1>6 DEF ControlAck
  <2> HIDE DEF s
  <2>3. s \in CtxType /\ s.sc = c.sc /\ s.log = c.log /\ Loose(s) /\ (Base(c, left) => Fit(s, left))
    BY <1>1, <2>1 DEF Retold, Loose, Sent, Whole, Headless, Fit, Base, Free, Rem, Gone, Timely
  <2>4. ~s.log.open /\ s.log.resp < s.log.reqs
    BY <1>6, <2>3 DEF Framed, Asked
  <2> QED
    BY <1>1, <2>2, <2>3, <2>4, PublishGood DEF Spares
<1>7. CASE msg = "proto"
  BY <1>1, <1>7, ControlProtoGood DEF ControlAck, Framed, Asked
<1>8. CASE msg = "error"
  <2>1. c.inner.disc = "sent" /\ ~c.log.open /\ c.log.resp <= c.log.reqs
    BY <1>8 DEF Framed, Asked
  <2>2. c.log.resp + 1 <= c.log.reqs + Sent(c)
    BY <2>1, Counts DEF Sent
  <2>3. Base(c, left) => Fit(c, left) /\ Reports(c)
    BY <2>1 DEF Fit, Reports, Free
  <2> QED
    BY <1>1, <1>8, <2>1, <2>2, <2>3, SendResponseGood DEF ControlAck
<1>9. CASE msg \notin {"request", "expect", "upgrade", "proto", "error"}
  <2> DEFINE d == Stop(c)
  <2>1. ControlAck(c, res, fills) = d
    BY <1>9 DEF ControlAck
  <2>2. /\ d \in CtxType /\ d.st = "stop" /\ d.sc = c.sc
        /\ d.io.phase = c.io.phase /\ d.io.in = c.io.in
        /\ d.inner = c.inner /\ d.rx = c.rx /\ d.log = c.log
        /\ d.tm.act = "Stopped" /\ (~c.log.stale => Timely(d))
    BY StopFields
  <2> HIDE DEF d
  <2>3. Framed(d)
    BY <1>1, <2>2 DEF Framed, Loose, Sent, Whole, Headless, Ended
  <2>4. Base(c, left) => Kept(d, left)
    BY <2>2 DEF Base, Kept, Free, Rem, Gone, Timely, TimelyAt, Ended
  <2> QED
    BY <1>1, <2>1, <2>2, <2>3, <2>4 DEF Spares
<1> QED
  BY <1>2, <1>3, <1>4, <1>5, <1>6, <1>7, <1>8, <1>9

LEMMA ControlFailGood ==
  ASSUME NEW c \in CtxType, NEW res, NEW fills \in BOOLEAN, NEW left, Framed(c), c.st = "control",
         c.fut.res = "fail"
  PROVE  LET d == ControlFail(c, res, fills)
         IN /\ d \in CtxType /\ d.sc = c.sc /\ Framed(d) /\ (Kept(c, left) => Kept(d, left))
            /\ Spares(c, d)
<1> DEFINE s == SetDisconnect(c)
<1>1. Loose(c) /\ (Kept(c, left) => Base(c, left) /\ c.fut.what # "request")
  BY DEF Framed, Loose, Kept, Ended
<1>2. ~c.log.open /\ c.log.resp < c.log.reqs
  BY DEF Framed
<1>3. c.log.resp + 1 <= c.log.reqs + Sent(c) /\ c.log.resp + 1 <= c.log.reqs
  BY <1>2, Counts
<1>4. CASE c.fut.what = "request"
  BY <1>1, <1>2, <1>3, <1>4, SendResponseGood DEF ControlFail
<1>5. CASE c.fut.what # "request"
  <2>1. /\ Retold(c, s) /\ s.inner.pend = c.inner.pend /\ s.inner.disc # "none"
        /\ (s.inner.disc = "sent" <=> c.inner.disc = "sent")
    BY SetDisconnectFields
  <2>2. ControlFail(c, res, fills) = SendResponse(s, res, fills)
    BY <1>5 DEF ControlFail
  <2> HIDE DEF s
  <2>3. /\ s \in CtxType /\ s.sc = c.sc /\ s.log = c.log /\ Loose(s)
        /\ (Base(c, left) => Fit(s, left) /\ Reports(s))
    BY <1>1, <2>1 DEF Retold, Loose, Sent, Whole, Headless, Fit, Base, Free, Rem, Gone, Timely, Reports
  <2>4. Sent(s) = Sent(c)
    BY <2>1 DEF Sent
  <2> QED
    BY <1>1, <1>2, <1>3, <2>2, <2>3, <2>4, SendResponseGood DEF Spares
<1> QED
  BY <1>4, <1>5

-----------------------------------------------------------------------------
(* The input as a sequence of tokens *)

\* t is what follows the first n tokens of s.
Rest(s, t, n) ==
  /\ n \in 0..Len(s) /\ t \in Seq(Tokens) /\ Len(t) = Len(s) - n
  /\ \A i \in 1..Len(t) : t[i] = s[i + n]

\* t begins with s.
Begins(s, t) == Len(s) <= Len(t) /\ \A i \in 1..Len(s) : s[i] = t[i]

LEMMA AtHeadInBody == ASSUME NEW s, AtHead(s) PROVE InBody(s)
BY DEF AtHead, InBody

LEMMA CarriedRest ==
  ASSUME NEW s \in Seq(Tokens), NEW t, NEW n, Rest(s, t, n), NEW i \in 1..Len(t),
         NEW j \in (n + 1)..((i + n) - 1), s[j] \in Bodied,
         \A k \in (j + 1)..((i + n) - 1) : s[k] = "data"
  PROVE  Carried(t, i)
<1>1. n \in Nat /\ Len(s) \in Nat /\ Len(t) \in Nat /\ j \in Int /\ i \in Int
  BY DEF Rest
<1>2. j - n \in 1..(i - 1) /\ j - n \in 1..Len(t) /\ t[j - n] = s[(j - n) + n] /\ (j - n) + n = j
  BY <1>1 DEF Rest
<1>3. ASSUME NEW k \in (j - n + 1)..(i - 1) PROVE t[k] = "data"
  <2>1. k \in 1..Len(t) /\ k + n \in (j + 1)..((i + n) - 1)
    BY <1>1
  <2> QED
    BY <2>1 DEF Rest
<1> QED
  BY <1>2, <1>3 DEF Carried

\* No request with a payload is among the parts of a head that are dropped.
LEMMA RestAtHead ==
  ASSUME NEW s \in Seq(Tokens), NEW t, NEW n, Rest(s, t, n), AtHead(s),
         \A k \in 1..n : s[k] \notin Bodied
  PROVE  AtHead(t)
<1>1. n \in Nat /\ Len(s) \in Nat /\ Len(t) \in Nat
  BY DEF Rest
<1>2. ASSUME NEW i \in 1..Len(t), t[i] \in {"data", "end"} PROVE Carried(t, i)
  <2>1. i + n \in 1..Len(s) /\ s[i + n] \in {"data", "end"}
    BY <1>1, <1>2 DEF Rest
  <2>2. PICK j \in 1..((i + n) - 1) : s[j] \in Bodied /\ \A k \in (j + 1)..((i + n) - 1) : s[k] = "data"
    <3>1. Carried(s, i + n)
      BY <2>1 DEF AtHead
    <3> QED
      BY <3>1, Zenon DEF Carried
  <2>3. j \in (n + 1)..((i + n) - 1)
    BY <1>1, <2>2
  <2> QED
    BY <2>2, <2>3, CarriedRest
<1> QED
  BY <1>2 DEF AtHead

\* The payload of the request whose head is the last that is dropped follows.
LEMMA RestInBody ==
  ASSUME NEW s \in Seq(Tokens), NEW t, NEW n, Rest(s, t, n), AtHead(s),
         \A k \in 1..(n - 1) : s[k] \notin Bodied
  PROVE  InBody(t)
<1>1. n \in Nat /\ Len(s) \in Nat /\ Len(t) \in Nat
  BY DEF Rest
<1>2. ASSUME NEW i \in 1..Len(t), t[i] \in {"data", "end"}, ~Carried(t, i),
             NEW k \in 1..(i - 1)
      PROVE  t[k] = "data"
  <2>1. i + n \in 1..Len(s) /\ s[i + n] \in {"data", "end"}
    BY <1>1, <1>2 DEF Rest
  <2>2. PICK j \in 1..((i + n) - 1) : s[j] \in Bodied /\ \A m \in (j + 1)..((i + n) - 1) : s[m] = "data"
    <3>1. Carried(s, i + n)
      BY <2>1 DEF AtHead
    <3> QED
      BY <3>1, Zenon DEF Carried
  <2>3. j \notin (n + 1)..((i + n) - 1)
    BY <1>2, <2>2, CarriedRest
  <2>4. j = n
    BY <1>1, <2>2, <2>3
  <2>5. k \in 1..Len(t) /\ k + n \in (j + 1)..((i + n) - 1)
    BY <1>1, <2>4
  <2> QED
    BY <2>2, <2>5 DEF Rest
<1> QED
  BY <1>2 DEF InBody

\* The end of a payload is the last that is dropped.
LEMMA RestEnded ==
  ASSUME NEW s \in Seq(Tokens), NEW t, NEW n, Rest(s, t, n), InBody(s), n # 0, s[n] = "end"
  PROVE  AtHead(t)
<1>1. n \in Nat /\ Len(s) \in Nat /\ Len(t) \in Nat
  BY DEF Rest
<1>2. ASSUME NEW i \in 1..Len(t), t[i] \in {"data", "end"} PROVE Carried(t, i)
  <2>1. i + n \in 1..Len(s) /\ s[i + n] \in {"data", "end"} /\ n \in 1..((i + n) - 1)
    BY <1>1, <1>2 DEF Rest
  <2>2. Carried(s, i + n)
    BY <2>1 DEF InBody
  <2>3. PICK j \in 1..((i + n) - 1) : s[j] \in Bodied /\ \A m \in (j + 1)..((i + n) - 1) : s[m] = "data"
    BY <2>2, Zenon DEF Carried
  <2>4. j # n
    BY <2>3 DEF Bodied, Expecting, Upgrading
  <2>5. ~(n \in (j + 1)..((i + n) - 1))
    BY <2>3
  <2>6. j \in (n + 1)..((i + n) - 1)
    BY <1>1, <2>4, <2>5
  <2> QED
    BY <2>3, <2>6, CarriedRest
<1> QED
  BY <1>2 DEF AtHead

\* A chunk of a payload is dropped.
LEMMA RestChunk ==
  ASSUME NEW s \in Seq(Tokens), NEW t, Rest(s, t, 1), InBody(s), s[1] = "data"
  PROVE  InBody(t)
<1>1. Len(s) \in Nat /\ Len(t) \in Nat
  BY DEF Rest
<1>2. ASSUME NEW i \in 1..Len(t), t[i] \in {"data", "end"}, ~Carried(t, i),
             NEW k \in 1..(i - 1)
      PROVE  t[k] = "data"
  <2>1. i + 1 \in 1..Len(s) /\ s[i + 1] \in {"data", "end"}
    BY <1>1, <1>2 DEF Rest
  <2>2. k \in 1..Len(t) /\ k + 1 \in 1..((i + 1) - 1) /\ t[k] = s[k + 1]
    BY <1>1 DEF Rest
  <2>3. CASE Carried(s, i + 1)
    <3>1. PICK j \in 1..((i + 1) - 1) : s[j] \in Bodied /\ \A m \in (j + 1)..((i + 1) - 1) : s[m] = "data"
      BY <2>3 DEF Carried
    <3>2. j # 1
      BY <3>1 DEF Bodied, Expecting, Upgrading
    <3>3. j \in (1 + 1)..((i + 1) - 1)
      BY <3>1, <3>2
    <3> QED
      BY <1>2, <3>1, <3>3, CarriedRest
  <2>4. CASE ~Carried(s, i + 1)
    BY <2>1, <2>2, <2>4 DEF InBody
  <2> QED
    BY <2>3, <2>4
<1> QED
  BY <1>2 DEF InBody

\* What was sent before the peer went away.
LEMMA BeginsCarried ==
  ASSUME NEW s, NEW t, Begins(s, t), Len(s) \in Nat, Len(t) \in Nat, NEW i \in 1..Len(s), Carried(t, i)
  PROVE  Carried(s, i)
<1>1. PICK j \in 1..(i - 1) : t[j] \in Bodied /\ \A k \in (j + 1)..(i - 1) : t[k] = "data"
  BY DEF Carried
<1>2. s[j] \in Bodied /\ \A k \in (j + 1)..(i - 1) : s[k] = "data"
  BY <1>1 DEF Begins
<1> QED
  BY <1>2 DEF Carried

LEMMA BeginsFits ==
  ASSUME NEW s, NEW t, Begins(s, t), Len(s) \in Nat, Len(t) \in Nat
  PROVE  (AtHead(t) => AtHead(s)) /\ (InBody(t) => InBody(s))
<1>1. \A i \in 1..Len(s) : i \in 1..Len(t) /\ s[i] = t[i]
  BY DEF Begins
<1>2. AtHead(t) => AtHead(s)
  BY <1>1, BeginsCarried DEF AtHead
<1>3. ASSUME InBody(t) PROVE InBody(s)
  <2>1. ASSUME NEW i \in 1..Len(s), s[i] \in {"data", "end"}, ~Carried(s, i), NEW k \in 1..(i - 1)
        PROVE  s[k] = "data"
    <3>1. ~Carried(t, i) /\ t[i] \in {"data", "end"} /\ i \in 1..Len(t)
      BY <1>1, <2>1, BeginsCarried
    <3>2. t[k] = "data"
      BY <1>3, <3>1 DEF InBody
    <3>3. k \in 1..Len(s)
      OBVIOUS
    <3> QED
      BY <1>1, <3>2, <3>3
  <2> QED
    BY <2>1 DEF InBody
<1> QED
  BY <1>2, <1>3

LEMMA RestSubSeq ==
  ASSUME NEW s \in Seq(Tokens), NEW n \in 0..Len(s)
  PROVE  Rest(s, SubSeq(s, n + 1, Len(s)), n)
<1> DEFINE t == SubSeq(s, n + 1, Len(s))
<1>1. Len(s) \in Nat /\ n \in Nat
  BY LenProperties
<1>2. n + 1 \in 1..(Len(s) + 1) /\ Len(s) \in n..Len(s)
  BY <1>1
<1>3. t \in Seq(Tokens) /\ Len(t) = Len(s) - n
  BY <1>1
<1>4. ASSUME NEW i \in 1..Len(t) PROVE t[i] = s[i + n]
  BY <1>1, <1>3
<1> QED
  BY <1>3, <1>4 DEF Rest

LEMMA RestTail ==
  ASSUME NEW s \in Seq(Tokens), s # <<>>
  PROVE  Rest(s, Tail(s), 1) /\ s[1] = Head(s) /\ 1 \in 1..Len(s)
BY HeadTailProperties, EmptySeq, LenProperties DEF Rest

LEMMA RestAll ==
  ASSUME NEW s \in Seq(Tokens) PROVE Rest(s, <<>>, Len(s))
<1>1. Len(s) \in Nat /\ <<>> \in Seq(Tokens) /\ Len(<<>>) = 0
  BY LenProperties
<1>2. Len(s) \in 0..Len(s) /\ \A i \in 1..Len(<<>>) : FALSE
  BY <1>1
<1> QED
  BY <1>1, <1>2 DEF Rest

LEMMA RestTwice ==
  ASSUME NEW s \in Seq(Tokens), NEW t, NEW u, NEW n, NEW m, Rest(s, t, n), Rest(t, u, m)
  PROVE  Rest(s, u, n + m)
<1>1. n \in Nat /\ m \in Nat /\ Len(s) \in Nat /\ Len(t) \in Nat /\ Len(u) \in Nat /\ t \in Seq(Tokens)
      /\ u \in Seq(Tokens) /\ Len(t) = Len(s) - n /\ Len(u) = Len(t) - m
  BY DEF Rest
<1>2. n + m \in 0..Len(s) /\ Len(u) = Len(s) - (n + m)
  BY <1>1 DEF Rest
<1>3. ASSUME NEW i \in 1..Len(u) PROVE u[i] = s[i + (n + m)]
  <2>1. i + m \in 1..Len(t) /\ (i + m) + n = i + (n + m)
    BY <1>1
  <2>2. u[i] = t[i + m] /\ t[i + m] = s[(i + m) + n]
    BY <2>1 DEF Rest
  <2> QED
    BY <2>1, <2>2
<1> QED
  BY <1>1, <1>2, <1>3 DEF Rest

\* More input follows.
LEMMA RestConcat ==
  ASSUME NEW s \in Seq(Tokens), NEW l \in Seq(Tokens), NEW t, NEW n, Rest(s, t, n)
  PROVE  Rest(s \o l, t \o l, n)
<1>1. n \in Nat /\ Len(s) \in Nat /\ Len(t) \in Nat /\ Len(l) \in Nat /\ t \in Seq(Tokens)
      /\ Len(t) = Len(s) - n
  BY DEF Rest
<1>2. s \o l \in Seq(Tokens) /\ t \o l \in Seq(Tokens) /\ Len(s \o l) = Len(s) + Len(l)
      /\ Len(t \o l) = Len(t) + Len(l)
  BY <1>1
<1>3. n \in 0..Len(s \o l) /\ Len(t \o l) = Len(s \o l) - n
  BY <1>1, <1>2 DEF Rest
<1>4. ASSUME NEW i \in 1..Len(t \o l) PROVE (t \o l)[i] = (s \o l)[i + n]
  <2>1. CASE i <= Len(t)
    <3>1. i \in 1..Len(t) /\ i + n \in 1..Len(s) /\ t[i] = s[i + n]
      BY <1>1, <2>1 DEF Rest
    <3>2. (t \o l)[i] = t[i] /\ (s \o l)[i + n] = s[i + n]
      BY <1>1, <3>1
    <3> QED
      BY <3>1, <3>2
  <2>2. CASE i > Len(t)
    <3>1. i \in (Len(t) + 1)..(Len(t) + Len(l)) /\ i + n \in (Len(s) + 1)..(Len(s) + Len(l))
          /\ i - Len(t) = (i + n) - Len(s)
      BY <1>1, <1>2, <2>2
    <3>2. (t \o l)[i] = l[i - Len(t)] /\ (s \o l)[i + n] = l[(i + n) - Len(s)]
      BY <1>1, <3>1
    <3> QED
      BY <3>1, <3>2
  <2> QED
    BY <1>1, <1>2, <2>1, <2>2
<1> QED
  BY <1>2, <1>3, <1>4 DEF Rest

LEMMA BeginsConcat ==
  ASSUME NEW s \in Seq(Tokens), NEW l \in Seq(Tokens)
  PROVE  s \o l \in Seq(Tokens) /\ Begins(s, s \o l) /\ Len(s) \in Nat /\ Len(s \o l) \in Nat
BY ConcatProperties, LenProperties DEF Begins

LEMMA RemFacts ==
  ASSUME NEW c \in CtxType, NEW left \in Seq(Tokens)
  PROVE  /\ c.io.in \in Seq(Tokens) /\ Rem(c, left) \in Seq(Tokens) /\ Begins(c.io.in, Rem(c, left))
         /\ Len(c.io.in) \in Nat /\ Len(Rem(c, left)) \in Nat
<1>1. c.io.in \in Seq(Tokens)
  BY Parts DEF IoType
<1>2. Len(c.io.in) \in Nat
  BY <1>1, LenProperties
<1> QED
  BY <1>1, <1>2, BeginsConcat DEF Rem, Begins

\* The input is consumed.
LEMMA RestRem ==
  ASSUME NEW c \in CtxType, NEW d \in CtxType, NEW left \in Seq(Tokens), NEW n,
         d.io.phase = c.io.phase, Rest(c.io.in, d.io.in, n)
  PROVE  /\ Rest(Rem(c, left), Rem(d, left), n)
         /\ \A k \in 1..n : Rem(c, left)[k] = c.io.in[k]
<1>1. c.io.in \in Seq(Tokens) /\ Len(c.io.in) \in Nat /\ Begins(c.io.in, Rem(c, left))
  BY RemFacts
<1>2. \A k \in 1..n : k \in 1..Len(c.io.in)
  BY <1>1 DEF Rest
<1> QED
  BY <1>1, <1>2, RestConcat DEF Rem, Gone, Begins

\* A set of naturals that is not empty has a least element.
LEMMA LeastNat ==
  ASSUME NEW T \in SUBSET Nat, T # {} PROVE \E x \in T : \A y \in T : x <= y
<1> DEFINE R == {p \in Nat \X Nat : p[1] < p[2]}
<1>1. IsWellFoundedOn(OpToRel(<, Nat), Nat)
  BY NatLessThanWellFounded, Zenon
<1>2. OpToRel(<, Nat) = R
  BY Zenon DEF OpToRel
<1>3. IsWellFoundedOn(R, Nat)
  BY <1>1, <1>2, Zenon
<1> HIDE DEF R
<1>4. PICK x \in T : \A y \in T : ~(<<y, x>> \in R)
  BY <1>3, WFMin, Zenon
<1>5. ASSUME NEW y \in T PROVE x <= y
  <2>1. ~(<<y, x>> \in R) /\ x \in Nat /\ y \in Nat
    BY <1>4
  <2> QED
    BY <2>1 DEF R
<1> QED
  BY <1>5

\* Parts of a head are all that the decoder skips.
LEMMA SkipPartsFacts ==
  ASSUME NEW in \in Seq(Tokens)
  PROVE  \E n \in Nat : Rest(in, SkipParts(in), n) /\ \A j \in 1..n : in[j] = "part"
<1> DEFINE T == {k \in Nat : k = Len(in) \/ in[k + 1] # "part"}
           P(k) == (\A j \in 1..k : in[j] = "part") /\ (k < Len(in) => in[k + 1] # "part")
           n == CHOOSE k \in 0..Len(in) : P(k)
<1>1. Len(in) \in Nat
  BY LenProperties
<1>2. Len(in) \in T
  BY <1>1
<1>3. PICK m \in T : \A y \in T : m <= y
  BY <1>2, LeastNat
<1>4. m \in Nat /\ m <= Len(in) /\ (m < Len(in) => in[m + 1] # "part")
  BY <1>1, <1>2, <1>3
<1>5. ASSUME NEW j \in 1..m PROVE in[j] = "part"
  <2>1. j - 1 \in Nat /\ ~(m <= j - 1) /\ (j - 1) + 1 = j /\ j - 1 # Len(in)
    BY <1>1, <1>4
  <2>2. j - 1 \notin T
    BY <1>3, <2>1
  <2> QED
    BY <2>1, <2>2
<1>6. m \in 0..Len(in) /\ P(m)
  BY <1>1, <1>4, <1>5
<1>7. n \in 0..Len(in) /\ P(n)
  <2> HIDE DEF P
  <2> QED
    BY <1>6
<1>8. SkipParts(in) = SubSeq(in, n + 1, Len(in))
  BY DEF SkipParts
<1> HIDE DEF n
<1>9. Rest(in, SkipParts(in), n) /\ n \in Nat
  BY <1>1, <1>7, <1>8, RestSubSeq
<1> QED
  BY <1>7, <1>9

LEMMA AfterEndFacts ==
  ASSUME NEW in \in Seq(Tokens),
         \E k \in 1..Len(in) : in[k] = "end" /\ \A j \in 1..k - 1 : in[j] = "data"
  PROVE  \E n \in Nat : Rest(in, AfterEnd(in), n) /\ n # 0 /\ in[n] = "end"
<1> DEFINE P(k) == in[k] = "end" /\ \A j \in 1..k - 1 : in[j] = "data"
           n == CHOOSE k \in 1..Len(in) : P(k)
<1>1. n \in 1..Len(in) /\ P(n)
  <2>1. \E k \in 1..Len(in) : P(k)
    OBVIOUS
  <2> HIDE DEF P
  <2> QED
    BY <2>1
<1>2. AfterEnd(in) = SubSeq(in, n + 1, Len(in))
  BY DEF AfterEnd
<1> HIDE DEF n
<1>3. n \in 0..Len(in) /\ n \in Nat /\ n # 0
  BY <1>1, LenProperties
<1> QED
  BY <1>1, <1>2, <1>3, RestSubSeq

-----------------------------------------------------------------------------
(* Requests *)

\* The decoder takes input.
Eats(c, in, h, m) ==
  [c EXCEPT !.io.in = in, !.io.paused = FALSE, !.inner.hdrs = h, !.log.misread = m]

LEMMA EatsFields ==
  ASSUME NEW c \in CtxType, NEW in \in Seq(Tokens), NEW h \in BOOLEAN, NEW m \in BOOLEAN
  PROVE  LET d == Eats(c, in, h, m)
         IN /\ d \in CtxType /\ d.st = c.st /\ d.fut = c.fut /\ d.sc = c.sc /\ d.tm = c.tm
            /\ d.rx = c.rx /\ d.io.phase = c.io.phase /\ d.io.in = in /\ d.io.timer = c.io.timer
            /\ d.io.timeout = c.io.timeout /\ d.io.for = c.io.for /\ d.io.exp = c.io.exp
            /\ d.inner.started = c.inner.started /\ d.inner.keep = c.inner.keep
            /\ d.inner.disc = c.inner.disc /\ d.inner.pend = c.inner.pend /\ d.inner.pay = c.inner.pay
            /\ d.log.open = c.log.open /\ d.log.reqs = c.log.reqs /\ d.log.resp = c.log.resp
            /\ d.log.mixed = c.log.mixed /\ d.log.told = c.log.told /\ d.log.stale = c.log.stale
            /\ d.log.misread = m
<1> DEFINE i == [c.io EXCEPT !.in = in, !.paused = FALSE]
           n == [c.inner EXCEPT !.hdrs = h]
           l == [c.log EXCEPT !.misread = m]
           d == [c EXCEPT !.io = i, !.inner = n, !.log = l]
<1>1. c.inner \in InnerType /\ c.log \in LogType /\ c.io \in IoType
  BY Parts
<1>2. i \in IoType /\ i.phase = c.io.phase /\ i.in = in /\ i.timer = c.io.timer
      /\ i.timeout = c.io.timeout /\ i.for = c.io.for /\ i.exp = c.io.exp
  BY <1>1 DEF IoType
<1>3. n \in InnerType /\ n.disc = c.inner.disc /\ n.pend = c.inner.pend
      /\ n.started = c.inner.started /\ n.pay = c.inner.pay /\ n.keep = c.inner.keep
  BY <1>1 DEF InnerType
<1>4. l \in LogType /\ l.reqs = c.log.reqs /\ l.resp = c.log.resp /\ l.open = c.log.open
      /\ l.mixed = c.log.mixed /\ l.told = c.log.told /\ l.stale = c.log.stale /\ l.misread = m
  BY <1>1 DEF LogType
<1>5. Eats(c, in, h, m) = d
  BY DEF CtxType, Eats
<1> HIDE DEF i, n, l
<1>6. d \in CtxType /\ d.inner = n /\ d.log = l /\ d.io = i /\ d.sc = c.sc /\ d.tm = c.tm
      /\ d.rx = c.rx /\ d.st = c.st /\ d.fut = c.fut
  BY <1>2, <1>3, <1>4 DEF CtxType
<1> HIDE DEF d
<1> QED
  BY <1>2, <1>3, <1>4, <1>5, <1>6

Decoded(c, d, in, m) ==
  /\ d \in CtxType /\ d.st = c.st /\ d.fut = c.fut /\ d.sc = c.sc /\ d.tm = c.tm
  /\ d.rx = c.rx /\ d.io.phase = c.io.phase /\ d.io.in = in /\ d.io.timer = c.io.timer
  /\ d.io.timeout = c.io.timeout /\ d.io.for = c.io.for /\ d.io.exp = c.io.exp
  /\ d.inner.started = c.inner.started /\ d.inner.keep = c.inner.keep
  /\ d.inner.disc = c.inner.disc /\ d.inner.pend = c.inner.pend /\ d.inner.pay = c.inner.pay
  /\ d.log.open = c.log.open /\ d.log.reqs = c.log.reqs /\ d.log.resp = c.log.resp
  /\ d.log.mixed = c.log.mixed /\ d.log.told = c.log.told /\ d.log.stale = c.log.stale
  /\ d.log.misread = m

\* What was read ends with the head of a request, with bad bytes, or is not
\* a whole head.
LEMMA DecodeHeadFacts ==
  ASSUME NEW c \in CtxType
  PROVE  LET d == DecodeHead(c)
         IN /\ d.received \in BOOLEAN /\ d.item \in Heads \cup {"bad", "none"}
            /\ \E n \in Nat, m \in BOOLEAN :
                 /\ Rest(c.io.in, d.c.io.in, n) /\ Decoded(c, d.c, d.c.io.in, m)
                 /\ \A k \in 1..(n - 1) : c.io.in[k] = "part"
                 /\ d.item = "none" => n = Len(c.io.in) /\ m = c.log.misread
                                       /\ \A k \in 1..n : c.io.in[k] = "part"
                 /\ d.item # "none" => n # 0
                 /\ d.item \in Heads => c.io.in[n] = d.item
                 /\ m => c.log.misread \/ (n # 0 /\ c.io.in[n] \in {"data", "end"})
<1> DEFINE in == c.io.in
           rest == SkipParts(in)
           got == rest # in
           t == IF rest = <<>> THEN <<>> ELSE Tail(rest)
           h == (c.inner.hdrs \/ got) /\ rest = <<>>
           m == c.log.misread \/ (rest # <<>> /\ Head(rest) \in {"data", "end"})
           item == IF rest = <<>> THEN "none" ELSE IF Head(rest) \in Heads THEN Head(rest) ELSE "bad"
           d == DecodeHead(c)
<1>1. d.c = Eats(c, t, h, m) /\ d.received = (got \/ rest # <<>>) /\ d.item = item
  BY DEF DecodeHead, Eats
<1>2. in \in Seq(Tokens) /\ Len(in) \in Nat /\ c.inner.hdrs \in BOOLEAN /\ c.log.misread \in BOOLEAN
  BY Parts, LenProperties DEF IoType, InnerType, LogType
<1>3. h \in BOOLEAN /\ m \in BOOLEAN /\ d.received \in BOOLEAN /\ d.item \in Heads \cup {"bad", "none"}
  BY <1>1, <1>2
<1>4. PICK n \in Nat : Rest(in, rest, n) /\ \A j \in 1..n : in[j] = "part"
  BY <1>2, SkipPartsFacts
<1>5. rest \in Seq(Tokens) /\ n \in 0..Len(in) /\ Len(rest) = Len(in) - n
  BY <1>4 DEF Rest
<1> HIDE DEF in, d
<1>6. CASE rest = <<>>
  <2>1. t = <<>> /\ item = "none" /\ (m = c.log.misread)
    BY <1>2, <1>6
  <2>2. n = Len(in) /\ Rest(in, t, n)
    <3>1. Len(rest) = 0
      BY <1>6
    <3>2. n = Len(in)
      BY <1>2, <1>5, <3>1
    <3> QED
      BY <1>2, <2>1, <3>2, RestAll
  <2> HIDE DEF rest, item, h, m, t
  <2>3. t \in Seq(Tokens)
    BY <2>2 DEF Rest
  <2>4. Decoded(c, d.c, t, m) /\ d.c.io.in = t
    BY <1>1, <1>3, <2>3, EatsFields DEF Decoded
  <2>5. \A k \in 1..(n - 1) : in[k] = "part"
    BY <1>4, <1>5
  <2>6. m => c.log.misread
    BY <2>1
  <2> QED
    BY <1>1, <1>3, <1>4, <2>1, <2>2, <2>4, <2>5, <2>6 DEF in, d, Heads, Bodied, Expecting, Upgrading
<1>7. CASE rest # <<>>
  <2>1. t = Tail(rest) /\ item \in Heads \cup {"bad"} /\ (item \in Heads => item = Head(rest))
        /\ (m => c.log.misread \/ Head(rest) \in {"data", "end"})
    BY <1>7 DEF Heads, Bodied, Expecting, Upgrading
  <2>2. Rest(rest, t, 1) /\ rest[1] = Head(rest) /\ 1 \in 1..Len(rest)
    BY <1>5, <1>7, <2>1, RestTail
  <2>3. Rest(in, t, n + 1)
    BY <1>2, <1>4, <2>2, RestTwice
  <2>4. Head(rest) = in[n + 1]
    BY <1>4, <1>5, <2>2 DEF Rest
  <2> HIDE DEF rest, item, h, m, t
  <2>5. t \in Seq(Tokens)
    BY <2>3 DEF Rest
  <2>6. Decoded(c, d.c, t, m) /\ d.c.io.in = t
    BY <1>1, <1>3, <2>5, EatsFields DEF Decoded
  <2>7. n + 1 \in Nat /\ n + 1 # 0 /\ (n + 1) - 1 = n
    BY <1>4
  <2>8. item # "none"
    BY <2>1 DEF Heads, Bodied, Expecting, Upgrading
  <2> QED
    BY <1>1, <1>3, <1>4, <2>1, <2>3, <2>4, <2>6, <2>7, <2>8 DEF in, d
<1> QED
  BY <1>6, <1>7

LEMMA DecodedLoose ==
  ASSUME NEW c \in CtxType, NEW d, NEW in, NEW m, Decoded(c, d, in, m), Loose(c)
  PROVE  Loose(d) /\ (Timely(c) => Timely(d))
BY DEF Decoded, Loose, Sent, Whole, Headless, Timely, TimelyAt

\* The payload of a request follows its head, and nothing else is misread.
LEMMA DecodeHeadGood ==
  ASSUME NEW c \in CtxType, NEW left \in Seq(Tokens), Loose(c)
  PROVE  LET d == DecodeHead(c)
         IN /\ d.c \in CtxType /\ Loose(d.c) /\ d.c.sc = c.sc /\ d.c.st = c.st /\ d.c.fut = c.fut
            /\ d.c.inner.pay = c.inner.pay /\ d.c.inner.disc = c.inner.disc /\ d.c.inner.pend = c.inner.pend
            /\ d.c.inner.keep = c.inner.keep /\ d.c.tm = c.tm /\ d.c.io.phase = c.io.phase
            /\ d.c.io.exp = c.io.exp /\ d.c.io.timeout = c.io.timeout
            /\ d.c.log.open = c.log.open /\ d.c.log.resp = c.log.resp /\ d.c.log.reqs = c.log.reqs
            /\ d.c.log.told = c.log.told
            /\ d.received \in BOOLEAN /\ d.item \in Heads \cup {"bad", "none"}
            /\ d.item = "none" => \A k \in DOMAIN c.io.in : c.io.in[k] \notin Heads
            /\ Fit(c, left) /\ Free(c) =>
                 /\ Base(d.c, left)
                 /\ d.item = "none" => Fit(d.c, left)
                 /\ d.item \in Bodied => InBody(Rem(d.c, left))
                 /\ d.item \in Heads \ Bodied => AtHead(Rem(d.c, left))
<1> DEFINE d == DecodeHead(c)
           s == Rem(c, left)
           t == Rem(d.c, left)
<1>1. PICK n \in Nat, m \in BOOLEAN :
        /\ Rest(c.io.in, d.c.io.in, n) /\ Decoded(c, d.c, d.c.io.in, m)
        /\ \A k \in 1..(n - 1) : c.io.in[k] = "part"
        /\ d.item = "none" => n = Len(c.io.in) /\ m = c.log.misread /\ \A k \in 1..n : c.io.in[k] = "part"
        /\ d.item # "none" => n # 0
        /\ d.item \in Heads => c.io.in[n] = d.item
        /\ m => c.log.misread \/ (n # 0 /\ c.io.in[n] \in {"data", "end"})
  BY DecodeHeadFacts
<1>2. d.received \in BOOLEAN /\ d.item \in Heads \cup {"bad", "none"}
  BY DecodeHeadFacts
<1> HIDE DEF d
<1>3. Loose(d.c) /\ (Timely(c) => Timely(d.c)) /\ d.c \in CtxType
  BY <1>1, DecodedLoose DEF Decoded
<1>4. d.item = "none" => \A k \in DOMAIN c.io.in : c.io.in[k] \notin Heads
  <2>1. c.io.in \in Seq(Tokens) /\ DOMAIN c.io.in = 1..Len(c.io.in)
    BY Parts DEF IoType
  <2> QED
    BY <1>1, <2>1 DEF Heads, Bodied, Expecting, Upgrading
<1>5. s \in Seq(Tokens) /\ Rest(s, t, n) /\ \A k \in 1..n : s[k] = c.io.in[k]
  <2>1. d.c.io.phase = c.io.phase
    BY <1>1 DEF Decoded
  <2>2. Rest(s, t, n) /\ \A k \in 1..n : s[k] = c.io.in[k]
    BY <1>1, <1>3, <2>1, RestRem
  <2> QED
    BY <2>2, RemFacts
<1>6. ASSUME Fit(c, left), Free(c)
      PROVE  /\ Base(d.c, left)
             /\ d.item = "none" => Fit(d.c, left)
             /\ d.item \in Bodied => InBody(t)
             /\ d.item \in Heads \ Bodied => AtHead(t)
  <2>1. Timely(c) /\ ~c.log.misread /\ AtHead(s) /\ c.tm.act # "Payload" /\ ~c.inner.pay
    BY <1>6 DEF Fit, Base, Free, Clean
  <2> HIDE DEF s, t
  <2>2. \A k \in 1..(n - 1) : s[k] = "part"
    BY <1>1, <1>5
  <2>3. ~m
    <3>1. SUFFICES ASSUME n # 0, s[n] \in {"data", "end"} PROVE FALSE
      BY <1>1, <1>5, <2>1
    <3>2. Carried(s, n) /\ n \in Nat
      BY <1>5, <2>1, <3>1 DEF AtHead, Rest
    <3> QED
      BY <2>2, <3>2 DEF Carried, Bodied, Expecting, Upgrading
  <2>4. d.item \in Bodied => InBody(t)
    BY <1>5, <2>1, <2>2, RestInBody DEF Bodied, Expecting, Upgrading
  <2>5. ASSUME d.item \in Heads \ Bodied PROVE AtHead(t)
    <3>1. \A k \in 1..n : s[k] = "part" \/ s[k] = d.item
      BY <1>1, <1>5, <2>2, <2>5 DEF Heads, Bodied, Expecting, Upgrading
    <3> QED
      BY <1>5, <2>1, <2>5, <3>1, RestAtHead DEF Bodied, Expecting, Upgrading
  <2>6. ASSUME d.item = "none" PROVE AtHead(t)
    <3>1. \A k \in 1..n : s[k] = "part"
      BY <1>1, <1>5, <2>6
    <3> QED
      BY <1>5, <2>1, <3>1, RestAtHead DEF Bodied, Expecting, Upgrading
  <2>7. Base(d.c, left)
    BY <1>1, <1>3, <2>1, <2>3 DEF Base, Decoded
  <2> QED
    BY <1>1, <2>1, <2>4, <2>5, <2>6, <2>7 DEF Fit, Clean, Decoded, t
<1> QED
  BY <1>1, <1>2, <1>3, <1>4, <1>6 DEF Decoded, d

LEMMA UpdateHdrsTimerClocked ==
  ASSUME NEW c \in CtxType, ~c.inner.pay, ~c.io.timeout PROVE Clocked(c, UpdateHdrsTimer(c))
BY StartHeadersClocked, StartKeepAliveClocked, ClockedSame DEF UpdateHdrsTimer

\* A request is counted, and says whether the connection persists.
Counted(c, kind, k) == [c EXCEPT !.log.reqs = @ + 1, !.inner.kind = kind, !.inner.keep = k]

LEMMA CountedFields ==
  ASSUME NEW c \in CtxType, NEW kind \in Heads, NEW k \in BOOLEAN
  PROVE  LET d == Counted(c, kind, k)
         IN /\ d \in CtxType /\ d.st = c.st /\ d.fut = c.fut /\ d.sc = c.sc /\ d.tm = c.tm
            /\ d.rx = c.rx /\ d.io = c.io /\ d.inner.kind = kind
            /\ d.inner.started = c.inner.started
            /\ d.inner.disc = c.inner.disc /\ d.inner.pend = c.inner.pend /\ d.inner.pay = c.inner.pay
            /\ d.log.open = c.log.open /\ d.log.reqs = c.log.reqs + 1 /\ d.log.resp = c.log.resp
            /\ d.log.mixed = c.log.mixed /\ d.log.told = c.log.told /\ d.log.stale = c.log.stale
            /\ d.log.misread = c.log.misread
<1> DEFINE q == c.log.reqs + 1
           n == [c.inner EXCEPT !.kind = kind, !.keep = k]
           l == [c.log EXCEPT !.reqs = q]
           d == [c EXCEPT !.inner = n, !.log = l]
<1>1. c.inner \in InnerType /\ c.log \in LogType
  BY Parts
<1>2. n \in InnerType /\ n.disc = c.inner.disc /\ n.pend = c.inner.pend /\ n.kind = kind
      /\ n.started = c.inner.started /\ n.pay = c.inner.pay
  BY <1>1 DEF InnerType
<1>3. q \in Nat
  BY <1>1 DEF LogType
<1>4. Counted(c, kind, k) = d
  BY DEF CtxType, Counted
<1> HIDE DEF q
<1>5. l \in LogType /\ l.reqs = q /\ l.resp = c.log.resp /\ l.open = c.log.open
      /\ l.mixed = c.log.mixed /\ l.told = c.log.told /\ l.stale = c.log.stale
      /\ l.misread = c.log.misread
  BY <1>1, <1>3 DEF LogType
<1> HIDE DEF n, l
<1>6. d \in CtxType /\ d.inner = n /\ d.log = l /\ d.io = c.io /\ d.sc = c.sc /\ d.tm = c.tm
      /\ d.rx = c.rx /\ d.st = c.st /\ d.fut = c.fut
  BY <1>2, <1>5 DEF CtxType
<1> HIDE DEF d
<1> QED
  BY <1>2, <1>4, <1>5, <1>6 DEF q

\* The payload's channel.
Channel(c) == [c EXCEPT !.inner.pay = TRUE, !.rx = [NoPayload EXCEPT !.alive = TRUE]]

LEMMA ChannelFields ==
  ASSUME NEW c \in CtxType
  PROVE  LET d == Channel(c)
         IN /\ d \in CtxType /\ d.st = c.st /\ d.fut = c.fut /\ d.sc = c.sc /\ d.tm = c.tm
            /\ d.io = c.io /\ d.log = c.log /\ d.rx.end = "none"
            /\ d.inner.started = c.inner.started /\ d.inner.keep = c.inner.keep
            /\ d.inner.disc = c.inner.disc /\ d.inner.pend = c.inner.pend /\ d.inner.pay
<1> DEFINE x == [NoPayload EXCEPT !.alive = TRUE]
           n == [c.inner EXCEPT !.pay = TRUE]
           d == [c EXCEPT !.inner = n, !.rx = x]
<1>1. c.inner \in InnerType
  BY Parts
<1>2. n \in InnerType /\ n.disc = c.inner.disc /\ n.pend = c.inner.pend /\ n.keep = c.inner.keep
      /\ n.started = c.inner.started /\ n.pay
  BY <1>1 DEF InnerType
<1>3. x \in RxType /\ x.end = "none"
  BY DEF NoPayload, RxType
<1>4. Channel(c) = d
  BY DEF CtxType, Channel
<1> HIDE DEF n, x
<1>5. d \in CtxType /\ d.inner = n /\ d.log = c.log /\ d.io = c.io /\ d.sc = c.sc /\ d.tm = c.tm
      /\ d.rx = x /\ d.st = c.st /\ d.fut = c.fut
  BY <1>2, <1>3 DEF CtxType
<1> HIDE DEF d
<1> QED
  BY <1>2, <1>3, <1>4, <1>5

\* Input that is taken from the buffer.
Fed(c, in) == [c EXCEPT !.io.in = in]

LEMMA FedFields ==
  ASSUME NEW c \in CtxType, NEW in \in Seq(Tokens)
  PROVE  LET d == Fed(c, in)
         IN /\ d \in CtxType /\ d.st = c.st /\ d.fut = c.fut /\ d.sc = c.sc /\ d.tm = c.tm
            /\ d.rx = c.rx /\ d.inner = c.inner /\ d.log = c.log /\ d.io.phase = c.io.phase
            /\ d.io.in = in /\ (Timely(c) => Timely(d))
<1> DEFINE i == [c.io EXCEPT !.in = in]
           d == With(c, c.tm, i, c.woken)
<1>1. c.io \in IoType /\ c.tm \in TmType /\ c.woken \in BOOLEAN
  BY Parts
<1>2. i \in IoType /\ i.phase = c.io.phase /\ i.in = in /\ i.timer = c.io.timer
      /\ i.timeout = c.io.timeout /\ i.for = c.io.for /\ i.exp = c.io.exp
  BY <1>1 DEF IoType
<1>3. Fed(c, in) = d
  BY DEF CtxType, Fed, With
<1> HIDE DEF i
<1>4. d \in CtxType /\ d.st = c.st /\ d.fut = c.fut /\ d.sc = c.sc /\ d.tm = c.tm
      /\ d.rx = c.rx /\ d.inner = c.inner /\ d.log = c.log /\ d.io = i
  BY <1>1, <1>2, WithFields
<1> HIDE DEF d
<1> QED
  BY <1>2, <1>3, <1>4 DEF Timely, TimelyAt

\* What follows the head is the payload of the request, if it has one.
Follows(c, kind, left) ==
  /\ Base(c, left) /\ Free(c)
  /\ kind \in Bodied => InBody(Rem(c, left))
  /\ kind \notin Bodied => AtHead(Rem(c, left))

LEMMA ReceivedGood ==
  ASSUME NEW c \in CtxType, NEW kind \in Heads, NEW left \in Seq(Tokens),
         Loose(c), ~c.log.open, c.log.resp <= c.log.reqs, ~c.inner.pay
  PROVE  LET d == Received(c, kind)
         IN /\ d \in CtxType /\ d.sc = c.sc /\ Framed(d) /\ (Follows(c, kind, left) => Kept(d, left))
            /\ Spares(c, d)
<1> DEFINE k == kind \notin {"bye"} \cup Upgrading /\ "keepalive" \in c.sc.limits
           a == Counted(c, kind, k)
           r == ResetTimers(a)
           b == Fed(r, AfterEnd(r.io.in))
           h == Channel(r)
           p == StartPayloadTimer(h)
           e == IF kind \notin Bodied THEN r ELSE IF Buffered(r) THEN b
                ELSE IF kind \in Expecting THEN h ELSE p
<1>1. k \in BOOLEAN /\ Received(c, kind) = Control(e, "request")
  BY DEF Received, Counted, Fed, Channel
<1> HIDE DEF k
<1>2. /\ a \in CtxType /\ a.sc = c.sc /\ a.tm = c.tm /\ a.io = c.io /\ a.rx = c.rx /\ a.inner.kind = kind
      /\ a.inner.disc = c.inner.disc /\ a.inner.pend = c.inner.pend /\ a.inner.pay = c.inner.pay
      /\ a.inner.started = c.inner.started /\ a.log.open = c.log.open
      /\ a.log.reqs = c.log.reqs + 1 /\ a.log.resp = c.log.resp /\ a.log.mixed = c.log.mixed
      /\ a.log.told = c.log.told /\ a.log.stale = c.log.stale /\ a.log.misread = c.log.misread
  BY <1>1, CountedFields
<1> HIDE DEF a
<1>3. Loose(a) /\ ~a.log.open /\ a.log.resp < a.log.reqs /\ ~a.inner.pay
  BY <1>2, Counts DEF Loose, Sent, Whole, Headless
<1>4. Timely(c) => Resets(a)
  BY <1>2 DEF Timely, TimelyAt, Resets, IsWrite
<1>5. /\ Moves(a, r) /\ r \in CtxType /\ r.inner = a.inner /\ r.log = a.log /\ r.sc = c.sc
      /\ r.tm.act \in {"Write", "Idle", "Stopped"} /\ (Timely(c) => Timely(r))
      /\ r.io.in = c.io.in /\ r.io.phase = c.io.phase
  BY <1>2, <1>4, ResetTimersMoves DEF Moves
<1> HIDE DEF r
<1>6. Loose(r) /\ ~r.log.open /\ r.log.resp < r.log.reqs /\ ~r.inner.pay /\ r.log.told = c.log.told
  BY <1>2, <1>3, <1>5, MovesLoose
<1>7. Follows(c, kind, left) => /\ Follows(r, kind, left) /\ r.tm.act # "Payload"
                                /\ r.inner.pend = "none"
  BY <1>2, <1>5, <1>6 DEF Follows, Base, Free, Rem, Gone
<1>8. CASE kind \notin Bodied
  <2>1. e = r
    BY <1>8
  <2>2. Follows(r, kind, left) /\ r.tm.act # "Payload" => Fit(r, left)
    BY <1>8 DEF Follows, Fit, Clean
  <2> HIDE DEF e
  <2> QED
    BY <1>1, <1>5, <1>6, <1>7, <2>1, <2>2, ControlGood DEF Asked, Spares
<1>9. CASE kind \in Bodied /\ Buffered(r)
  <2>1. e = b
    BY <1>9
  <2>2. r.io.in \in Seq(Tokens)
    BY <1>5, RemFacts
  <2>3. PICK n \in Nat : Rest(r.io.in, AfterEnd(r.io.in), n) /\ n # 0 /\ r.io.in[n] = "end"
    BY <1>9, <2>2, AfterEndFacts DEF Buffered
  <2>4. AfterEnd(r.io.in) \in Seq(Tokens)
    BY <2>3 DEF Rest
  <2>5. /\ b \in CtxType /\ b.sc = r.sc /\ b.tm = r.tm /\ b.rx = r.rx /\ b.inner = r.inner
        /\ b.log = r.log /\ b.io.phase = r.io.phase /\ b.io.in = AfterEnd(r.io.in)
        /\ (Timely(r) => Timely(b))
    BY <1>5, <2>4, FedFields
  <2> HIDE DEF b, e
  <2>6. Loose(b)
    BY <1>6, <2>5 DEF Loose, Sent, Whole, Headless
  <2>7. Rest(Rem(r, left), Rem(b, left), n) /\ \A m \in 1..n : Rem(r, left)[m] = r.io.in[m]
    BY <1>5, <2>3, <2>5, RestRem
  <2>8. Follows(r, kind, left) => AtHead(Rem(b, left))
    <3>1. n \in 1..n /\ Rem(r, left) \in Seq(Tokens)
      BY <1>5, <2>3, RemFacts
    <3> QED
      BY <1>9, <2>3, <2>7, <3>1, RestEnded DEF Follows
  <2>9. Follows(r, kind, left) /\ r.tm.act # "Payload" => Fit(b, left)
    BY <1>6, <2>5, <2>8 DEF Follows, Fit, Clean, Base, Free
  <2> QED
    BY <1>1, <1>5, <1>6, <1>7, <2>1, <2>5, <2>6, <2>9, ControlGood DEF Asked, Spares
<1>10. CASE kind \in Bodied /\ ~Buffered(r)
  <2>1. e = h \/ e = p
    BY <1>10
  <2> HIDE DEF e
  <2>2. /\ h \in CtxType /\ h.sc = r.sc /\ h.tm = r.tm /\ h.io = r.io /\ h.log = r.log
        /\ h.rx.end = "none" /\ h.inner.started = r.inner.started /\ h.inner.disc = r.inner.disc
        /\ h.inner.pend = r.inner.pend /\ h.inner.pay
    BY <1>5, ChannelFields
  <2> HIDE DEF h
  <2>3. Loose(h)
    BY <1>5, <1>6, <2>2 DEF Loose, Sent, Whole, Headless
  <2>4. Follows(r, kind, left) => Fit(h, left)
    BY <1>10, <2>2 DEF Follows, Fit, Base, Free, Rem, Gone, Timely
  <2>5. Clocked(h, p) /\ Moves(h, p) /\ p \in CtxType /\ p.sc = r.sc /\ p.log = r.log /\ p.inner = h.inner
        /\ (Timely(h) => Timely(p))
    BY <2>2, StartPayloadTimerClocked DEF Clocked, Moves
  <2> HIDE DEF p
  <2>6. Loose(p) /\ (Fit(h, left) => Fit(p, left))
    BY <2>2, <2>3, <2>5, MovesLoose, MovesFit
  <2>7. e \in CtxType /\ e.sc = r.sc /\ e.log = r.log /\ Loose(e) /\ (Fit(h, left) => Fit(e, left))
    BY <2>1, <2>2, <2>3, <2>5, <2>6
  <2> QED
    BY <1>1, <1>5, <1>6, <1>7, <2>4, <2>7, ControlGood DEF Asked, Spares
<1> QED
  BY <1>8, <1>9, <1>10

-----------------------------------------------------------------------------
(* The inductive invariant *)

\* Where the parts of a poll are in each state.
Places ==
  /\ pc \in {"payload", "return"} => st \in {"publish", "control", "payload", "send"}
  /\ pc = "send" => st = "send"
  /\ pc = "payload" /\ pl.hold # "start" => inner.pay

\* Holds whatever the control service does.
Sound == TypeOK /\ Framed(Ctx) /\ Places

\* An expiry that waits for the buffered input is that of the timer in use.
Held(c) == c.tm.act # "PayloadPaused" /\ Due(c)

\* Holds unless the control service rejects requests.  Where a failed payload is
\* about to be reported, the rest of the input may be anything.
Settled ==
  IF pc = "return" /\ Failed
  THEN /\ Base(Ctx, env.left) /\ ~inner.pay /\ inner.pend = "none"
       /\ st = "control" /\ fut.res = "fail" => fut.what # "request"
  ELSE Kept(Ctx, env.left) /\ (pc = "payload" /\ pl.hold = "timeout" => Held(Ctx))

\* What a step may do to an idle connection.
Idles ==
  inner'.keep /\ log.told' # log.told /\ fut'.what = "keepalive" =>
    \A i \in DOMAIN io.in : io.in[i] \notin Heads

\* What every action is shown to do.
Keeps == Sound' /\ sc' = sc /\ (Settled /\ ~sc.rejects => Settled') /\ Idles

\* d is a context that a step may go to.
Good(d) ==
  /\ d \in CtxType /\ d.sc = sc /\ Framed(d) /\ (Settled /\ ~sc.rejects => Kept(d, env.left))
  /\ Spares(Ctx, d)

LEMMA CtxIs ==
  ASSUME NEW d, Becomes(d), sc' = sc, d \in CtxType, d.sc = sc PROVE Ctx' = d
BY DEF Becomes, Ctx, CtxType

LEMMA SparesIdles ==
  ASSUME NEW d, Ctx' = d, Spares(Ctx, d) PROVE Idles
<1>1. inner' = d.inner /\ log' = d.log /\ fut' = d.fut /\ log = Ctx.log
  BY DEF Ctx
<1> QED
  BY <1>1 DEF Spares, Idles

LEMMA CtxFields ==
  /\ Ctx.st = st /\ Ctx.inner = inner /\ Ctx.tm = tm /\ Ctx.io = io /\ Ctx.rx = rx /\ Ctx.fut = fut
  /\ Ctx.log = log /\ Ctx.woken = woken /\ Ctx.sc = sc
BY DEF Ctx

PlType ==
  [hold : {"none", "start", "full", "timeout"}, updated : BOOLEAN,
   res : {"none", "ok", "pending", "proto", "gone"}]
EnvType == [left : Seq(Tokens), fills : Nat, busy : Nat, pauses : Nat, shutdown : BOOLEAN]

\* A step to d, with what follows for the place of the poll.
LEMMA StepKeeps ==
  ASSUME NEW d, Good(d), Becomes(d), sc' = sc, pl' \in PlType,
         env' \in EnvType, env'.left = env.left, svc' \in {"ready", "busy", "failed"},
         pc' \in {"idle", "run", "payload", "return", "send"},
         pc' \in {"payload", "return"} => d.st \in {"publish", "control", "payload", "send"},
         pc' = "send" => d.st = "send",
         pc' = "payload" /\ pl'.hold # "start" => d.inner.pay,
         Settled /\ pc' = "payload" /\ pl'.hold = "timeout" => Held(d),
         pc' = "return" => pl'.res \notin {"proto", "gone"}
  PROVE  Keeps
<1>1. Ctx' = d /\ d \in CtxType /\ Framed(d) /\ Spares(Ctx, d)
  BY CtxIs DEF Good
<1>2. d.st = st' /\ d.inner = inner'
  BY <1>1 DEF Ctx
<1>3. TypeOK'
  BY <1>1 DEF TypeOK, PlType, EnvType
<1>4. Framed(Ctx)' /\ Places'
  BY <1>1, <1>2 DEF Places
<1>5. Settled /\ ~sc.rejects => Settled'
  BY <1>1 DEF Settled, Good, Failed
<1> QED
  BY <1>1, <1>3, <1>4, <1>5, SparesIdles DEF Keeps, Sound

LEMMA SoundTypes ==
  ASSUME Sound
  PROVE  /\ Ctx \in CtxType /\ Framed(Ctx) /\ pl \in PlType /\ env \in EnvType
         /\ svc \in {"ready", "busy", "failed"} /\ env.left \in Seq(Tokens)
         /\ Ctx.sc = sc /\ (st \notin {"stop", "done"} => Loose(Ctx))
<1>1. Ctx \in CtxType /\ Framed(Ctx) /\ pl \in PlType /\ env \in EnvType
      /\ svc \in {"ready", "busy", "failed"}
  BY DEF Sound, TypeOK, PlType, EnvType
<1>2. st \notin {"stop", "done"} => Loose(Ctx)
  BY <1>1, CtxFields, FramedIsLoose DEF Ended
<1> QED
  BY <1>1, <1>2, CtxFields DEF EnvType

LEMMA GoesKeeps ==
  ASSUME Sound, NEW d, Goes(d) \/ Waits(d), Good(d) PROVE Keeps
BY StepKeeps, SoundTypes DEF Goes, Waits

LEMMA SpendsType ==
  ASSUME NEW fills, env \in EnvType, Spends(fills), fills => env.fills > 0
  PROVE  env' \in EnvType /\ env'.left = env.left
BY DEF Spends, EnvType

LEMMA SendsKeeps ==
  ASSUME Sound, NEW d, NEW fills, Sends(d, fills), fills => env.fills > 0, Good(d) PROVE Keeps
<1>1. env' \in EnvType /\ env'.left = env.left
  BY SoundTypes, SpendsType DEF Sends
<1> QED
  BY <1>1, StepKeeps, SoundTypes DEF Sends

LEMMA ReturnsKeeps ==
  ASSUME Sound, NEW d, NEW res \in {"ok", "pending"}, Returns(d, res), Good(d),
         d.st \in {"publish", "control", "payload", "send"}
  PROVE  Keeps
<1>1. pl' \in PlType /\ pl'.res = res
  BY SoundTypes DEF Returns, PlType
<1> QED
  BY <1>1, StepKeeps, SoundTypes DEF Returns

\* The failure of a payload.
LEMMA FailsKeeps ==
  ASSUME Sound, NEW d, NEW res \in {"proto", "gone"}, Returns(d, res),
         d \in CtxType, d.sc = sc, Framed(d), Spares(Ctx, d),
         d.st \in {"publish", "control", "payload", "send"},
         Settled => /\ Base(d, env.left) /\ ~d.inner.pay /\ d.inner.pend = "none"
                    /\ d.st = "control" /\ d.fut.res = "fail" => d.fut.what # "request"
  PROVE  Keeps
<1>1. pl' \in PlType /\ pl'.res = res
  BY SoundTypes DEF Returns, PlType
<1>2. Ctx' = d /\ pc' = "return" /\ UNCHANGED <<svc, env, sc>>
  BY CtxIs DEF Returns
<1>3. d.st = st' /\ d.inner = inner' /\ d.fut = fut'
  BY <1>2 DEF Ctx
<1>4. TypeOK'
  BY <1>1, <1>2, SoundTypes DEF TypeOK, PlType, EnvType
<1>5. Framed(Ctx)' /\ Places'
  BY <1>2, <1>3 DEF Places
<1>6. Settled => Settled'
  BY <1>1, <1>2, <1>3 DEF Settled, Failed
<1> QED
  BY <1>2, <1>4, <1>5, <1>6, SparesIdles DEF Keeps, Sound

LEMMA LoopsKeeps ==
  ASSUME Sound, NEW d, NEW hold \in {"none", "full", "timeout"}, NEW updated \in BOOLEAN,
         Loops(d, hold, updated), Good(d), d.st \in {"publish", "control", "payload", "send"},
         d.inner.pay, Settled /\ hold = "timeout" => Held(d)
  PROVE  Keeps
<1>1. pl' \in PlType
  BY SoundTypes DEF Loops, PlType
<1> QED
  BY <1>1, StepKeeps, SoundTypes DEF Loops

LEMMA SendingKeeps ==
  ASSUME Sound, NEW d, Sending(d), Good(d), d.st = "send" PROVE Keeps
BY StepKeeps, SoundTypes DEF Sending

\* Between two polls.
LEMMA OutsideKeeps ==
  ASSUME Sound, NEW d, Outside(d), Good(d), env' \in EnvType, env'.left = env.left,
         svc' \in {"ready", "busy", "failed"}
  PROVE  Keeps
BY StepKeeps, SoundTypes DEF Outside

\* The current context is one to go to, where it is not to report a failure.
LEMMA CtxGood ==
  ASSUME Sound, ~(pc = "return" /\ Failed) PROVE Good(Ctx)
BY SoundTypes DEF Good, Settled, Spares

LEMMA BecomesSame == ASSUME UNCHANGED disp PROVE Becomes(Ctx)
BY DEF disp, Becomes, Ctx

\* The payload is polled.
LEMMA PollsKeeps ==
  ASSUME Sound, pc = "run", st \in {"publish", "control", "payload", "send"}, pc' = "payload",
         pl' = [hold |-> "start", updated |-> FALSE, res |-> "none"], UNCHANGED <<disp, svc, env, sc>>
  PROVE  Keeps
<1>1. pl' \in PlType /\ pl'.hold = "start"
  BY DEF PlType
<1>2. Becomes(Ctx) /\ Good(Ctx) /\ Ctx.st = st
  BY BecomesSame, CtxGood, CtxFields
<1> QED
  BY <1>1, <1>2, StepKeeps, SoundTypes

LEMMA SettledBase == ASSUME Settled PROVE Base(Ctx, env.left)
BY DEF Settled, Kept

\* Only timers and the transport change.
LEMMA GoodMoves ==
  ASSUME Sound, ~(pc = "return" /\ Failed), NEW d, Moves(Ctx, d),
         Settled /\ Timely(Ctx) => Timely(d), d.inner.pay = Ctx.inner.pay
  PROVE  Good(d)
<1>1. Ctx \in CtxType /\ Framed(Ctx) /\ Ctx.sc = sc
  BY SoundTypes
<1>2. Framed(d) /\ d \in CtxType /\ d.sc = sc /\ Spares(Ctx, d)
  BY <1>1, MovesFramed DEF Moves, Spares
<1>3. Settled => Kept(d, env.left)
  <2>1. Settled => Kept(Ctx, env.left)
    BY DEF Settled
  <2> QED
    BY <1>1, <2>1, MovesKept
<1> QED
  BY <1>2, <1>3 DEF Good

LEMMA GoodClocked ==
  ASSUME Sound, ~(pc = "return" /\ Failed), NEW d, Clocked(Ctx, d) PROVE Good(d)
BY GoodMoves DEF Clocked

\* The connection is ended.
LEMMA GoodEnds ==
  ASSUME Sound, st \notin {"stop", "done"}, NEW c, Moves(Ctx, c), Timely(Ctx) => Timely(c),
         NEW msg \in Msgs, NEW d, Ends(c, d, msg), msg = "error" => ~log.open,
         msg = "keepalive" => ~inner.keep
  PROVE  Good(d)
<1>1. Ctx \in CtxType /\ Loose(Ctx) /\ Ctx.sc = sc /\ Ctx.log = log /\ Ctx.inner = inner
  BY SoundTypes, CtxFields
<1>2. c \in CtxType /\ c.sc = sc /\ Loose(c) /\ c.log.open = log.open /\ c.inner.keep = inner.keep
      /\ c.log.told = log.told
  BY <1>1, MovesLoose DEF Moves
<1>3. Settled => Base(c, env.left)
  BY <1>1, SettledBase, MovesBase
<1>4. /\ d \in CtxType /\ d.sc = c.sc /\ Framed(d) /\ (Base(c, env.left) => Kept(d, env.left))
      /\ Spares(c, d)
  BY <1>2, EndsGood
<1> QED
  BY <1>1, <1>2, <1>3, <1>4 DEF Good, Spares

LEMMA MovesSame == ASSUME Sound PROVE Moves(Ctx, Ctx) /\ Clocked(Ctx, Ctx)
BY SoundTypes, ClockedSame DEF Clocked

\* The service or the peer ends it, whatever the timers do.
LEMMA CtlGood ==
  ASSUME Sound, st \notin {"stop", "done"}, NEW c, Moves(Ctx, c), Timely(Ctx) => Timely(c)
  PROVE  /\ Good(CtlPeerGone(c)) /\ Good(CtlProtoErr(c)) /\ Good(CtlSvcDisconnect(c))
         /\ Good(CheckDisconnect(c)) /\ (~log.open => Good(CtlError(c)))
         /\ (~inner.keep => Good(CtlKeepAlive(c)))
<1>1. c \in CtxType
  BY DEF Moves
<1>2. Ends(c, CtlPeerGone(c), "gone") /\ Ends(c, CtlProtoErr(c), "proto")
      /\ Ends(c, CtlError(c), "error") /\ Ends(c, CtlKeepAlive(c), "keepalive")
      /\ Ends(c, CtlSvcDisconnect(c), "service") /\ Ends(c, CheckDisconnect(c), "service")
  BY <1>1, CtlEnds, CheckDisconnectEnds
<1> QED
  BY <1>2, GoodEnds DEF Msgs

LEMMA KeptFit ==
  ASSUME NEW c, NEW left, Kept(c, left), ~Ended(c), c.st # "control"
  PROVE  Fit(c, left) /\ Reports(c)
BY DEF Kept, Fit, Reports

-----------------------------------------------------------------------------
(* The turns of the poll *)

LEMMA PollStartsKeeps == ASSUME Sound, PollStarts PROVE Keeps
<1> DEFINE d == [Ctx EXCEPT !.woken = FALSE]
<1>1. Ctx \in CtxType /\ Ctx.io \in IoType /\ Ctx.tm \in TmType
  BY SoundTypes, Parts
<1>2. d = With(Ctx, Ctx.tm, Ctx.io, FALSE)
  BY <1>1 DEF CtxType, With
<1>3. Clocked(Ctx, d)
  BY <1>1, <1>2, IoClocked
<1>4. Goes(d) /\ pc # "return"
  BY DEF PollStarts
<1> HIDE DEF d
<1> QED
  BY <1>3, <1>4, GoodClocked, GoesKeeps

LEMMA PublishDoneKeeps == ASSUME Sound, PublishDone PROVE Keeps
<1>1. pc = "run" /\ st = "publish" /\ Ctx \in CtxType /\ Loose(Ctx) /\ Ctx.sc = sc /\ Framed(Ctx)
      /\ Ctx.st = "publish" /\ Ctx.log = log
  BY SoundTypes, CtxFields DEF PublishDone, Turn
<1>2. PICK fills \in BOOLEAN :
        /\ MayFill(fills)
        /\ Sends(IF fut.res = "err" THEN CtlError(Ctx) ELSE SendResponse(Ctx, fut.res, fills),
                 fills /\ fut.res \notin {"err", "broken"})
  BY DEF PublishDone
<1>3. ~log.open /\ Ctx.log.resp < Ctx.log.reqs
  BY <1>1 DEF Framed
<1>4. Good(CtlError(Ctx))
  BY <1>1, <1>3, MovesSame, CtlGood
<1>5. Good(SendResponse(Ctx, fut.res, fills))
  <2>1. Ctx.log.resp + 1 <= Ctx.log.reqs + Sent(Ctx)
    BY <1>1, <1>3, Counts
  <2>2. Settled => Fit(Ctx, env.left) /\ Reports(Ctx)
    BY <1>1, KeptFit DEF Settled, Ended
  <2> QED
    BY <1>1, <1>2, <1>3, <2>1, <2>2, SendResponseGood DEF Good
<1> QED
  BY <1>2, <1>4, <1>5, SendsKeeps DEF MayFill

LEMMA PollRequestKeeps == ASSUME Sound, PollRequest PROVE Keeps
<1> DEFINE c == Registered(Ctx)
           expired == WriteTimerExpired(Noted(c))
           n == [c EXCEPT !.io.full = FALSE]
<1>1. pc = "run" /\ st = "publish" /\ Ctx \in CtxType /\ Loose(Ctx) /\ Ctx.st = "publish" /\ Ctx.io = io
      /\ io \in IoType
  BY SoundTypes, CtxFields, Parts DEF PollRequest, Turn
<1>2. CASE inner.pay
  BY <1>1, <1>2, PollsKeeps DEF PollRequest
<1>3. CASE ~inner.pay /\ inner.pend # "none"
  <2>1. Goes(TakePayloadError(Ctx))
    BY <1>3 DEF PollRequest
  <2>2. Good(TakePayloadError(Ctx))
    BY <1>1, SoundTypes, SettledBase, TakePayloadErrorGood DEF Good
  <2> QED
    BY <2>1, <2>2, GoesKeeps
<1>4. CASE ~inner.pay /\ inner.pend = "none"
  <2>1. Clocked(Ctx, c) /\ c \in CtxType /\ c.tm = Ctx.tm /\ c.io = [io EXCEPT !.waker = TRUE]
        /\ c.inner = Ctx.inner /\ Moves(Ctx, c) /\ (Timely(Ctx) => Timely(c))
    BY <1>1, RegisteredClocked DEF Clocked, Moves
  <2>2. c.io.timeout = io.timeout
    BY <1>1, <2>1 DEF IoType
  <2>3. \/ Goes(CtlPeerGone(c))
        \/ io.timeout /\ IsWrite(c) /\ WriteTimerFails(c) /\ Goes(CtlPeerGone(expired))
        \/ io.timeout /\ IsWrite(c) /\ ~WriteTimerFails(c) /\ Waits(expired)
        \/ Waits(Noted(c)) \/ Waits(StartWrite(c)) \/ Waits(ReleaseWrite(n))
    BY <1>4 DEF PollRequest, Noted
  <2> HIDE DEF c
  <2>4. Clocked(Ctx, Noted(c)) /\ Clocked(Ctx, StartWrite(c))
    BY <1>1, <2>1, NotedClocked, StartWriteClocked, ClockedTwice
  <2>5. Clocked(Ctx, n) /\ n \in CtxType
    BY <1>1, <2>1, DrainedClocked, ClockedTwice DEF Clocked, Moves
  <2> HIDE DEF n
  <2>6. Clocked(Ctx, ReleaseWrite(n))
    BY <1>1, <2>5, ReleaseWriteClocked, ClockedTwice
  <2>7. Good(CtlPeerGone(c)) /\ Good(Noted(c)) /\ Good(StartWrite(c)) /\ Good(ReleaseWrite(n))
    BY <1>1, <2>1, <2>4, <2>6, CtlGood, GoodClocked
  <2>8. ASSUME io.timeout, IsWrite(c)
        PROVE  Moves(Ctx, expired) /\ (Timely(Ctx) => Timely(expired))
               /\ (~WriteTimerFails(c) => expired.inner.pay = Ctx.inner.pay)
    BY <1>1, <2>1, <2>2, <2>8, ExpiredMoves, MovesTwice
  <2> HIDE DEF expired
  <2>9. io.timeout /\ IsWrite(c) => /\ Good(CtlPeerGone(expired))
                                    /\ ~WriteTimerFails(c) => Good(expired)
    BY <1>1, <2>8, CtlGood, GoodMoves
  <2> QED
    BY <2>3, <2>7, <2>9, GoesKeeps
<1> QED
  BY <1>2, <1>3, <1>4

LEMMA ControlDoneKeeps == ASSUME Sound, ControlDone PROVE Keeps
<1>1. pc = "run" /\ st = "control" /\ Ctx \in CtxType /\ Framed(Ctx) /\ Ctx.st = "control"
      /\ Ctx.sc = sc /\ Ctx.fut = fut
  BY SoundTypes, CtxFields DEF ControlDone, Turn
<1>2. PICK res \in {"empty", "body"}, fills \in BOOLEAN :
        /\ MayFill(fills)
        /\ LET c(f) == IF fut.res = "ack" THEN ControlAck(Ctx, res, f) ELSE ControlFail(Ctx, res, f)
           IN Sends(c(fills), c(fills) # c(FALSE))
  BY DEF ControlDone
<1> DEFINE d(f) == IF fut.res = "ack" THEN ControlAck(Ctx, res, f) ELSE ControlFail(Ctx, res, f)
<1>3. Sends(d(fills), d(fills) # d(FALSE))
  BY <1>2
<1>4. d(fills) # d(FALSE) => env.fills > 0
  BY <1>2 DEF MayFill
<1>5. Settled => Kept(Ctx, env.left)
  BY <1>1 DEF Settled
<1>6. Good(d(fills))
  <2>1. CASE fut.res = "ack"
    BY <1>1, <1>5, <2>1, ControlAckGood DEF Good
  <2>2. CASE fut.res = "fail"
    BY <1>1, <1>5, <2>2, ControlFailGood DEF Good
  <2> QED
    BY <2>1, <2>2 DEF ControlDone
<1> HIDE DEF d
<1> QED
  BY <1>3, <1>4, <1>6, SendsKeeps

\* The transport is taken: nothing more is read.
LEMMA TakeIoFields ==
  ASSUME NEW c \in CtxType
  PROVE  LET d == TakeIo(c)
         IN /\ d \in CtxType /\ d.st = c.st /\ d.fut = c.fut /\ d.sc = c.sc /\ d.tm = c.tm
            /\ d.inner = c.inner /\ d.rx = c.rx /\ d.log = c.log
            /\ d.io.phase = "gone" /\ d.io.in = <<>> /\ (Timely(c) => Timely(d))
<1> DEFINE i == [c.io EXCEPT !.timer = "none", !.timeout = FALSE, !.phase = "gone", !.in = <<>>,
                             !.full = FALSE, !.waker = FALSE, !.eof = FALSE]
           d == With(c, c.tm, i, c.woken)
<1>1. c.io \in IoType /\ c.tm \in TmType /\ c.woken \in BOOLEAN /\ <<>> \in Seq(Tokens)
  BY Parts
<1>2. i \in IoType /\ i.phase = "gone" /\ i.in = <<>> /\ i.timer = "none" /\ ~i.timeout
      /\ i.for = c.io.for /\ i.exp = c.io.exp
  BY <1>1 DEF IoType
<1>3. TakeIo(c) = d
  BY DEF CtxType, TakeIo, IoStopTimer, With
<1> HIDE DEF i
<1>4. d \in CtxType /\ d.st = c.st /\ d.fut = c.fut /\ d.sc = c.sc /\ d.tm = c.tm
      /\ d.rx = c.rx /\ d.inner = c.inner /\ d.log = c.log /\ d.io = i
  BY <1>1, <1>2, WithFields
<1> HIDE DEF d
<1> QED
  BY <1>2, <1>3, <1>4 DEF Timely, TimelyAt

LEMMA EmptyFits == AtHead(<<>>) /\ InBody(<<>>)
BY DEF AtHead, InBody

LEMMA TakeIoGood ==
  ASSUME NEW c \in CtxType, NEW left
  PROVE  /\ Loose(c) => Loose(TakeIo(c))
         /\ Framed(c) => Framed(TakeIo(c))
         /\ Base(c, left) => Base(TakeIo(c), left)
         /\ Kept(c, left) => Kept(TakeIo(c), left)
<1> DEFINE d == TakeIo(c)
<1>1. /\ d \in CtxType /\ d.st = c.st /\ d.fut = c.fut /\ d.sc = c.sc /\ d.tm = c.tm
      /\ d.inner = c.inner /\ d.rx = c.rx /\ d.log = c.log
      /\ d.io.phase = "gone" /\ d.io.in = <<>> /\ (Timely(c) => Timely(d))
  BY TakeIoFields
<1> HIDE DEF d
<1>2. Loose(c) => Loose(d)
  BY <1>1 DEF Loose, Sent, Whole, Headless
<1>3. Framed(c) => Framed(d)
  BY <1>1 DEF Framed, Sent, Whole, Headless, Ended
<1>4. Rem(d, left) = <<>>
  BY <1>1 DEF Rem, Gone
<1>5. Base(c, left) => Base(d, left)
  BY <1>1, <1>4, EmptyFits DEF Base
<1>6. Kept(c, left) => Kept(d, left)
  BY <1>1, <1>4, <1>5, EmptyFits DEF Kept, Free, Clean, Ended
<1> QED
  BY <1>2, <1>3, <1>5, <1>6 DEF d

LEMMA ControlHandledKeeps == ASSUME Sound, ControlHandled PROVE Keeps
<1> DEFINE c == TakeIo(Ctx)
<1>1. pc = "run" /\ st = "control" /\ Ctx \in CtxType /\ Ctx.sc = sc /\ Loose(Ctx)
      /\ Goes(CtlSvcDisconnect(c))
  BY SoundTypes DEF ControlHandled, Turn
<1>2. c \in CtxType /\ c.sc = sc /\ Loose(c) /\ (Settled => Base(c, env.left)) /\ c.log = Ctx.log
  BY <1>1, TakeIoFields, TakeIoGood, SettledBase
<1> HIDE DEF c
<1>3. Ends(c, CtlSvcDisconnect(c), "service") /\ "service" \in Msgs
  BY <1>2, CtlEnds DEF Msgs
<1>4. Good(CtlSvcDisconnect(c))
  BY <1>2, <1>3, EndsGood DEF Good, Spares
<1> QED
  BY <1>1, <1>4, GoesKeeps

\* The dispatcher is dropped with what it holds.
LEMMA DropGood ==
  ASSUME Sound, pc # "return" PROVE Good(DropDispatcher(Ctx))
<1> DEFINE c == SetPayloadError(Ctx)
           d == At(c, "done")
<1>1. Ctx \in CtxType /\ Framed(Ctx) /\ Ctx.sc = sc
  BY SoundTypes
<1>2. Moves(Ctx, c) /\ c \in CtxType /\ ~c.inner.pay /\ c.log = Ctx.log /\ c.tm = Ctx.tm
      /\ c.io = Ctx.io /\ (Timely(Ctx) => Timely(c)) /\ c.sc = sc
  BY <1>1, SetPayloadErrorMoves DEF Moves, Timely
<1>3. DropDispatcher(Ctx) = d /\ "done" \in States
  BY DEF DropDispatcher, At, States
<1> HIDE DEF c
<1>4. Framed(c) /\ (Settled => Base(c, env.left))
  BY <1>1, <1>2, MovesFramed, SettledBase, MovesBase
<1>5. /\ d \in CtxType /\ d.st = "done" /\ d.fut = c.fut /\ d.sc = c.sc /\ d.tm = c.tm /\ d.io = c.io
      /\ d.inner = c.inner /\ d.rx = c.rx /\ d.log = c.log
  BY <1>2, <1>3, AtFields
<1> HIDE DEF d
<1>6. Framed(d)
  BY <1>4, <1>5 DEF Framed, Sent, Whole, Headless, Ended
<1>7. Base(c, env.left) => Kept(d, env.left)
  BY <1>5 DEF Base, Kept, Rem, Gone, Ended, Timely
<1> QED
  BY <1>2, <1>3, <1>4, <1>5, <1>6, <1>7 DEF Good, Spares, c

LEMMA ControlFailsKeeps == ASSUME Sound, ControlFails PROVE Keeps
BY DropGood, GoesKeeps DEF ControlFails, Turn

LEMMA ControlPendingKeeps == ASSUME Sound, ControlPending PROVE Keeps
<1>1. pc = "run" /\ st = "control"
  BY DEF ControlPending, Turn
<1>2. CASE inner.pend = "none" /\ inner.pay
  BY <1>1, <1>2, PollsKeeps DEF ControlPending
<1>3. CASE ~(inner.pend = "none" /\ inner.pay)
  BY <1>1, <1>3, CtxGood, GoesKeeps DEF ControlPending
<1> QED
  BY <1>2, <1>3

LEMMA ReadPayloadKeeps == ASSUME Sound, ReadPayload PROVE Keeps
BY PollsKeeps DEF ReadPayload, Turn

\* A close is started.
LEMMA CloseGood ==
  ASSUME Sound, pc # "return"
  PROVE  Good(Close(Ctx))
<1> DEFINE c == Close(Ctx)
<1>1. Ctx \in CtxType /\ Framed(Ctx) /\ Ctx.sc = sc
  BY SoundTypes
<1>2. /\ c \in CtxType /\ c.st = Ctx.st /\ c.fut = Ctx.fut /\ c.sc = Ctx.sc /\ c.tm = Ctx.tm
      /\ c.inner = Ctx.inner /\ c.rx = Ctx.rx /\ c.log = Ctx.log
      /\ c.io.in = Ctx.io.in /\ (c.io.phase = "gone" <=> Ctx.io.phase = "gone")
      /\ (Timely(Ctx) => Timely(c))
  BY <1>1, CloseFields
<1> HIDE DEF c
<1>3. Framed(c)
  BY <1>1, <1>2 DEF Framed, Sent, Whole, Headless, Ended
<1>4. Kept(Ctx, env.left) => Kept(c, env.left)
  BY <1>2 DEF Kept, Base, Free, Clean, Rem, Gone, Ended
<1> QED
  BY <1>1, <1>2, <1>3, <1>4 DEF Good, Spares, Settled, c

\* A step to a context goes on with its timers and its transport.
LEMMA GoodOn ==
  ASSUME NEW c, Good(c), NEW d, Clocked(c, d) PROVE Good(d)
<1>1. c \in CtxType /\ Framed(c) /\ Moves(c, d) /\ d.inner = c.inner /\ (Timely(c) => Timely(d))
  BY DEF Good, Clocked
<1>2. Framed(d) /\ (Kept(c, env.left) => Kept(d, env.left))
  BY <1>1, MovesFramed, MovesKept
<1> QED
  BY <1>1, <1>2 DEF Good, Moves, Spares

LEMMA StopTurnKeeps == ASSUME Sound, StopTurn PROVE Keeps
<1> DEFINE c == Close(Ctx)
           d == [c EXCEPT !.io.paused = FALSE]
<1>1. pc = "run"
  BY DEF StopTurn, Turn
<1>2. CASE Gone(Ctx)
  BY <1>1, <1>2, DropGood, GoesKeeps DEF StopTurn
<1>3. CASE ~Gone(Ctx)
  <2>1. Waits(Registered(d))
    BY <1>3 DEF StopTurn
  <2>2. Good(c)
    BY <1>1, CloseGood
  <2> HIDE DEF c
  <2>3. Clocked(c, d)
    BY <2>2, PausedClocked DEF Good
  <2>4. Good(d) /\ d \in CtxType
    BY <2>2, <2>3, GoodOn DEF Good
  <2> HIDE DEF d
  <2>5. Good(Registered(d))
    BY <2>4, RegisteredClocked, GoodOn
  <2> QED
    BY <2>1, <2>5, GoesKeeps
<1> QED
  BY <1>2, <1>3

LEMMA ReadEndsKeeps == ASSUME Sound, ReadEnds PROVE Keeps
BY MovesSame, CtlGood, GoesKeeps DEF ReadEnds, Turn

LEMMA ReadFacts ==
  ASSUME Sound, Reading
  PROVE  /\ pc = "run" /\ st = "read" /\ Ctx \in CtxType /\ Loose(Ctx) /\ ~log.open
         /\ log.resp <= log.reqs /\ ~inner.pay /\ inner.disc = "none" /\ Ctx.inner = inner
         /\ Ctx.log = log /\ Ctx.io = io /\ Ctx.sc = sc /\ io \in IoType /\ env.left \in Seq(Tokens)
         /\ Settled => Kept(Ctx, env.left) /\ Fit(Ctx, env.left) /\ Free(Ctx)
<1>1. /\ pc = "run" /\ st = "read" /\ Ctx \in CtxType /\ Loose(Ctx) /\ Framed(Ctx) /\ Ctx.st = "read"
      /\ Ctx.inner = inner /\ inner.disc = "none" /\ Ctx.log = log /\ Ctx.io = io /\ Ctx.sc = sc
      /\ env.left \in Seq(Tokens)
  BY SoundTypes, CtxFields DEF Reading, Turn
<1>2. ~log.open /\ log.resp <= log.reqs /\ ~inner.pay
  BY <1>1 DEF Framed
<1>3. io \in IoType
  BY <1>1, Parts
<1>4. Settled => Kept(Ctx, env.left)
  BY <1>1 DEF Settled
<1>5. Kept(Ctx, env.left) => Fit(Ctx, env.left) /\ Reports(Ctx)
  BY <1>1, KeptFit DEF Ended
<1>6. Reports(Ctx) => Free(Ctx)
  BY <1>1, <1>2 DEF Free, Reports
<1> QED
  BY <1>1, <1>2, <1>3, <1>4, <1>5, <1>6

LEMMA ReadyFailsKeeps == ASSUME Sound, ReadyFails PROVE Keeps
<1> DEFINE c == ReleaseWrite(Ctx)
<1>1. Reading /\ Goes(CtlError(c))
  BY DEF ReadyFails
<1>2. Moves(Ctx, c) /\ (Timely(Ctx) => Timely(c))
  BY <1>1, ReadFacts, ReleaseWriteClocked DEF Clocked
<1> HIDE DEF c
<1>3. Good(CtlError(c))
  BY <1>1, <1>2, ReadFacts, CtlGood
<1> QED
  BY <1>1, <1>3, GoesKeeps

\* Output is flushed, and the write timer expires, in a context that differs
\* from the current one by its timers.
LEMMA FlushGood ==
  ASSUME Sound, pc # "return", st \notin {"stop", "done"}, NEW c, Clocked(Ctx, c)
  PROVE  /\ Good(CtlPeerGone(FlushTimed(c)))
         /\ FlushResult(c) # "failed" => Good(FlushTimed(c))
<1> DEFINE d == FlushTimed(c)
<1>1. Ctx \in CtxType /\ c \in CtxType /\ Moves(Ctx, c) /\ c.inner = Ctx.inner /\ (Timely(Ctx) => Timely(c))
  BY SoundTypes DEF Clocked, Moves
<1>2. /\ Moves(Ctx, d) /\ (Timely(Ctx) => Timely(d))
      /\ FlushResult(c) # "failed" => d.inner.pay = Ctx.inner.pay
  BY <1>1, FlushTimedMoves, MovesTwice
<1> HIDE DEF d
<1> QED
  BY <1>2, CtlGood, GoodMoves DEF d

LEMMA ExpiredGood ==
  ASSUME Sound, pc # "return", st \notin {"stop", "done"}, NEW c, Clocked(Ctx, c), IsWrite(c),
         c.io.timeout
  PROVE  /\ Good(CtlPeerGone(WriteTimerExpired(Noted(c))))
         /\ ~WriteTimerFails(c) => Good(WriteTimerExpired(Noted(c)))
<1> DEFINE d == WriteTimerExpired(Noted(c))
<1>1. Ctx \in CtxType /\ c \in CtxType /\ Moves(Ctx, c) /\ c.inner = Ctx.inner /\ (Timely(Ctx) => Timely(c))
  BY SoundTypes DEF Clocked, Moves
<1>2. /\ Moves(Ctx, d) /\ (Timely(Ctx) => Timely(d))
      /\ ~WriteTimerFails(c) => d.inner.pay = Ctx.inner.pay
  BY <1>1, ExpiredMoves, MovesTwice
<1> HIDE DEF d
<1> QED
  BY <1>2, CtlGood, GoodMoves DEF d

LEMMA NotedSame ==
  ASSUME NEW c \in CtxType
  PROVE  /\ Noted(c).tm = c.tm /\ Noted(c).io.exp = c.io.exp /\ Noted(c).io.in = c.io.in
         /\ ~Noted(c).io.timeout
         /\ (IsWrite(Noted(c)) <=> IsWrite(c)) /\ (WriteTimerFails(Noted(c)) <=> WriteTimerFails(c))
<1>1. Noted(c).tm = c.tm /\ Noted(c).io = [c.io EXCEPT !.timeout = FALSE] /\ c.io \in IoType
  BY NotedClocked, Parts
<1>2. Noted(c).io.exp = c.io.exp /\ Noted(c).io.in = c.io.in /\ Noted(c).io.full = c.io.full
      /\ Noted(c).io.filter = c.io.filter /\ ~Noted(c).io.timeout
  BY <1>1 DEF IoType
<1> QED
  BY <1>1, <1>2 DEF IsWrite, WriteTimerFails

LEMMA ReadPausedKeeps == ASSUME Sound, ReadPaused PROVE Keeps
<1> DEFINE a == ReleaseWrite(Ctx)
           b == SuspendRead(a)
           p == [b EXCEPT !.io.paused = TRUE]
           c == Registered(p)
<1>1. Reading
  BY DEF ReadPaused
<1>2. pc = "run" /\ st = "read" /\ Ctx \in CtxType
  BY <1>1, ReadFacts
<1>3. \/ Goes(CtlPeerGone(c))
      \/ Goes(Noted(c))
      \/ c.io.timeout /\ IsWrite(c) /\ WriteTimerFails(c) /\ Goes(CtlPeerGone(WriteTimerExpired(Noted(c))))
      \/ c.io.timeout /\ IsWrite(c) /\ ~WriteTimerFails(c) /\ Goes(WriteTimerExpired(Noted(c)))
      \/ Waits([c EXCEPT !.io.full = FALSE]) \/ Waits(c)
      \/ FlushResult(c) = "ok" /\ Goes(FlushTimed(c))
      \/ FlushResult(c) = "failed" /\ Goes(CtlPeerGone(FlushTimed(c)))
      \/ FlushResult(c) = "pending" /\ Waits(FlushTimed(c))
  <2>1. FlushResult(c) \in {"ok", "failed", "pending"}
    BY DEF FlushResult
  <2> QED
    BY <2>1 DEF ReadPaused, Noted
<1>4. Clocked(Ctx, a) /\ a \in CtxType
  BY <1>2, ReleaseWriteClocked DEF Clocked, Moves
<1> HIDE DEF a
<1>5. Clocked(Ctx, b) /\ b \in CtxType
  BY <1>2, <1>4, SuspendReadClocked, ClockedTwice DEF Clocked, Moves
<1> HIDE DEF b
<1>6. Clocked(Ctx, p) /\ p \in CtxType
  BY <1>2, <1>5, PausedClocked, ClockedTwice DEF Clocked, Moves
<1> HIDE DEF p
<1>7. Clocked(Ctx, c) /\ c \in CtxType /\ Moves(Ctx, c) /\ (Timely(Ctx) => Timely(c))
  BY <1>2, <1>6, RegisteredClocked, ClockedTwice DEF Clocked, Moves
<1> HIDE DEF c
<1>8. Clocked(Ctx, Noted(c)) /\ Clocked(Ctx, [c EXCEPT !.io.full = FALSE])
  <2>1. Clocked(c, Noted(c)) /\ Clocked(c, [c EXCEPT !.io.full = FALSE])
    BY <1>7, NotedClocked, DrainedClocked
  <2> QED
    BY <1>2, <1>7, <2>1, ClockedTwice
<1>9. Good(CtlPeerGone(c)) /\ Good(Noted(c)) /\ Good([c EXCEPT !.io.full = FALSE]) /\ Good(c)
      /\ Good(CtlPeerGone(FlushTimed(c))) /\ (FlushResult(c) # "failed" => Good(FlushTimed(c)))
  BY <1>2, <1>7, <1>8, CtlGood, GoodClocked, FlushGood
<1>10. c.io.timeout /\ IsWrite(c) =>
         /\ Good(CtlPeerGone(WriteTimerExpired(Noted(c))))
         /\ ~WriteTimerFails(c) => Good(WriteTimerExpired(Noted(c)))
  BY <1>2, <1>7, ExpiredGood
<1> QED
  BY <1>3, <1>9, <1>10, GoesKeeps

LEMMA InputClocked ==
  ASSUME Sound, Reading PROVE Clocked(Ctx, Input) /\ Input \in CtxType
<1> DEFINE c == ReleaseWrite(Ctx)
<1>1. Ctx \in CtxType
  BY ReadFacts
<1>2. Clocked(Ctx, c) /\ c \in CtxType
  BY <1>1, ReleaseWriteClocked DEF Clocked, Moves
<1>3. Input = c \/ Input = ResumeRead(c)
  BY DEF Input
<1> HIDE DEF c
<1> QED
  BY <1>1, <1>2, <1>3, ResumeReadClocked, ClockedTwice DEF Clocked, Moves

LEMMA RecvBackpressureKeeps == ASSUME Sound, RecvBackpressure PROVE Keeps
<1> DEFINE c == Input
<1>1. Reading /\ pc = "run" /\ st = "read"
  BY DEF RecvBackpressure, Receiving, Reading, Turn
<1>2. Clocked(Ctx, c)
  BY <1>1, InputClocked
<1>3. \/ FlushResult(c) = "ok" /\ Goes(FlushTimed(c))
      \/ FlushResult(c) = "failed" /\ Goes(CtlPeerGone(FlushTimed(c)))
      \/ FlushResult(c) = "pending" /\ Waits(FlushTimed(c))
  <2>1. FlushResult(c) \in {"ok", "failed", "pending"}
    BY DEF FlushResult
  <2> QED
    BY <2>1 DEF RecvBackpressure
<1> HIDE DEF c
<1> QED
  BY <1>1, <1>2, <1>3, FlushGood, GoesKeeps

LEMMA RecvOtherTimeoutKeeps == ASSUME Sound, RecvOtherTimeout PROVE Keeps
<1> DEFINE i == Input
           c == Noted(i)
<1>1. Reading /\ pc = "run" /\ st = "read" /\ i.io.timeout
  BY DEF RecvOtherTimeout, Receiving, Reading, Turn, TimerDue
<1>2. Clocked(Ctx, i) /\ i \in CtxType /\ Ctx \in CtxType
  BY <1>1, InputClocked, ReadFacts
<1>3. \/ Goes(c)
      \/ IsWrite(c) /\ WriteTimerFails(c) /\ Goes(CtlPeerGone(WriteTimerExpired(c)))
      \/ IsWrite(c) /\ ~WriteTimerFails(c) /\ Goes(WriteTimerExpired(c))
  BY DEF RecvOtherTimeout, Noted
<1> HIDE DEF i
<1>4. (IsWrite(c) <=> IsWrite(i)) /\ (WriteTimerFails(c) <=> WriteTimerFails(i)) /\ Clocked(Ctx, c)
  BY <1>2, NotedSame, NotedClocked, ClockedTwice
<1> QED
  BY <1>1, <1>2, <1>3, <1>4, ExpiredGood, GoodClocked, GoesKeeps

\* The connection is ended in e, which has read input.
LEMMA GoodEndsIn ==
  ASSUME NEW e \in CtxType, Loose(e), e.sc = sc, e.log.told = log.told,
         Settled => Base(e, env.left), NEW msg \in Msgs, NEW d, Ends(e, d, msg),
         msg # "error"
  PROVE  /\ d \in CtxType /\ d.sc = sc /\ Framed(d) /\ (Settled => Kept(d, env.left))
         /\ msg # "keepalive" \/ ~e.inner.keep => Good(d)
<1>1. /\ d \in CtxType /\ d.sc = e.sc /\ Framed(d) /\ (Base(e, env.left) => Kept(d, env.left))
      /\ msg # "keepalive" \/ ~e.inner.keep => Spares(e, d)
  BY EndsGood
<1>2. Spares(e, d) => Spares(Ctx, d)
  BY CtxFields DEF Spares
<1> QED
  BY <1>1, <1>2 DEF Good

LEMMA CtlGoodIn ==
  ASSUME NEW e \in CtxType, Loose(e), e.sc = sc, e.log.told = log.told,
         Settled => Base(e, env.left)
  PROVE  /\ Good(CtlPeerGone(e)) /\ Good(CtlProtoErr(e))
         /\ ~e.inner.keep => Good(CtlKeepAlive(e))
         /\ LET d == CtlKeepAlive(e)
            IN d \in CtxType /\ d.sc = sc /\ Framed(d) /\ (Settled => Kept(d, env.left))
<1>1. Ends(e, CtlPeerGone(e), "gone") /\ Ends(e, CtlProtoErr(e), "proto")
      /\ Ends(e, CtlKeepAlive(e), "keepalive")
  BY CtlEnds
<1> QED
  BY <1>1, GoodEndsIn DEF Msgs

\* An idle connection is ended.
LEMMA IdleKeeps ==
  ASSUME Sound, NEW d \in CtxType, d.sc = sc, Framed(d), Settled => Kept(d, env.left), Goes(d),
         \A i \in DOMAIN io.in : io.in[i] \notin Heads
  PROVE  Keeps
<1>1. Ctx' = d /\ pc' = "run" /\ UNCHANGED <<pl, svc, env, sc>>
  BY CtxIs DEF Goes
<1>2. TypeOK'
  BY <1>1, SoundTypes DEF TypeOK, PlType, EnvType
<1>3. Framed(Ctx)' /\ Places'
  BY <1>1 DEF Places
<1>4. Settled => Settled'
  BY <1>1 DEF Settled
<1> QED
  BY <1>1, <1>2, <1>3, <1>4 DEF Keeps, Sound, Idles

\* The next head is decoded.
LEMMA DecodeGood ==
  ASSUME Sound, Reading, NEW c, Clocked(Ctx, c)
  PROVE  LET d == DecodeHead(c)
         IN /\ d.c \in CtxType /\ Loose(d.c) /\ d.c.sc = sc /\ ~d.c.inner.pay
            /\ ~d.c.log.open /\ d.c.log.resp <= d.c.log.reqs /\ d.c.log.told = log.told
            /\ d.c.inner.keep = inner.keep /\ d.c.tm = c.tm /\ d.c.io.exp = c.io.exp
            /\ d.c.io.timeout = c.io.timeout /\ d.c.log.reqs = c.log.reqs
            /\ d.received \in BOOLEAN /\ d.item \in Heads \cup {"bad", "none"}
            /\ Settled => Base(d.c, env.left)
            /\ Settled /\ d.item \in Heads => Follows(d.c, d.item, env.left)
            /\ d.item = "none" => Good(d.c) /\ \A i \in DOMAIN io.in : io.in[i] \notin Heads
<1> DEFINE d == DecodeHead(c)
           left == env.left
<1>1. /\ Ctx \in CtxType /\ Loose(Ctx) /\ ~log.open /\ log.resp <= log.reqs /\ ~inner.pay
      /\ inner.disc = "none" /\ Ctx.inner = inner /\ Ctx.log = log /\ Ctx.io = io /\ Ctx.sc = sc
      /\ left \in Seq(Tokens) /\ st = "read"
      /\ Settled => Kept(Ctx, left) /\ Fit(Ctx, left) /\ Free(Ctx)
  BY ReadFacts
<1>2. /\ c \in CtxType /\ Moves(Ctx, c) /\ c.inner = inner /\ c.log = log /\ c.io.in = io.in
      /\ c.sc = sc /\ c.st = "read" /\ (Timely(Ctx) => Timely(c)) /\ c.fut = fut
  BY <1>1, CtxFields DEF Clocked, Moves
<1>3. Loose(c) /\ (Settled => Fit(c, left) /\ Free(c))
  <2>1. Loose(c) /\ (Fit(Ctx, left) => Fit(c, left))
    BY <1>1, <1>2, MovesLoose, MovesFit
  <2>2. Free(Ctx) => Free(c)
    BY <1>1, <1>2 DEF Free
  <2> QED
    BY <1>1, <2>1, <2>2
<1>4. /\ d.c \in CtxType /\ Loose(d.c) /\ d.c.sc = c.sc /\ d.c.st = c.st /\ d.c.fut = c.fut
      /\ d.c.inner.pay = c.inner.pay /\ d.c.inner.disc = c.inner.disc /\ d.c.inner.pend = c.inner.pend
      /\ d.c.inner.keep = c.inner.keep /\ d.c.tm = c.tm /\ d.c.io.phase = c.io.phase
      /\ d.c.io.exp = c.io.exp /\ d.c.io.timeout = c.io.timeout
      /\ d.c.log.open = c.log.open /\ d.c.log.resp = c.log.resp /\ d.c.log.reqs = c.log.reqs
      /\ d.c.log.told = c.log.told
      /\ d.received \in BOOLEAN /\ d.item \in Heads \cup {"bad", "none"}
      /\ d.item = "none" => \A k \in DOMAIN c.io.in : c.io.in[k] \notin Heads
      /\ Fit(c, left) /\ Free(c) =>
           /\ Base(d.c, left)
           /\ d.item = "none" => Fit(d.c, left)
           /\ d.item \in Bodied => InBody(Rem(d.c, left))
           /\ d.item \in Heads \ Bodied => AtHead(Rem(d.c, left))
  BY <1>1, <1>2, <1>3, DecodeHeadGood
<1> HIDE DEF d, left
<1>5. Settled /\ d.item \in Heads => Follows(d.c, d.item, left)
  BY <1>2, <1>3, <1>4 DEF Follows, Free
<1>6. Framed(d.c)
  BY <1>1, <1>2, <1>4 DEF Framed, Loose, Ended
<1>7. d.item = "none" => Good(d.c)
  <2>1. Fit(d.c, left) /\ Free(c) => Kept(d.c, left)
    BY <1>2, <1>4 DEF Fit, Kept, Free, Ended
  <2> QED
    BY <1>2, <1>3, <1>4, <1>6, <2>1, CtxFields DEF Good, Spares, left
<1> QED
  BY <1>1, <1>2, <1>3, <1>4, <1>5, <1>7 DEF d, left

LEMMA HeadersDecodedSame ==
  ASSUME NEW c \in CtxType, NEW r
  PROVE  HeadersDecoded(c, r).io = c.io /\ HeadersDecoded(c, r).inner = c.inner
         /\ HeadersDecoded(c, r).log = c.log
BY DEF HeadersDecoded, CtxType

\* A request is received.
LEMMA ReceivedKeeps ==
  ASSUME NEW e \in CtxType, Loose(e), e.sc = sc, ~e.inner.pay, ~e.log.open,
         e.log.resp <= e.log.reqs, e.log.told = log.told, NEW kind \in Heads,
         env.left \in Seq(Tokens), Settled => Follows(e, kind, env.left),
         NEW r \in BOOLEAN
  PROVE  Good(Received(HeadersDecoded(e, r), kind))
<1> DEFINE h == HeadersDecoded(e, r)
           d == Received(h, kind)
           left == env.left
<1>1. /\ h \in CtxType /\ Moves(e, h) /\ (Timely(e) => Timely(h)) /\ h.tm.act = e.tm.act
      /\ h.inner = e.inner /\ h.log = e.log /\ h.sc = e.sc
  BY HeadersDecodedClocked DEF Clocked, Moves
<1> HIDE DEF h
<1>2. Loose(h) /\ (Follows(e, kind, left) => Follows(h, kind, left))
  <2>1. Loose(h) /\ (Base(e, left) => Base(h, left))
    BY <1>1, MovesLoose, MovesBase
  <2>2. Rem(h, left) = Rem(e, left)
    BY <1>1 DEF Moves, Rem, Gone
  <2> QED
    BY <1>1, <2>1, <2>2 DEF Follows, Free
<1>3. d \in CtxType /\ d.sc = h.sc /\ Framed(d) /\ (Follows(h, kind, left) => Kept(d, left))
      /\ Spares(h, d)
  BY <1>1, <1>2, ReceivedGood
<1> QED
  BY <1>1, <1>2, <1>3, CtxFields DEF Good, Spares, h

LEMMA RecvKeeps == ASSUME Sound, Recv PROVE Keeps
<1> DEFINE c == Input
           d == DecodeHead(c)
           g == Registered(d.c)
           h == HeadersDecoded(g, d.received)
           u == UpdateHdrsTimer(h)
           k == Close(d.c)
<1>1. Reading /\ pc = "run" /\ st = "read"
  BY DEF Recv, Receiving, Reading, Turn
<1>2. Clocked(Ctx, c) /\ env.left \in Seq(Tokens)
  BY <1>1, InputClocked, ReadFacts
<1>3. /\ d.c \in CtxType /\ Loose(d.c) /\ d.c.sc = sc /\ ~d.c.inner.pay
      /\ ~d.c.log.open /\ d.c.log.resp <= d.c.log.reqs /\ d.c.log.told = log.told
      /\ d.received \in BOOLEAN /\ d.item \in Heads \cup {"bad", "none"}
      /\ Settled => Base(d.c, env.left)
      /\ Settled /\ d.item \in Heads => Follows(d.c, d.item, env.left)
      /\ d.item = "none" => Good(d.c)
      /\ d.c.io.timeout = c.io.timeout
  BY <1>1, <1>2, DecodeGood
<1>4. \/ Goes(CtlProtoErr(d.c))
      \/ d.item \in Heads /\ Goes(Received(HeadersDecoded(d.c, TRUE), d.item))
      \/ Goes(CtlPeerGone(d.c))
      \/ Unbounded(d.c) /\ Goes(CtlKeepAlive(k))
      \/ d.item = "none" /\ ~d.c.io.timeout /\ (Waits(u) \/ Waits(SuspendRead(u)))
  <2>1. "none" \notin Heads /\ "bad" \notin Heads
    BY DEF Heads, Bodied, Expecting, Upgrading
  <2>2. \/ d.item = "bad" \/ d.item \in Heads
        \/ d.item = "none" /\ (Gone(c) \/ c.io.eof)
        \/ d.item = "none" /\ ~Gone(c) /\ ~c.io.eof
    BY <1>3
  <2>3. Gone(c) \/ ~d.c.io.timeout
    BY <1>3 DEF Recv, TimerDue
  <2> QED
    BY <2>1, <2>2, <2>3 DEF Recv
<1> HIDE DEF d
<1>5. Good(CtlProtoErr(d.c)) /\ Good(CtlPeerGone(d.c))
  BY <1>3, CtlGoodIn
<1>6. d.item \in Heads => Good(Received(HeadersDecoded(d.c, TRUE), d.item))
  BY <1>2, <1>3, ReceivedKeeps
<1>7. Unbounded(d.c) => Good(CtlKeepAlive(k))
  <2>1. k \in CtxType /\ Loose(k) /\ k.sc = sc /\ k.log.told = log.told /\ k.inner = d.c.inner
    BY <1>3, CloseFields DEF Loose, Sent, Whole, Headless
  <2>2. Base(d.c, env.left) => Base(k, env.left)
    BY <1>3, CloseFields DEF Base, Rem, Gone
  <2> HIDE DEF k
  <2> QED
    BY <1>3, <2>1, <2>2, CtlGoodIn DEF Unbounded
<1>8. d.item = "none" /\ ~d.c.io.timeout => Good(u) /\ Good(SuspendRead(u))
  <2>1. SUFFICES ASSUME Good(d.c), ~d.c.io.timeout PROVE Good(u) /\ Good(SuspendRead(u))
    BY <1>3
  <2>2. Good(g) /\ g \in CtxType /\ ~g.inner.pay /\ ~g.io.timeout
    <3>1. Clocked(d.c, g) /\ g.io = [d.c.io EXCEPT !.waker = TRUE] /\ d.c.io \in IoType
      BY <1>3, RegisteredClocked, Parts
    <3>2. ~g.io.timeout
      BY <2>1, <3>1 DEF IoType
    <3> QED
      BY <1>3, <2>1, <3>1, <3>2, GoodOn DEF Clocked, Moves
  <2> HIDE DEF g
  <2>3. Good(h) /\ h \in CtxType /\ ~h.inner.pay /\ ~h.io.timeout
    BY <1>3, <2>2, HeadersDecodedClocked, HeadersDecodedSame, GoodOn DEF Clocked, Moves
  <2> HIDE DEF h
  <2>4. Good(u) /\ u \in CtxType
    BY <2>3, UpdateHdrsTimerClocked, GoodOn DEF Clocked, Moves
  <2> HIDE DEF u
  <2> QED
    BY <2>4, SuspendReadClocked, GoodOn
<1> QED
  BY <1>4, <1>5, <1>6, <1>7, <1>8, GoesKeeps

LEMMA RecvTimeoutKeeps == ASSUME Sound, RecvTimeout PROVE Keeps
<1> DEFINE i == Input
           c == Noted(i)
           d == DecodeHead(c)
           h == HeadersDecoded(d.c, d.received)
           l == Late(h, Purpose(h))
           k == Late(h, <<"KeepAlive", h.log.reqs>>)
<1>1. Reading /\ pc = "run" /\ st = "read" /\ i.io.timeout /\ ~IsWrite(c) /\ c.tm.act # "Idle"
  BY DEF RecvTimeout, Receiving, Reading, Turn, TimerDue, Noted
<1>2. Clocked(Ctx, i) /\ i \in CtxType /\ Ctx \in CtxType /\ env.left \in Seq(Tokens)
  BY <1>1, InputClocked, ReadFacts
<1>3. PICK enough \in BOOLEAN :
      \/ Goes(CtlProtoErr(d.c))
      \/ d.item \in Heads /\ Goes(Received(h, d.item))
      \/ /\ d.item = "none"
         /\ \/ h.tm.act = "Headers" /\ Goes(CtlProtoErr(HandleTimeout(h, enough)))
            \/ ~TimesOut(h, enough) /\ Goes(HandleTimeout(h, enough))
            \/ Goes(StartHeaders(h))
            \/ h.tm.act = "ClientTimeout" /\ Goes(CtlProtoErr(l))
            \/ h.tm.act \notin {"Headers", "ClientTimeout"} /\ Goes(CtlKeepAlive(k))
  <2>1. "none" \notin Heads /\ "bad" \notin Heads
    BY DEF Heads, Bodied, Expecting, Upgrading
  <2>2. d.item \in Heads \cup {"bad", "none"}
    BY DecodeHeadFacts, <1>2, NotedClocked DEF Clocked, Moves
  <2> QED
    BY <2>1, <2>2 DEF RecvTimeout, Noted
<1> HIDE DEF i
<1>4. Clocked(Ctx, c) /\ c.tm = i.tm /\ c.io.exp = i.io.exp /\ c.log = i.log /\ c \in CtxType
      /\ c.io.in = i.io.in /\ ~c.io.timeout
  <2>1. Clocked(i, c)
    BY <1>2, NotedClocked
  <2>2. Clocked(Ctx, c)
    BY <1>2, <2>1, ClockedTwice
  <2> QED
    BY <1>2, <2>1, <2>2, NotedSame DEF Clocked, Moves
<1>5. Settled => c.tm.act \notin {"Stopped", "PayloadPaused", "Payload"}
  <2>1. ASSUME Settled PROVE Timely(i) /\ i.tm.act # "Payload"
    <3>1. Fit(Ctx, env.left) /\ Free(Ctx) /\ ~inner.pay /\ Ctx.inner = inner
      BY <1>1, <2>1, ReadFacts
    <3>2. Timely(Ctx) /\ Ctx.tm.act # "Payload"
      BY <3>1 DEF Fit, Base, Clean
    <3> QED
      BY <1>2, <3>1, <3>2 DEF Clocked, Moves
  <2> QED
    BY <1>1, <1>4, <2>1 DEF Timely, TimelyAt
<1>6. Settled => c.io.exp = <<c.tm.act, c.log.reqs>>
  <2>1. Settled => Timely(i)
    BY <1>2, SettledBase DEF Base, Clocked
  <2>2. c.tm.act \in {"Stopped", "ClientTimeout", "KeepAlive", "Headers", "Payload", "PayloadPaused"}
    BY <1>1, <1>4, Parts DEF TmType, IsWrite
  <2> QED
    BY <1>1, <1>4, <1>5, <2>1, <2>2 DEF Timely, TimelyAt
<1> HIDE DEF c
<1>7. /\ d.c \in CtxType /\ Loose(d.c) /\ d.c.sc = sc /\ ~d.c.inner.pay
      /\ ~d.c.log.open /\ d.c.log.resp <= d.c.log.reqs /\ d.c.log.told = log.told
      /\ d.c.tm = c.tm /\ d.c.io.exp = c.io.exp /\ d.c.log.reqs = c.log.reqs /\ ~d.c.io.timeout
      /\ d.received \in BOOLEAN /\ d.item \in Heads \cup {"bad", "none"}
      /\ Settled => Base(d.c, env.left)
      /\ Settled /\ d.item \in Heads => Follows(d.c, d.item, env.left)
      /\ d.item = "none" => Good(d.c) /\ \A j \in DOMAIN io.in : io.in[j] \notin Heads
  BY <1>1, <1>4, DecodeGood
<1> HIDE DEF d
<1>8. Good(CtlProtoErr(d.c)) /\ (d.item \in Heads => Good(Received(h, d.item)))
  BY <1>2, <1>7, CtlGoodIn, ReceivedKeeps
<1>9. ASSUME d.item = "none" PROVE Good(h)
  BY <1>7, <1>9, HeadersDecodedClocked, GoodOn
<1>10. /\ h \in CtxType /\ h.inner = d.c.inner /\ h.log = d.c.log /\ h.io = d.c.io
       /\ h.tm.act = c.tm.act /\ Moves(d.c, h) /\ (Timely(d.c) => Timely(h)) /\ h.sc = sc
  BY <1>7, HeadersDecodedClocked, HeadersDecodedSame DEF Clocked, Moves
<1>11. Loose(h) /\ (Settled => Base(h, env.left)) /\ ~h.inner.pay
  BY <1>7, <1>10, MovesLoose, MovesBase
<1>12. Settled => h.io.exp = <<h.tm.act, h.log.reqs>>
                  /\ h.tm.act \notin {"Stopped", "PayloadPaused", "Payload", "Idle"} /\ ~IsWrite(h)
  BY <1>1, <1>5, <1>6, <1>7, <1>10 DEF IsWrite
<1> HIDE DEF h
<1>13. ASSUME NEW x, Moves(h, x), Settled => (Timely(h) => Timely(x))
       PROVE  x \in CtxType /\ Loose(x) /\ x.sc = sc /\ x.log.told = log.told /\ (Settled => Base(x, env.left))
  BY <1>7, <1>10, <1>11, <1>13, MovesLoose, MovesBase DEF Moves
<1>14. Good(CtlProtoErr(HandleTimeout(h, enough)))
  <2> DEFINE x == HandleTimeout(h, enough)
  <2>1. Moves(h, x) /\ (Settled => (Timely(h) => Timely(x)))
    BY <1>10, <1>12, HandleTimeoutMoves DEF Due
  <2> HIDE DEF x
  <2> QED
    BY <1>13, <2>1, CtlGoodIn DEF x
<1>15. d.item = "none" /\ ~TimesOut(h, enough) => Good(HandleTimeout(h, enough))
  <2> DEFINE x == HandleTimeout(h, enough)
  <2>1. /\ Moves(h, x) /\ (Settled => (Timely(h) => Timely(x)))
        /\ ~TimesOut(h, enough) => x.inner.pay = h.inner.pay
    BY <1>10, <1>12, HandleTimeoutMoves DEF Due
  <2> HIDE DEF x
  <2>2. Framed(h) => Framed(x)
    BY <1>10, <2>1, MovesFramed
  <2>3. Settled /\ ~TimesOut(h, enough) /\ Kept(h, env.left) => Kept(x, env.left)
    BY <1>10, <2>1, MovesKept
  <2> QED
    BY <1>9, <2>1, <2>2, <2>3 DEF Good, Moves, Spares, x
<1>16. d.item = "none" => Good(StartHeaders(h))
  BY <1>7, <1>9, <1>10, <1>11, StartHeadersClocked, GoodOn
<1>17. Good(CtlProtoErr(l))
  <2>1. Moves(h, l) /\ (Settled => (Timely(h) => Timely(l)))
    BY <1>10, <1>12, LateMoves DEF Purpose
  <2> HIDE DEF l
  <2> QED
    BY <1>13, <2>1, CtlGoodIn
<1>18. ASSUME h.tm.act \notin {"Headers", "ClientTimeout"}
       PROVE  LET e == CtlKeepAlive(k)
              IN e \in CtxType /\ e.sc = sc /\ Framed(e) /\ (Settled => Kept(e, env.left))
  <2>1. Settled => h.io.exp = <<"KeepAlive", h.log.reqs>>
    BY <1>10, <1>12, <1>18, Parts DEF TmType, IsWrite
  <2>2. Moves(h, k) /\ (Settled => (Timely(h) => Timely(k)))
    BY <1>10, <2>1, LateMoves
  <2> HIDE DEF k
  <2> QED
    BY <1>13, <2>2, CtlGoodIn
<1> HIDE DEF l, k
<1> QED
  BY <1>3, <1>7, <1>8, <1>14, <1>15, <1>16, <1>17, <1>18, GoesKeeps, IdleKeeps

-----------------------------------------------------------------------------
(* The payload *)

LEMMA PayloadFacts ==
  ASSUME Sound, InPayload
  PROVE  /\ pc = "payload" /\ st \in {"publish", "control", "payload", "send"} /\ Ctx \in CtxType
         /\ Ctx.st = st /\ Ctx.inner = inner /\ Ctx.io = io /\ Ctx.rx = rx /\ Ctx.log = log
         /\ Ctx.tm = tm /\ Ctx.fut = fut
         /\ Framed(Ctx) /\ Loose(Ctx) /\ Ctx.sc = sc /\ env.left \in Seq(Tokens)
         /\ (pl.hold # "start" => inner.pay) /\ (Settled => Kept(Ctx, env.left)) /\ pl \in PlType
         /\ Settled /\ pl.hold = "timeout" => Held(Ctx)
<1>1. pc = "payload" /\ st \in {"publish", "control", "payload", "send"} /\ (pl.hold # "start" => inner.pay)
  BY DEF InPayload, Sound, Places
<1> QED
  BY <1>1, SoundTypes, CtxFields DEF Settled

\* The payload fails.
LEMMA FailedKeeps ==
  ASSUME Sound, InPayload, inner.pay, NEW d, Moves(Ctx, d), Settled /\ Timely(Ctx) => Timely(d),
         ~d.inner.pay, NEW res \in {"proto", "gone"}, Returns(d, res)
  PROVE  Keeps
<1>1. Ctx \in CtxType /\ Framed(Ctx) /\ Ctx.sc = sc /\ Ctx.inner = inner /\ Ctx.st = st
      /\ (Settled => Kept(Ctx, env.left)) /\ st \in {"publish", "control", "payload", "send"}
  BY PayloadFacts
<1>2. d \in CtxType /\ d.sc = sc /\ Framed(d) /\ Spares(Ctx, d) /\ d.st = st /\ d.fut = Ctx.fut
      /\ d.inner.pend = inner.pend
  BY <1>1, MovesFramed DEF Moves, Spares
<1>3. Settled => Base(d, env.left) /\ inner.pend = "none"
  <2>1. Kept(Ctx, env.left) => Base(Ctx, env.left) /\ inner.pend = "none"
    BY <1>1 DEF Kept, Base
  <2> QED
    BY <1>1, <2>1, MovesBase
<1>4. Kept(Ctx, env.left) => (d.st = "control" /\ d.fut.res = "fail" => d.fut.what # "request")
  BY <1>1, <1>2 DEF Kept
<1> QED
  BY <1>1, <1>2, <1>3, <1>4, FailsKeeps

\* A change of the payload's stream.
Streamed(c, x) == [c EXCEPT !.rx = x]

LEMMA StreamedClocked ==
  ASSUME NEW c \in CtxType, NEW x \in RxType, x.end = c.rx.end, x.whole = c.rx.whole
  PROVE  Clocked(c, Streamed(c, x))
<1> DEFINE d == Streamed(c, x)
<1>1. /\ d \in CtxType /\ d.st = c.st /\ d.fut = c.fut /\ d.sc = c.sc /\ d.tm = c.tm
      /\ d.inner = c.inner /\ d.log = c.log /\ d.io = c.io /\ d.rx = x
  BY DEF CtxType, Streamed
<1> HIDE DEF d
<1>2. Moves(c, d)
  BY <1>1 DEF Moves, Headless
<1> QED
  BY <1>1, <1>2 DEF Clocked, Timely, d

LEMMA AwaitsClocked ==
  ASSUME NEW c \in CtxType PROVE Clocked(c, [c EXCEPT !.rx.task = TRUE])
<1> DEFINE x == [c.rx EXCEPT !.task = TRUE]
<1>1. x \in RxType /\ x.end = c.rx.end /\ x.whole = c.rx.whole
  BY Parts DEF RxType
<1>2. [c EXCEPT !.rx.task = TRUE] = Streamed(c, x)
  BY DEF CtxType, Streamed
<1> HIDE DEF x
<1> QED
  BY <1>1, <1>2, StreamedClocked

LEMMA FillsClocked ==
  ASSUME NEW c \in CtxType, NEW f \in BOOLEAN PROVE Clocked(c, [c EXCEPT !.rx.full = @ \/ f])
<1> DEFINE b == c.rx.full \/ f
           x == [c.rx EXCEPT !.full = b]
<1>1. b \in BOOLEAN /\ c.rx \in RxType
  BY Parts DEF RxType
<1>2. [c EXCEPT !.rx.full = @ \/ f] = Streamed(c, x)
  BY DEF CtxType, Streamed
<1> HIDE DEF b
<1>3. x \in RxType /\ x.end = c.rx.end /\ x.whole = c.rx.whole
  BY <1>1 DEF RxType
<1> HIDE DEF x
<1> QED
  BY <1>2, <1>3, StreamedClocked

LEMMA PayloadStartKeeps == ASSUME Sound, PayloadStart PROVE Keeps
<1> DEFINE p == [Ctx EXCEPT !.inner.pend = "none"]
           u == DropSender(Ctx)
           s == SetDisconnect(u)
           w == PausePayload(Ctx)
           t == [w EXCEPT !.rx.task = TRUE]
<1>1. InPayload /\ pl.hold = "start"
  BY DEF PayloadStart
<1>2. /\ pc = "payload" /\ st \in {"publish", "control", "payload", "send"} /\ Ctx \in CtxType
      /\ Ctx.st = st /\ Ctx.inner = inner /\ Ctx.log = log
      /\ Framed(Ctx) /\ Ctx.sc = sc /\ (Settled => Kept(Ctx, env.left))
  BY <1>1, PayloadFacts
<1>3. \/ inner.pend # "none" /\ st = "payload" /\ Returns(p, inner.pend)
      \/ Returns(Ctx, "ok")
      \/ (~rx.alive \/ rx.end # "none") /\ Returns(s, "pending")
      \/ Returns(t, "pending")
      \/ inner.pay /\ Loops(ReleaseWrite(Ctx), "none", FALSE)
  BY DEF PayloadStart
<1>4. CASE inner.pend # "none" /\ st = "payload" /\ Returns(p, inner.pend)
  <2>1. /\ Retold(Ctx, p) /\ p.inner.pend = "none" /\ p.inner.disc = Ctx.inner.disc
        /\ p.inner.keep = Ctx.inner.keep
    BY <1>2, UnpendFields
  <2>2. inner.pend \in {"proto", "gone"}
    BY <1>2, <1>4, Parts DEF InnerType
  <2> HIDE DEF p
  <2>3. Framed(p) /\ p.st = "payload" /\ p \in CtxType /\ p.sc = sc /\ Spares(Ctx, p)
    BY <1>2, <1>4, <2>1 DEF Framed, Retold, Sent, Whole, Headless, Ended, Spares
  <2>4. Kept(Ctx, env.left) => Base(p, env.left) /\ ~p.inner.pay
    BY <1>2, <1>4, <2>1 DEF Kept, Base, Retold, Rem, Gone, Timely
  <2> QED
    BY <1>2, <1>4, <2>1, <2>2, <2>3, <2>4, FailsKeeps
<1>5. CASE Returns(Ctx, "ok")
  BY <1>2, <1>5, CtxGood, ReturnsKeeps
<1>6. CASE (~rx.alive \/ rx.end # "none") /\ Returns(s, "pending")
  <2>1. /\ u \in CtxType /\ u.st = Ctx.st /\ u.fut = Ctx.fut /\ u.sc = Ctx.sc /\ u.tm = Ctx.tm
        /\ u.io = Ctx.io /\ u.rx.end = Ctx.rx.end /\ u.rx.whole = Ctx.rx.whole
        /\ u.log = Ctx.log /\ ~u.inner.pay
        /\ u.inner.started = Ctx.inner.started /\ u.inner.disc = Ctx.inner.disc
        /\ u.inner.pend = Ctx.inner.pend
    BY <1>2, <1>6, CtxFields, DropSenderFields, Parts DEF RxType
  <2> HIDE DEF u
  <2>2. Retold(u, s) /\ s.inner.pend = u.inner.pend
        /\ s.inner.disc # "none" /\ (s.inner.disc = "sent" <=> u.inner.disc = "sent")
    BY <2>1, SetDisconnectFields
  <2> HIDE DEF s
  <2>3. Framed(s) /\ s.st = st /\ s \in CtxType /\ s.sc = sc /\ Spares(Ctx, s)
    BY <1>2, <2>1, <2>2 DEF Framed, Retold, Sent, Whole, Headless, Ended, Spares
  <2>4. Kept(Ctx, env.left) => Kept(s, env.left)
    BY <1>2, <2>1, <2>2 DEF Kept, Base, Retold, Free, Rem, Gone, Timely, Ended
  <2> QED
    BY <1>2, <1>6, <2>3, <2>4, ReturnsKeeps DEF Good
<1>7. CASE Returns(t, "pending")
  <2>1. Clocked(Ctx, w) /\ w \in CtxType
    BY <1>2, PausePayloadClocked DEF Clocked, Moves
  <2> HIDE DEF w
  <2>2. Clocked(w, t)
    BY <2>1, AwaitsClocked
  <2> HIDE DEF t
  <2>3. Clocked(Ctx, t)
    BY <1>2, <2>1, <2>2, ClockedTwice
  <2>4. Good(t) /\ t.st = st
    BY <1>2, <2>3, GoodClocked DEF Clocked, Moves
  <2> QED
    BY <1>2, <1>7, <2>4, ReturnsKeeps
<1>8. CASE inner.pay /\ Loops(ReleaseWrite(Ctx), "none", FALSE)
  <2> DEFINE d == ReleaseWrite(Ctx)
  <2>1. Clocked(Ctx, d) /\ d.st = st /\ d.inner = inner
    BY <1>2, ReleaseWriteClocked DEF Clocked, Moves
  <2>2. Good(d)
    BY <1>2, <2>1, GoodClocked
  <2> HIDE DEF d
  <2>3. Loops(d, "none", FALSE)
    BY <1>8 DEF d
  <2> QED
    BY <1>2, <1>8, <2>1, <2>2, <2>3, LoopsKeeps
<1> QED
  BY <1>3, <1>4, <1>5, <1>6, <1>7, <1>8

\* A loop of the payload's poll in a context that differs by its timers.
LEMMA ClockedLoops ==
  ASSUME Sound, InPayload, NEW d, Moves(Ctx, d), Settled /\ Timely(Ctx) => Timely(d),
         d.inner.pay = inner.pay, inner.pay,
         NEW hold \in {"none", "full", "timeout"}, NEW updated \in BOOLEAN, Loops(d, hold, updated),
         Settled /\ hold = "timeout" => Held(d)
  PROVE  Keeps
<1>1. pc = "payload" /\ st \in {"publish", "control", "payload", "send"} /\ Ctx.st = st /\ Ctx.inner = inner
  BY PayloadFacts
<1>2. Good(d) /\ d.st = st
  BY <1>1, GoodMoves DEF Moves
<1> QED
  BY <1>1, <1>2, LoopsKeeps

LEMMA ClockedReturns ==
  ASSUME Sound, InPayload, NEW d, Moves(Ctx, d), Timely(Ctx) => Timely(d), d.inner.pay = inner.pay,
         Breaks(d)
  PROVE  Keeps
<1>1. pc = "payload" /\ st \in {"publish", "control", "payload", "send"} /\ Ctx.st = st /\ Ctx.inner = inner
  BY PayloadFacts
<1>2. Good(d) /\ d.st = st
  BY <1>1, GoodMoves DEF Moves
<1> QED
  BY <1>1, <1>2, ReturnsKeeps DEF Breaks

LEMMA WriteTimerFailsPayload ==
  ASSUME NEW c \in CtxType, WriteTimerFails(c) PROVE ~WriteTimerExpired(c).inner.pay
<1> DEFINE l == Late(c, <<"Write", 0>>)
<1>1. l \in CtxType
  BY LateMoves DEF Moves
<1>2. WriteTimerExpired(c) = SetPayloadError(l)
  BY DEF WriteTimerExpired
<1> HIDE DEF l
<1> QED
  BY <1>1, <1>2, SetPayloadErrorMoves

LEMMA PayloadHoldsKeeps == ASSUME Sound, PayloadHolds PROVE Keeps
<1> DEFINE c == Noted(Ctx)
           x == WriteTimerExpired(c)
<1>1. InPayload /\ pl.hold = "none" /\ inner.pay
  BY PayloadFacts DEF PayloadHolds
<1>2. /\ Ctx \in CtxType /\ Ctx.inner = inner /\ Ctx.io = io /\ pl.updated \in BOOLEAN
      /\ Ctx.sc = sc /\ (Settled => Kept(Ctx, env.left))
  BY <1>1, PayloadFacts DEF PlType
<1>3. \/ Loops(Ctx, "full", pl.updated)
      \/ io.timeout /\ ~IsWrite(c) /\ Loops(c, "timeout", pl.updated)
      \/ io.timeout /\ IsWrite(c) /\ WriteTimerFails(c) /\ Returns(x, "gone")
      \/ io.timeout /\ IsWrite(c) /\ ~WriteTimerFails(c) /\ Loops(x, "none", pl.updated)
  BY DEF PayloadHolds, Noted
<1>4. Moves(Ctx, c) /\ (Timely(Ctx) => Timely(c)) /\ c.inner = inner /\ c \in CtxType
      /\ (IsWrite(c) <=> IsWrite(Ctx)) /\ (WriteTimerFails(c) <=> WriteTimerFails(Ctx))
      /\ c.tm = Ctx.tm /\ c.io.exp = Ctx.io.exp /\ c.log = Ctx.log
  BY <1>2, NotedClocked, NotedSame DEF Clocked, Moves
<1>5. io.timeout /\ IsWrite(c) =>
        /\ Moves(Ctx, x) /\ (Timely(Ctx) => Timely(x))
        /\ ~WriteTimerFails(c) => x.inner.pay = inner.pay
  BY <1>2, <1>4, ExpiredMoves
<1> HIDE DEF c
<1>6. WriteTimerFails(c) => ~x.inner.pay
  BY <1>4, WriteTimerFailsPayload
<1> HIDE DEF x
<1>7. CASE Loops(Ctx, "full", pl.updated)
  BY <1>1, <1>2, <1>7, MovesSame, ClockedLoops
<1>8. CASE io.timeout /\ ~IsWrite(c) /\ Loops(c, "timeout", pl.updated)
  <2>1. Settled => Timely(Ctx) /\ Headless(Ctx)
    BY <1>1, PayloadFacts, SettledBase DEF Base, Loose
  <2>2. Settled => Held(Ctx)
    BY <1>2, <1>8, <2>1 DEF Held, Due, Timely, TimelyAt
  <2>3. Settled => Held(c)
    BY <1>4, <2>2 DEF Held, Due
  <2> QED
    BY <1>1, <1>2, <1>4, <1>8, <2>3, ClockedLoops
<1>9. CASE io.timeout /\ IsWrite(c) /\ WriteTimerFails(c) /\ Returns(x, "gone")
  BY <1>1, <1>5, <1>6, <1>9, FailedKeeps
<1>10. CASE io.timeout /\ IsWrite(c) /\ ~WriteTimerFails(c) /\ Loops(x, "none", pl.updated)
  BY <1>1, <1>2, <1>5, <1>10, ClockedLoops
<1> QED
  BY <1>3, <1>7, <1>8, <1>9, <1>10

\* The decoder takes the first token of the input.
LEMMA TookFacts ==
  ASSUME Sound, InPayload, inner.pay, io.in # <<>>
  PROVE  LET t == Took(Ctx)
         IN /\ t \in CtxType /\ t.sc = sc /\ t.st = st /\ t.fut = fut /\ t.inner = inner /\ t.log = log
            /\ t.rx = rx /\ t.tm = tm /\ Framed(t) /\ (Timely(Ctx) => Timely(t))
            /\ t.io.exp = io.exp
            /\ Rem(Ctx, env.left) \in Seq(Tokens)
            /\ Rest(Rem(Ctx, env.left), Rem(t, env.left), 1) /\ Rem(Ctx, env.left)[1] = Head(io.in)
<1> DEFINE in == Tail(Ctx.io.in)
           i == [Ctx.io EXCEPT !.in = in, !.paused = FALSE]
           t == With(Ctx, Ctx.tm, i, Ctx.woken)
<1>1. /\ Ctx \in CtxType /\ Ctx.st = st /\ Ctx.inner = inner /\ Ctx.io = io /\ Ctx.rx = rx
      /\ Ctx.log = log /\ Ctx.tm = tm /\ Ctx.fut = fut /\ Framed(Ctx) /\ Ctx.sc = sc
      /\ env.left \in Seq(Tokens)
  BY PayloadFacts
<1>2. Ctx.io \in IoType /\ Ctx.tm \in TmType /\ Ctx.woken \in BOOLEAN /\ Ctx.io.in \in Seq(Tokens)
  BY <1>1, Parts, RemFacts
<1>3. Rest(Ctx.io.in, in, 1) /\ Ctx.io.in[1] = Head(io.in) /\ in \in Seq(Tokens) /\ 1 \in 1..1
  BY <1>1, <1>2, RestTail DEF Rest
<1> HIDE DEF in
<1>4. i \in IoType /\ i.phase = Ctx.io.phase /\ i.in = in /\ i.timer = Ctx.io.timer
      /\ i.timeout = Ctx.io.timeout /\ i.for = Ctx.io.for /\ i.exp = Ctx.io.exp
  BY <1>2, <1>3 DEF IoType
<1>5. Took(Ctx) = t
  BY <1>1 DEF CtxType, Took, With, in
<1> HIDE DEF i
<1>6. /\ t \in CtxType /\ t.sc = sc /\ t.st = st /\ t.fut = fut /\ t.inner = inner /\ t.log = log
      /\ t.rx = rx /\ t.tm = tm /\ t.io = i
  BY <1>1, <1>2, <1>4, WithFields
<1> HIDE DEF t
<1>7. Timely(Ctx) => Timely(t)
  BY <1>1, <1>4, <1>6 DEF Timely, TimelyAt
<1>8. Framed(t)
  BY <1>1, <1>6 DEF Framed, Whole, Sent, Ended, Headless
<1>9. /\ Rest(Rem(Ctx, env.left), Rem(t, env.left), 1)
      /\ \A k \in 1..1 : Rem(Ctx, env.left)[k] = Ctx.io.in[k]
  <2>1. t.io.phase = Ctx.io.phase /\ Rest(Ctx.io.in, t.io.in, 1)
    BY <1>3, <1>4, <1>6
  <2>2. Ctx \in CtxType /\ t \in CtxType /\ env.left \in Seq(Tokens)
    BY <1>1, <1>6
  <2> QED
    BY <2>1, <2>2, RestRem
<1> QED
  BY <1>1, <1>3, <1>4, <1>5, <1>6, <1>7, <1>8, <1>9, RemFacts

LEMMA PayloadChunkKeeps == ASSUME Sound, PayloadChunk PROVE Keeps
<1> DEFINE t == Took(Ctx)
           p == PayloadDecoded(t, TRUE)
<1>1. InPayload /\ pl.hold # "start" /\ io.in # <<>> /\ Head(io.in) = "data"
  BY DEF PayloadChunk, Decoding
<1>2. PICK full \in BOOLEAN : Loops([p EXCEPT !.rx.full = @ \/ full], pl.hold, TRUE)
  BY DEF PayloadChunk
<1> DEFINE d == [p EXCEPT !.rx.full = @ \/ full]
<1>3. /\ Ctx \in CtxType /\ Ctx.st = st /\ Ctx.inner = inner /\ Ctx.log = log /\ inner.pay
      /\ st \in {"publish", "control", "payload", "send"} /\ pl.hold \in {"none", "full", "timeout"}
      /\ (Settled => Kept(Ctx, env.left)) /\ Ctx.fut = fut
  BY <1>1, PayloadFacts DEF PlType
<1>4. /\ t \in CtxType /\ t.sc = sc /\ t.st = st /\ t.fut = fut /\ t.inner = inner /\ t.log = log
      /\ t.rx = rx /\ t.tm = tm /\ Framed(t) /\ (Timely(Ctx) => Timely(t)) /\ t.io.exp = io.exp
      /\ Rem(Ctx, env.left) \in Seq(Tokens)
      /\ Rest(Rem(Ctx, env.left), Rem(t, env.left), 1) /\ Rem(Ctx, env.left)[1] = Head(io.in)
  BY <1>1, <1>3, TookFacts
<1> HIDE DEF t
<1>5. Kept(Ctx, env.left) => Kept(t, env.left)
  <2>1. InBody(Rem(Ctx, env.left)) => InBody(Rem(t, env.left))
    BY <1>1, <1>4, RestChunk
  <2> QED
    BY <1>3, <1>4, <2>1 DEF Kept, Base, Free, Ended
<1>6. Good(t)
  BY <1>3, <1>4, <1>5 DEF Good, Spares
<1>7. Clocked(t, p) /\ p \in CtxType
  BY <1>3, <1>4, PayloadDecodedClocked DEF Clocked, Moves
<1>8. Settled /\ pl.hold = "timeout" => Held(p)
  <2>1. SUFFICES ASSUME Settled, pl.hold = "timeout" PROVE Held(p)
    OBVIOUS
  <2>2. Held(Ctx) /\ Ctx.tm = tm /\ Ctx.io = io
    BY <1>1, <2>1, PayloadFacts
  <2>3. Held(t)
    BY <1>3, <1>4, <2>2 DEF Held, Due
  <2>4. p = PayloadConsumed(t, TRUE)
    BY <2>3 DEF PayloadDecoded, Held
  <2>5. p.tm.act = t.tm.act /\ p.io = t.io /\ p.log = t.log
    <3> DEFINE m == [t.tm EXCEPT !.fast = @ \/ TRUE]
    <3>1. m.act = t.tm.act
      BY <1>4, Parts DEF TmType
    <3>2. PayloadConsumed(t, TRUE) \in {t, [t EXCEPT !.tm = m]}
      BY <1>4 DEF PayloadConsumed, CtxType
    <3> HIDE DEF m
    <3> QED
      BY <1>4, <2>4, <3>1, <3>2 DEF CtxType
  <2> QED
    BY <2>3, <2>5 DEF Held, Due
<1> HIDE DEF p
<1>9. Clocked(p, d) /\ d.tm = p.tm /\ d.io = p.io
  BY <1>7, FillsClocked DEF CtxType
<1> HIDE DEF d
<1>10. Good(d) /\ d.st = st /\ d.inner = inner
  BY <1>4, <1>6, <1>7, <1>9, GoodOn DEF Clocked, Moves
<1>11. Settled /\ pl.hold = "timeout" => Held(d)
  BY <1>8, <1>9 DEF Held, Due, Clocked
<1>12. Loops(d, pl.hold, TRUE)
  BY <1>2 DEF d
<1> QED
  BY <1>3, <1>10, <1>11, <1>12, LoopsKeeps

\* All of the payload has been decoded.
Completed(c) == [c EXCEPT !.rx.whole = TRUE]

LEMMA CompletedFields ==
  ASSUME NEW c \in CtxType
  PROVE  LET d == Completed(c)
         IN /\ d \in CtxType /\ d.st = c.st /\ d.fut = c.fut /\ d.sc = c.sc /\ d.tm = c.tm
            /\ d.io = c.io /\ d.rx.whole /\ d.log = c.log /\ d.inner = c.inner
<1> DEFINE x == [c.rx EXCEPT !.whole = TRUE]
           d == [c EXCEPT !.rx = x]
<1>1. x \in RxType /\ x.whole
  BY Parts DEF RxType
<1>2. Completed(c) = d
  BY DEF CtxType, Completed
<1> HIDE DEF x
<1>3. /\ d \in CtxType /\ d.st = c.st /\ d.fut = c.fut /\ d.sc = c.sc /\ d.tm = c.tm
      /\ d.io = c.io /\ d.rx = x /\ d.log = c.log /\ d.inner = c.inner
  BY <1>1 DEF CtxType
<1> HIDE DEF d
<1> QED
  BY <1>1, <1>2, <1>3

\* Its stream is ended and its sender dropped: d is regular, because it is whole.
LEMMA PayloadEnded ==
  ASSUME NEW c \in CtxType
  PROVE  LET d == DropSender(PayloadDone(FeedEof(Completed(c))))
         IN /\ d \in CtxType /\ d.st = c.st /\ d.fut = c.fut /\ d.sc = c.sc
            /\ d.io.in = c.io.in /\ d.io.phase = c.io.phase /\ d.log = c.log
            /\ d.rx.whole /\ ~d.inner.pay /\ d.tm.act \in {"Write", "Idle", "Stopped"}
            /\ d.inner.started = c.inner.started /\ d.inner.disc = c.inner.disc
            /\ d.inner.pend = c.inner.pend /\ d.inner.keep = c.inner.keep
            /\ Timely(c) => Timely(d)
<1> DEFINE b == Completed(c)
           f == FeedEof(b)
           e == PayloadDone(f)
           d == DropSender(e)
<1>1. /\ b \in CtxType /\ b.st = c.st /\ b.fut = c.fut /\ b.sc = c.sc /\ b.tm = c.tm
      /\ b.io = c.io /\ b.rx.whole /\ b.log = c.log /\ b.inner = c.inner
  BY CompletedFields
<1> HIDE DEF b
<1>2. /\ f \in CtxType /\ f.st = b.st /\ f.fut = b.fut /\ f.sc = b.sc /\ f.tm = b.tm
      /\ f.io = b.io /\ f.rx.whole /\ f.log = b.log /\ f.inner = b.inner
  BY <1>1, EndStreamFields DEF FeedEof
<1> HIDE DEF f
<1>3. Timely(c) => Timely(f)
  BY <1>1, <1>2 DEF Timely
<1>4. /\ Clocked(f, e) /\ Moves(f, e) /\ e \in CtxType /\ e.tm.act \in {"Write", "Idle", "Stopped"}
      /\ (Timely(f) => Timely(e)) /\ e.inner = f.inner /\ e.log = f.log
  BY <1>2, PayloadDoneClocked DEF Clocked, Moves
<1> HIDE DEF e
<1>5. /\ d \in CtxType /\ d.log = e.log /\ d.tm = e.tm /\ d.io = e.io /\ ~d.inner.pay
      /\ d.st = e.st /\ d.sc = e.sc /\ d.fut = e.fut /\ d.inner.disc = e.inner.disc
      /\ d.inner.pend = e.inner.pend /\ d.inner.started = e.inner.started
      /\ d.inner.keep = e.inner.keep /\ d.rx.whole = e.rx.whole
  BY <1>4, DropSenderFields
<1> HIDE DEF d
<1>6. Timely(e) => Timely(d)
  BY <1>5 DEF Timely
<1>7. e.io.in = f.io.in /\ e.io.phase = f.io.phase /\ e.st = f.st /\ e.sc = f.sc /\ e.fut = f.fut
      /\ e.rx.whole = f.rx.whole
  BY <1>4 DEF Moves
<1>8. d = DropSender(PayloadDone(FeedEof(Completed(c))))
  BY DEF d, e, f, b
<1> QED
  BY <1>1, <1>2, <1>3, <1>4, <1>5, <1>6, <1>7, <1>8

LEMMA PayloadEndKeeps == ASSUME Sound, PayloadEnd PROVE Keeps
<1> DEFINE t == Took(Ctx)
           p == PayloadDecoded(t, TRUE)
           d == DropSender(PayloadDone(FeedEof(Completed(p))))
<1>1. InPayload /\ pl.hold # "start" /\ io.in # <<>> /\ Head(io.in) = "end" /\ Returns(d, "ok")
  BY DEF PayloadEnd, Decoding, Completed
<1>2. /\ Ctx \in CtxType /\ Ctx.st = st /\ Ctx.inner = inner /\ Ctx.log = log /\ inner.pay
      /\ st \in {"publish", "control", "payload", "send"}
      /\ (Settled => Kept(Ctx, env.left)) /\ Ctx.fut = fut
  BY <1>1, PayloadFacts
<1>3. /\ t \in CtxType /\ t.sc = sc /\ t.st = st /\ t.fut = fut /\ t.inner = inner /\ t.log = log
      /\ t.rx = rx /\ t.tm = tm /\ Framed(t) /\ (Timely(Ctx) => Timely(t))
      /\ Rem(Ctx, env.left) \in Seq(Tokens)
      /\ Rest(Rem(Ctx, env.left), Rem(t, env.left), 1) /\ Rem(Ctx, env.left)[1] = Head(io.in)
  BY <1>1, <1>2, TookFacts
<1> HIDE DEF t
<1>4. InBody(Rem(Ctx, env.left)) => AtHead(Rem(t, env.left))
  BY <1>1, <1>3, RestEnded
<1>5. Clocked(t, p) /\ Moves(t, p) /\ p \in CtxType
  BY <1>2, <1>3, PayloadDecodedClocked DEF Clocked, Moves
<1> HIDE DEF p
<1>6. /\ p.st = st /\ p.sc = sc /\ p.fut = fut /\ p.inner = inner /\ p.log = log
      /\ (Timely(Ctx) => Timely(p)) /\ p.io.in = t.io.in /\ p.io.phase = t.io.phase
  BY <1>3, <1>5 DEF Clocked, Moves
<1>7. /\ d \in CtxType /\ d.st = p.st /\ d.fut = p.fut /\ d.sc = p.sc
      /\ d.io.in = p.io.in /\ d.io.phase = p.io.phase /\ d.log = p.log
      /\ d.rx.whole /\ ~d.inner.pay /\ d.tm.act \in {"Write", "Idle", "Stopped"}
      /\ d.inner.started = p.inner.started /\ d.inner.disc = p.inner.disc
      /\ d.inner.pend = p.inner.pend /\ d.inner.keep = p.inner.keep
      /\ Timely(p) => Timely(d)
  BY <1>5, PayloadEnded
<1> HIDE DEF d
<1>8. Framed(d)
  BY <1>2, <1>3, <1>6, <1>7 DEF Framed, Whole, Sent, Ended, Headless
<1>9. Kept(Ctx, env.left) => Kept(d, env.left)
  <2>1. Rem(d, env.left) = Rem(t, env.left) /\ d.tm.act # "Payload"
    BY <1>6, <1>7 DEF Rem, Gone
  <2> QED
    BY <1>2, <1>4, <1>6, <1>7, <2>1 DEF Kept, Base, Clean, Ended
<1>10. Good(d)
  BY <1>2, <1>6, <1>7, <1>8, <1>9 DEF Good, Spares
<1> QED
  BY <1>1, <1>2, <1>6, <1>7, <1>10, ReturnsKeeps

LEMMA PayloadBadKeeps == ASSUME Sound, PayloadBad PROVE Keeps
<1> DEFINE t == Took(Ctx)
           d == SetPayloadError(t)
<1>1. InPayload /\ pl.hold # "start" /\ io.in # <<>> /\ Returns(d, "proto")
  BY DEF PayloadBad, Decoding
<1>3. /\ Ctx \in CtxType /\ Ctx.st = st /\ Ctx.inner = inner /\ Ctx.log = log /\ inner.pay
      /\ st \in {"publish", "control", "payload", "send"}
      /\ (Settled => Kept(Ctx, env.left)) /\ Ctx.fut = fut
  BY <1>1, PayloadFacts
<1>4. /\ t \in CtxType /\ t.sc = sc /\ t.st = st /\ t.fut = fut /\ t.inner = inner /\ t.log = log
      /\ t.rx = rx /\ t.tm = tm /\ Framed(t) /\ (Timely(Ctx) => Timely(t))
  BY <1>1, <1>3, TookFacts
<1> HIDE DEF t
<1>5. Moves(t, d) /\ ~d.inner.pay /\ d.log = t.log /\ d.tm = t.tm /\ d.io = t.io
  BY <1>4, SetPayloadErrorMoves
<1> HIDE DEF d
<1>6. d \in CtxType /\ d.sc = sc /\ Framed(d) /\ Spares(Ctx, d) /\ d.st = st /\ d.fut = fut
      /\ d.inner.pend = inner.pend /\ d.log = log /\ (Timely(Ctx) => Timely(d))
  BY <1>3, <1>4, <1>5, MovesFramed DEF Moves, Spares, Timely
<1>7. Kept(Ctx, env.left) =>
        /\ Base(d, env.left) /\ d.inner.pend = "none"
        /\ d.st = "control" /\ d.fut.res = "fail" => d.fut.what # "request"
  BY <1>3, <1>5, <1>6 DEF Kept, Base
<1> QED
  BY <1>1, <1>3, <1>5, <1>6, <1>7, FailsKeeps

LEMMA ErrorMoves ==
  ASSUME NEW c \in CtxType, NEW e, Moves(c, e), Timely(c) => Timely(e)
  PROVE  /\ Moves(c, SetPayloadError(e)) /\ ~SetPayloadError(e).inner.pay
         /\ Timely(c) => Timely(SetPayloadError(e))
<1> DEFINE d == SetPayloadError(e)
<1>1. e \in CtxType
  BY DEF Moves
<1>2. Moves(e, d) /\ ~d.inner.pay /\ d.log = e.log /\ d.tm = e.tm /\ d.io = e.io
  BY <1>1, SetPayloadErrorMoves
<1> HIDE DEF d
<1>3. Timely(e) => Timely(d)
  BY <1>2 DEF Timely
<1>4. Moves(c, d)
  BY <1>1, <1>2, MovesTwice
<1> QED
  BY <1>2, <1>3, <1>4 DEF d

LEMMA PayloadDryKeeps == ASSUME Sound, PayloadDry PROVE Keeps
<1> DEFINE a == [Ctx EXCEPT !.io.paused = FALSE]
           b == Registered(a)
           c == PayloadDecoded(b, FALSE)
           s == SuspendRead(c)
           d == IF io.filter THEN s ELSE c
           e == SetPayloadError(Ctx)
<1>1. InPayload /\ pl.hold # "start" /\ (Returns(e, "gone") \/ Breaks(d))
  BY DEF PayloadDry, Decoding
<1>2. Ctx \in CtxType /\ Ctx.inner = inner /\ inner.pay
  BY <1>1, PayloadFacts
<1>3. CASE Returns(e, "gone")
  <2>1. Moves(Ctx, e) /\ ~e.inner.pay /\ (Timely(Ctx) => Timely(e))
    BY <1>2, MovesSame, ErrorMoves
  <2> HIDE DEF e
  <2> QED
    BY <1>1, <1>2, <1>3, <2>1, FailedKeeps
<1>4. CASE Breaks(d)
  <2>1. Clocked(Ctx, a) /\ a \in CtxType
    BY <1>2, PausedClocked DEF Clocked, Moves
  <2> HIDE DEF a
  <2>2. Clocked(a, b) /\ b \in CtxType
    BY <2>1, RegisteredClocked DEF Clocked, Moves
  <2> HIDE DEF b
  <2>3. Clocked(Ctx, b) /\ b.inner.pay
    BY <1>2, <2>1, <2>2, ClockedTwice DEF Clocked
  <2>4. Clocked(b, c) /\ c \in CtxType
    BY <2>2, <2>3, PayloadDecodedClocked DEF Clocked, Moves
  <2> HIDE DEF c
  <2>5. Clocked(Ctx, c)
    BY <1>2, <2>3, <2>4, ClockedTwice
  <2>6. Clocked(c, s)
    BY <2>4, SuspendReadClocked
  <2> HIDE DEF s
  <2>7. Clocked(Ctx, s)
    BY <1>2, <2>5, <2>6, ClockedTwice
  <2>8. Clocked(Ctx, d)
    BY <2>5, <2>7
  <2> HIDE DEF d
  <2>9. Moves(Ctx, d) /\ (Timely(Ctx) => Timely(d)) /\ d.inner.pay = inner.pay
    BY <1>2, <2>8 DEF Clocked
  <2> QED
    BY <1>1, <1>2, <1>4, <2>9, ClockedReturns
<1> QED
  BY <1>1, <1>3, <1>4

LEMMA PayloadHeldKeeps == ASSUME Sound, PayloadHeld PROVE Keeps
<1> DEFINE f == FlushTimed(Ctx)
           p == PausePayload(f)
           e == SetPayloadError(f)
<1>1. /\ InPayload /\ pl.hold # "start"
      /\ \/ FlushResult(Ctx) = "ok" /\ Loops(f, "none", pl.updated)
         \/ FlushResult(Ctx) = "failed" /\ Returns(e, "gone")
         \/ FlushResult(Ctx) = "pending" /\ Breaks(p)
  <2>1. FlushResult(Ctx) \in {"ok", "failed", "pending"}
    BY DEF FlushResult
  <2>2. /\ CASE FlushResult(Ctx) = "ok" -> Loops(f, "none", pl.updated)
             [] FlushResult(Ctx) = "failed" -> Returns(e, "gone")
             [] FlushResult(Ctx) = "pending" -> Breaks(p)
        /\ InPayload /\ pl.hold # "start"
    BY DEF PayloadHeld, Decoding
  <2> HIDE DEF f, p, e
  <2> QED
    BY <2>1, <2>2
<1>2. Ctx \in CtxType /\ Ctx.inner = inner /\ inner.pay /\ pl.updated \in BOOLEAN
  BY <1>1, PayloadFacts DEF PlType
<1>3. /\ Moves(Ctx, f) /\ (Timely(Ctx) => Timely(f)) /\ f \in CtxType
      /\ FlushResult(Ctx) # "failed" => f.inner.pay = inner.pay
  BY <1>2, FlushTimedMoves DEF Moves
<1> HIDE DEF f
<1>4. Moves(Ctx, e) /\ ~e.inner.pay /\ (Timely(Ctx) => Timely(e))
  BY <1>2, <1>3, ErrorMoves
<1> HIDE DEF e
<1>5. Moves(f, p) /\ (Timely(f) => Timely(p)) /\ p.inner = f.inner
  BY <1>3, PausePayloadClocked DEF Clocked
<1> HIDE DEF p
<1>6. Moves(Ctx, p)
  BY <1>2, <1>3, <1>5, MovesTwice
<1>7. CASE FlushResult(Ctx) = "ok" /\ Loops(f, "none", pl.updated)
  BY <1>1, <1>2, <1>3, <1>7, ClockedLoops
<1>8. CASE FlushResult(Ctx) = "failed" /\ Returns(e, "gone")
  BY <1>1, <1>2, <1>4, <1>8, FailedKeeps
<1>9. CASE FlushResult(Ctx) = "pending" /\ Breaks(p)
  BY <1>1, <1>2, <1>3, <1>5, <1>6, <1>9, ClockedReturns
<1> QED
  BY <1>1, <1>7, <1>8, <1>9

LEMMA TimesOutPayload ==
  ASSUME NEW c \in CtxType, NEW enough \in BOOLEAN, c.inner.pay, Headless(c), TimesOut(c, enough)
  PROVE  ~HandleTimeout(c, enough).inner.pay
<1> DEFINE n == Extend(c, enough)
           l == Late(n, Purpose(n))
<1>1. c.tm.act = "Payload"
  BY DEF TimesOut, Headless
<1>2. n \in CtxType
  BY <1>1, ExtendClocked DEF Clocked, Moves
<1>3. HandleTimeout(c, enough) = SetPayloadError(l)
  BY <1>1 DEF HandleTimeout
<1> HIDE DEF n
<1>4. l \in CtxType
  BY <1>2, LateMoves DEF Moves
<1> HIDE DEF l
<1> QED
  BY <1>3, <1>4, SetPayloadErrorMoves

LEMMA PayloadTimeoutKeeps == ASSUME Sound, PayloadTimeout PROVE Keeps
<1>1. InPayload /\ pl.hold = "timeout"
  BY DEF PayloadTimeout, Decoding
<1>2. PICK enough \in BOOLEAN :
        IF TimesOut(Ctx, enough) THEN Returns(HandleTimeout(Ctx, enough), "proto")
        ELSE Loops(HandleTimeout(Ctx, enough), "none", pl.updated)
  BY DEF PayloadTimeout
<1> DEFINE h == HandleTimeout(Ctx, enough)
<1>3. Ctx \in CtxType /\ Ctx.inner = inner /\ inner.pay /\ pl.updated \in BOOLEAN /\ Headless(Ctx)
      /\ (Settled => Due(Ctx))
  BY <1>1, PayloadFacts DEF PlType, Loose, Held
<1>4. /\ Moves(Ctx, h) /\ (Settled /\ Timely(Ctx) => Timely(h))
      /\ ~TimesOut(Ctx, enough) => h.inner.pay = inner.pay
  BY <1>3, HandleTimeoutMoves
<1>5. TimesOut(Ctx, enough) => ~h.inner.pay
  BY <1>3, TimesOutPayload
<1>6. CASE TimesOut(Ctx, enough)
  <2>1. Returns(h, "proto")
    BY <1>2, <1>6
  <2> HIDE DEF h
  <2> QED
    BY <1>1, <1>3, <1>4, <1>5, <1>6, <2>1, FailedKeeps
<1>7. CASE ~TimesOut(Ctx, enough)
  <2>1. Loops(h, "none", pl.updated)
    BY <1>2, <1>7
  <2> HIDE DEF h
  <2> QED
    BY <1>1, <1>3, <1>4, <1>7, <2>1, ClockedLoops
<1> QED
  BY <1>6, <1>7

-----------------------------------------------------------------------------
(* The poll goes on with the result *)

LEMMA PendFields ==
  ASSUME NEW c \in CtxType, NEW r \in {"proto", "gone"}
  PROVE  LET d == [c EXCEPT !.inner.pend = r]
         IN /\ Retold(c, d) /\ d.inner.pend = r /\ d.inner.disc = c.inner.disc
            /\ d.inner.keep = c.inner.keep
<1> DEFINE n == [c.inner EXCEPT !.pend = r]
<1>1. c.inner \in InnerType
  BY Parts
<1>2. /\ n \in InnerType /\ n.pend = r /\ n.disc = c.inner.disc /\ n.keep = c.inner.keep
      /\ n.pay = c.inner.pay /\ n.started = c.inner.started
  BY <1>1 DEF InnerType
<1>3. [c EXCEPT !.inner.pend = r] = Inner(c, n)
  BY DEF CtxType, Inner
<1> HIDE DEF n
<1>4. Retold(c, Inner(c, n)) /\ Inner(c, n).inner = n
  BY <1>2, InnerFields DEF Retold
<1> QED
  BY <1>2, <1>3, <1>4

LEMMA SentFields ==
  ASSUME NEW c \in CtxType
  PROVE  LET d == [c EXCEPT !.inner.disc = "sent"]
         IN /\ Retold(c, d) /\ d.inner.pend = c.inner.pend /\ d.inner.disc = "sent"
            /\ d.inner.keep = c.inner.keep
<1> DEFINE n == [c.inner EXCEPT !.disc = "sent"]
<1>1. c.inner \in InnerType
  BY Parts
<1>2. /\ n \in InnerType /\ n.disc = "sent" /\ n.pend = c.inner.pend /\ n.keep = c.inner.keep
      /\ n.pay = c.inner.pay /\ n.started = c.inner.started
  BY <1>1 DEF InnerType
<1>3. [c EXCEPT !.inner.disc = "sent"] = Inner(c, n)
  BY DEF CtxType, Inner
<1> HIDE DEF n
<1>4. Retold(c, Inner(c, n)) /\ Inner(c, n).inner = n
  BY <1>2, InnerFields DEF Retold
<1> QED
  BY <1>2, <1>3, <1>4

LEMMA ReturnFacts ==
  ASSUME Sound, pc = "return"
  PROVE  /\ Ctx \in CtxType /\ st \in {"publish", "control", "payload", "send"}
         /\ Ctx.st = st /\ Ctx.inner = inner /\ Ctx.log = log /\ Ctx.fut = fut
         /\ Framed(Ctx) /\ Loose(Ctx) /\ Ctx.sc = sc /\ (Settled => Base(Ctx, env.left))
         /\ Failed => pl.res \in {"proto", "gone"}
         /\ Failed /\ Settled => /\ ~inner.pay /\ inner.pend = "none"
                                 /\ st = "control" /\ fut.res = "fail" => fut.what # "request"
<1>1. st \in {"publish", "control", "payload", "send"}
  BY DEF Sound, Places
<1>2. Failed /\ Settled => /\ ~inner.pay /\ inner.pend = "none"
                           /\ st = "control" /\ fut.res = "fail" => fut.what # "request"
  BY DEF Settled
<1> QED
  BY <1>1, <1>2, SoundTypes, CtxFields, SettledBase DEF Failed

LEMMA PublishReturnKeeps == ASSUME Sound, PublishReturn PROVE Keeps
<1>1. pc = "return" /\ st = "publish"
  BY DEF PublishReturn
<1>2. CASE Failed
  <2>1. Goes(CtlPeerGone(Ctx)) \/ Goes(CtlProtoErr(Ctx))
    BY <1>2 DEF PublishReturn, CtlPayloadErr
  <2>2. Good(CtlPeerGone(Ctx)) /\ Good(CtlProtoErr(Ctx))
    BY <1>1, MovesSame, CtlGood
  <2> QED
    BY <2>1, <2>2, GoesKeeps
<1>3. CASE ~Failed
  BY <1>3, CtxGood, GoesKeeps DEF PublishReturn
<1> QED
  BY <1>2, <1>3

LEMMA ControlReturnKeeps == ASSUME Sound, ControlReturn PROVE Keeps
<1> DEFINE d == [Ctx EXCEPT !.inner.pend = pl.res]
<1>1. pc = "return" /\ st = "control"
  BY DEF ControlReturn
<1>2. CASE Failed
  <2>1. /\ Ctx \in CtxType /\ Ctx.st = st /\ Ctx.inner = inner /\ Ctx.log = log /\ Ctx.fut = fut
        /\ Framed(Ctx) /\ Ctx.sc = sc /\ (Settled => Base(Ctx, env.left))
        /\ pl.res \in {"proto", "gone"}
        /\ Settled => /\ ~inner.pay /\ inner.pend = "none"
                      /\ st = "control" /\ fut.res = "fail" => fut.what # "request"
    BY <1>1, <1>2, ReturnFacts
  <2>2. Waits(d)
    BY <1>2 DEF ControlReturn
  <2>3. Retold(Ctx, d) /\ d.inner.pend = pl.res /\ d.inner.disc = inner.disc /\ d.inner.keep = inner.keep
    BY <2>1, PendFields
  <2> HIDE DEF d
  <2>4. Framed(d) /\ Spares(Ctx, d) /\ d \in CtxType /\ d.sc = sc
    BY <2>1, <2>3 DEF Framed, Retold, Sent, Whole, Headless, Ended, Spares
  <2>5. Settled => Kept(d, env.left)
    BY <1>1, <2>1, <2>3 DEF Kept, Base, Retold, Free, Rem, Gone, Timely, Ended
  <2> QED
    BY <2>2, <2>4, <2>5, GoesKeeps DEF Good
<1>3. CASE ~Failed
  BY <1>3, CtxGood, GoesKeeps DEF ControlReturn
<1> QED
  BY <1>2, <1>3

\* The dispatcher stops.
LEMMA StopGood ==
  ASSUME NEW e \in CtxType, e.sc = sc, ~e.log.mixed, e.log.resp <= e.log.reqs + Sent(e), Whole(e),
         Settled /\ ~sc.rejects => Base(e, env.left), Spares(Ctx, e)
  PROVE  Good(Stop(e))
<1> DEFINE d == Stop(e)
<1>1. /\ d \in CtxType /\ d.st = "stop" /\ d.sc = e.sc /\ d.fut = e.fut /\ d.io.phase = e.io.phase
      /\ d.io.in = e.io.in /\ d.inner = e.inner /\ d.rx = e.rx /\ d.log = e.log
      /\ d.tm.act = "Stopped" /\ (~e.log.stale => Timely(d))
  BY StopFields
<1> HIDE DEF d
<1>2. Framed(d) /\ Spares(Ctx, d)
  BY <1>1 DEF Framed, Sent, Whole, Headless, Ended, Spares
<1>3. Base(e, env.left) => Kept(d, env.left)
  BY <1>1 DEF Kept, Base, Rem, Gone, Timely, TimelyAt, Ended
<1> QED
  BY <1>1, <1>2, <1>3 DEF Good, d

\* The response after the report of a failure is not another message.
LEMMA LastResponse ==
  ASSUME NEW c \in CtxType, c.inner.disc = "sent", NEW res \in {"empty", "body"}
  PROVE  LET d == SendResponse(c, res, FALSE)
         IN (d.fut = c.fut \/ d.fut.what = "body") /\ d.log.told = c.log.told
<1> DEFINE close == c.inner.disc = "pending" \/ (c.inner.pay /\ ~c.rx.alive)
           k == c.inner.keep /\ ~close
           done == res # "body"
           h == Headed(c, k, done)
           f == Fill(h, FALSE)
           a == Answered(f)
<1>1. k \in BOOLEAN /\ done \in BOOLEAN
  BY Parts DEF InnerType
<1>2. /\ ~Active(c) => SendResponse(c, res, FALSE) = CtlPeerGone(c)
      /\ Active(c) => SendResponse(c, res, FALSE) \in {ResponseDone(f), Opened(f)}
  BY DEF SendResponse, Headed, Opened
<1> HIDE DEF k, done
<1>3. h \in CtxType /\ h.fut = c.fut /\ h.log.told = c.log.told /\ h.inner.disc = "sent"
  BY <1>1, HeadedFields
<1> HIDE DEF h
<1>4. f \in CtxType /\ f.fut = c.fut /\ f.log.told = c.log.told /\ f.inner.disc = "sent"
  BY <1>3, FillClocked DEF Clocked, Moves
<1> HIDE DEF f
<1>5. a \in CtxType /\ a.fut = c.fut /\ a.log.told = c.log.told /\ a.inner.disc = "sent"
  BY <1>4, AnsweredFields
<1>6. ResponseDone(f) = CheckDisconnect(a)
  BY <1>4 DEF ResponseDone, Answered
<1> HIDE DEF a
<1>7. ResponseDone(f) = Stop(a) /\ CtlPeerGone(c) = Stop(c)
  BY <1>5, <1>6 DEF CheckDisconnect, CtlPeerGone, CtlDisconnect
<1>8. /\ Stop(a).fut = a.fut /\ Stop(a).log = a.log
      /\ Stop(c).fut = c.fut /\ Stop(c).log = c.log
  BY <1>5, StopFields
<1>9. Opened(f).fut.what = "body" /\ Opened(f).log.told = f.log.told
  <2>1. Opened(f).log.told = f.log.told
    BY <1>4, OpenedFields
  <2>2. Opened(f).fut = Call("body")
    BY <1>4 DEF Opened, CtxType
  <2> QED
    BY <2>1, <2>2 DEF Call
<1> QED
  BY <1>2, <1>4, <1>5, <1>7, <1>8, <1>9

LEMMA PayloadReturnKeeps == ASSUME Sound, PayloadReturn PROVE Keeps
<1> DEFINE report == CtlPayloadErr(Ctx, pl.res)
           last(res) == SendResponse(report, res, FALSE)
           s == [Ctx EXCEPT !.inner.disc = "sent"]
<1>1. /\ pc = "return" /\ st = "payload"
      /\ \/ Goes(Stop(s)) /\ Failed
         \/ Goes(Stop(report)) /\ Failed
         \/ Failed /\ \E res \in {"empty", "body"} : Goes(Stop(last(res)))
         \/ ~Failed /\ Goes(CheckDisconnect(Ctx))
         \/ ~Failed /\ (Waits(Ctx) \/ Goes(Ctx))
         \/ ~Failed /\ ~inner.pay /\ Goes(NextRequest(Ctx))
  BY DEF PayloadReturn
<1>2. /\ Ctx \in CtxType /\ Ctx.st = st /\ Ctx.inner = inner /\ Ctx.log = log /\ Ctx.fut = fut
      /\ Framed(Ctx) /\ Loose(Ctx) /\ Ctx.sc = sc /\ (Settled => Base(Ctx, env.left))
      /\ log.resp <= log.reqs /\ ~log.open
  BY <1>1, ReturnFacts DEF Framed
<1>3. CASE Goes(Stop(s))
  <2>1. Retold(Ctx, s) /\ s.inner.pend = inner.pend /\ s.inner.disc = "sent"
    BY <1>2, SentFields
  <2> HIDE DEF s
  <2>2. ~s.log.mixed /\ s.log.resp <= s.log.reqs + Sent(s) /\ Whole(s) /\ Spares(Ctx, s)
    BY <1>2, <2>1, Counts DEF Loose, Retold, Whole, Spares, Sent
  <2>3. Settled => Base(s, env.left)
    BY <1>2, <2>1 DEF Base, Retold, Rem, Gone, Timely
  <2>4. Good(Stop(s))
    BY <1>2, <2>1, <2>2, <2>3, StopGood DEF Retold
  <2> QED
    BY <1>3, <2>4, GoesKeeps
<1>4. PICK msg \in {"gone", "proto"} : Ends(Ctx, report, msg)
  BY <1>2, CtlPayloadErrEnds
<1> HIDE DEF report
<1>5. /\ report \in CtxType /\ report.sc = sc /\ Framed(report) /\ Loose(report)
      /\ (Settled => Base(report, env.left)) /\ Spares(Ctx, report)
  <2>1. msg \in Msgs /\ msg # "error" /\ msg # "keepalive"
    BY DEF Msgs
  <2>2. Kept(report, env.left) => Base(report, env.left)
    BY DEF Kept
  <2> QED
    BY <1>2, <1>4, <2>1, <2>2, EndsGood
<1>6. CASE Goes(Stop(report))
  <2>1. Good(Stop(report))
    BY <1>5, StopGood DEF Loose
  <2> QED
    BY <1>6, <2>1, GoesKeeps
<1>7. ASSUME NEW res \in {"empty", "body"}, Goes(Stop(last(res))) PROVE Keeps
  <2> DEFINE x == last(res)
  <2>1. report.inner.disc = "sent" /\ ~report.log.open /\ report.log.resp + 1 <= report.log.reqs + Sent(report)
    BY <1>2, <1>4, Counts DEF Ends, Sent
  <2>2. /\ x \in CtxType /\ x.sc = sc /\ Framed(x)
        /\ (Fit(report, env.left) /\ Reports(report) => Kept(x, env.left))
        /\ Spares(report, x)
    BY <1>5, <2>1, SendResponseGood
  <2>3. Settled => Base(x, env.left)
    BY <1>5, <2>1, <2>2 DEF Fit, Free, Reports, Kept
  <2>4. (x.fut = report.fut \/ x.fut.what = "body") /\ x.log.told = report.log.told
    BY <1>5, <2>1, LastResponse
  <2> HIDE DEF x
  <2>5. Spares(Ctx, x)
    BY <1>4, <2>4 DEF Spares, Ends
  <2>6. Good(Stop(x))
    BY <2>2, <2>3, <2>5, StopGood DEF Framed
  <2> QED
    BY <1>7, <2>6, GoesKeeps DEF x
<1>8. CASE ~Failed /\ Goes(CheckDisconnect(Ctx))
  BY <1>1, <1>8, MovesSame, CtlGood, GoesKeeps
<1>9. CASE ~Failed /\ (Waits(Ctx) \/ Goes(Ctx))
  BY <1>9, CtxGood, GoesKeeps
<1>10. CASE ~Failed /\ ~inner.pay /\ Goes(NextRequest(Ctx))
  <2> DEFINE d == NextRequest(Ctx)
  <2>1. d \in CtxType /\ d.sc = sc /\ Framed(d) /\ Spares(Ctx, d)
        /\ (Fit(Ctx, env.left) /\ Reports(Ctx) => Kept(d, env.left))
    BY <1>2, <1>10, NextRequestGood
  <2>2. Settled => Fit(Ctx, env.left) /\ Reports(Ctx)
    <3>1. Settled => Kept(Ctx, env.left)
      BY <1>10 DEF Settled
    <3>2. ~Ended(Ctx) /\ Ctx.st # "control"
      BY <1>1, <1>2 DEF Ended
    <3> QED
      BY <3>1, <3>2, KeptFit
  <2> HIDE DEF d
  <2>3. Goes(d)
    BY <1>10 DEF d
  <2> QED
    BY <2>1, <2>2, <2>3, GoesKeeps DEF Good
<1> QED
  BY <1>1, <1>3, <1>6, <1>7, <1>8, <1>9, <1>10

-----------------------------------------------------------------------------
(* Bodies *)

LEMMA RetoldLoose ==
  ASSUME Sound, st = "send", NEW c, Retold(Ctx, c), c.inner.disc = inner.disc, c.inner.keep = inner.keep
  PROVE  /\ c \in CtxType /\ Loose(c) /\ c.sc = sc /\ c.log.told = log.told /\ c.st = "send" /\ Framed(c)
<1>1. Ctx \in CtxType /\ Framed(Ctx) /\ Loose(Ctx) /\ Ctx.sc = sc /\ Ctx.log = log /\ Ctx.st = st
      /\ Ctx.inner = inner
  BY SoundTypes, CtxFields
<1> QED
  BY <1>1 DEF Retold, Loose, Framed, Sent, Whole, Headless, Ended

LEMMA AfterFailureKeeps ==
  ASSUME Sound, st = "send", NEW c, Retold(Ctx, c), c.inner.disc = inner.disc,
         c.inner.keep = inner.keep, Settled => Base(c, env.left),
         NEW failure, AfterFailure(c, failure)
  PROVE  Keeps
<1> DEFINE d == [c EXCEPT !.inner.disc = "sent"]
<1>1. c \in CtxType /\ Loose(c) /\ c.sc = sc /\ c.log.told = log.told /\ c.st = "send" /\ Framed(c)
  BY RetoldLoose
<1>2. Goes(CtlPeerGone(c)) \/ Sending(d)
  BY DEF AfterFailure
<1>3. CASE Goes(CtlPeerGone(c))
  BY <1>1, <1>3, CtlGoodIn, GoesKeeps
<1>4. CASE Sending(d)
  <2>1. Retold(c, d) /\ d.inner.pend = c.inner.pend /\ d.inner.disc = "sent" /\ d.inner.keep = c.inner.keep
    BY <1>1, SentFields
  <2> HIDE DEF d
  <2>2. d \in CtxType /\ d.sc = sc /\ d.st = "send" /\ Spares(Ctx, d)
    BY <1>1, <2>1, CtxFields DEF Retold, Spares
  <2>3. Framed(d)
    <3>1. d.log.resp <= d.log.reqs + Sent(d)
      BY <1>1, <2>1, Counts DEF Framed, Retold, Sent
    <3> QED
      BY <1>1, <2>1, <2>2, <3>1 DEF Framed, Retold, Whole, Headless, Ended
  <2>4. Settled => Kept(d, env.left)
    BY <1>1, <2>1 DEF Kept, Base, Retold, Free, Rem, Gone, Timely, Ended
  <2> QED
    BY <1>4, <2>2, <2>3, <2>4, SendingKeeps DEF Good
<1> QED
  BY <1>2, <1>3, <1>4

LEMMA SendPayloadKeeps == ASSUME Sound, SendPayload PROVE Keeps
<1> DEFINE p == [Ctx EXCEPT !.inner.pend = "none"]
<1>1. pc = "run" /\ st = "send" /\ Ctx \in CtxType /\ Ctx.inner = inner /\ Ctx.st = st
      /\ (Settled => Base(Ctx, env.left))
  BY SoundTypes, CtxFields, SettledBase DEF SendPayload, Turn
<1>2. \/ AfterFailure(p, inner.pend)
      \/ Goes(CtlPeerGone(Ctx))
      \/ Sending(Ctx)
      \/ /\ pc' = "payload" /\ pl' = [hold |-> "start", updated |-> FALSE, res |-> "none"]
         /\ UNCHANGED <<disp, svc, env, sc>>
  BY DEF SendPayload
<1>3. CASE AfterFailure(p, inner.pend)
  <2>1. Retold(Ctx, p) /\ p.inner.pend = "none" /\ p.inner.disc = inner.disc /\ p.inner.keep = inner.keep
    BY <1>1, UnpendFields
  <2> HIDE DEF p
  <2>2. Settled => Base(p, env.left)
    BY <1>1, <2>1 DEF Base, Retold, Rem, Gone, Timely
  <2> QED
    BY <1>1, <1>3, <2>1, <2>2, AfterFailureKeeps
<1>4. CASE Goes(CtlPeerGone(Ctx))
  BY <1>1, <1>4, MovesSame, CtlGood, GoesKeeps
<1>5. CASE Sending(Ctx)
  BY <1>1, <1>5, CtxGood, SendingKeeps
<1>6. CASE /\ pc' = "payload" /\ pl' = [hold |-> "start", updated |-> FALSE, res |-> "none"]
           /\ UNCHANGED <<disp, svc, env, sc>>
  BY <1>1, <1>6, PollsKeeps
<1> QED
  BY <1>2, <1>3, <1>4, <1>5, <1>6

LEMMA SendReturnKeeps == ASSUME Sound, SendReturn PROVE Keeps
<1>1. pc = "return" /\ st = "send" /\ Ctx \in CtxType /\ Ctx.inner = inner /\ Ctx.st = st
      /\ (Settled => Base(Ctx, env.left))
  BY SoundTypes, CtxFields, SettledBase DEF SendReturn
<1>2. CASE Failed
  <2>1. Retold(Ctx, Ctx)
    BY <1>1 DEF Retold
  <2> QED
    BY <1>1, <1>2, <2>1, AfterFailureKeeps DEF SendReturn
<1>3. CASE ~Failed
  BY <1>1, <1>3, CtxGood, SendingKeeps DEF SendReturn
<1> QED
  BY <1>2, <1>3

LEMMA SendStopsKeeps == ASSUME Sound, SendStops PROVE Keeps
<1>1. pc = "send" /\ st = "send" /\ pc # "return"
  BY DEF SendStops, Sound, Places
<1>2. \/ Goes(CtlPeerGone(Ctx))
      \/ Goes(CtlPeerGone(FlushTimed(Ctx)))
      \/ FlushResult(Ctx) # "failed" /\ Waits(FlushTimed(Ctx))
  BY DEF SendStops
<1>3. Good(CtlPeerGone(Ctx))
  BY <1>1, MovesSame, CtlGood
<1>4. /\ Good(CtlPeerGone(FlushTimed(Ctx)))
      /\ FlushResult(Ctx) # "failed" => Good(FlushTimed(Ctx))
  BY <1>1, MovesSame, FlushGood
<1> QED
  BY <1>2, <1>3, <1>4, GoesKeeps

LEMMA FlushedGood ==
  ASSUME Sound, CanSend
  PROVE  /\ pc = "send" /\ st = "send" /\ Moves(Ctx, Flushed) /\ (Timely(Ctx) => Timely(Flushed))
         /\ Flushed.inner.pay = inner.pay /\ Good(Flushed) /\ Flushed \in CtxType
         /\ Flushed.st = "send" /\ Flushed.log.told = log.told /\ Flushed.sc = sc
<1>1. pc = "send" /\ st = "send" /\ (io.full => FlushResult(Ctx) = "ok")
  BY DEF CanSend, Sound, Places
<1>2. Ctx \in CtxType /\ Ctx.inner = inner /\ Ctx.st = st /\ Ctx.log = log /\ Ctx.sc = sc
  BY SoundTypes, CtxFields
<1>3. Moves(Ctx, Flushed) /\ (Timely(Ctx) => Timely(Flushed)) /\ Flushed.inner.pay = inner.pay
  BY <1>1, <1>2, FlushTimedMoves, ReleaseWriteClocked DEF Flushed, Clocked
<1>4. Good(Flushed)
  BY <1>1, <1>2, <1>3, GoodMoves
<1> QED
  BY <1>1, <1>2, <1>3, <1>4 DEF Moves

LEMMA BodyPendingKeeps == ASSUME Sound, BodyPending PROVE Keeps
<1> DEFINE f == Flushed
           r == Registered(f)
<1>1. CanSend /\ (Goes(CtlPeerGone(f)) \/ Waits(r))
  BY DEF BodyPending
<1>2. st = "send" /\ Moves(Ctx, f) /\ (Timely(Ctx) => Timely(f)) /\ Good(f) /\ f \in CtxType
  BY <1>1, FlushedGood
<1> HIDE DEF f
<1>3. Good(CtlPeerGone(f))
  BY <1>2, CtlGood
<1>4. Good(r)
  BY <1>2, RegisteredClocked, GoodOn
<1> QED
  BY <1>1, <1>3, <1>4, GoesKeeps

\* The response is complete.
LEMMA DoneGood ==
  ASSUME NEW c, Good(c), c.st = "send", c.log.told = log.told
  PROVE  Good(ResponseDone(c))
<1> DEFINE d == ResponseDone(c)
<1>1. c \in CtxType /\ c.sc = sc /\ Framed(c) /\ (Settled /\ ~sc.rejects => Kept(c, env.left))
  BY DEF Good
<1>2. d \in CtxType /\ d.sc = sc /\ Framed(d) /\ Spares(c, d)
      /\ (Fit(c, env.left) /\ Reports(c) => Kept(d, env.left))
  BY <1>1, ResponseDoneGood DEF Framed
<1> HIDE DEF d
<1>3. Kept(c, env.left) => Fit(c, env.left) /\ Reports(c)
  BY KeptFit DEF Ended
<1>4. Spares(Ctx, d)
  BY <1>2, CtxFields DEF Spares
<1> QED
  BY <1>1, <1>2, <1>3, <1>4 DEF Good, d

\* A chunk of the body is taken.
Chunked(c, done) ==
  [c EXCEPT !.fut.res = "pending", !.fut.chunks = @ + 1, !.inner.complete = done]

LEMMA ChunkedFields ==
  ASSUME NEW c \in CtxType, NEW done \in BOOLEAN
  PROVE  LET d == Chunked(c, done)
         IN /\ d \in CtxType /\ d.st = c.st /\ d.fut.what = c.fut.what /\ d.sc = c.sc /\ d.tm = c.tm
            /\ d.io = c.io /\ d.rx = c.rx /\ d.log = c.log /\ d.inner.pay = c.inner.pay
            /\ d.inner.started = c.inner.started /\ d.inner.disc = c.inner.disc
            /\ d.inner.pend = c.inner.pend /\ d.inner.keep = c.inner.keep
<1> DEFINE n == [c.inner EXCEPT !.complete = done]
           m == c.fut.chunks + 1
           f == [c.fut EXCEPT !.res = "pending", !.chunks = m]
           d == [c EXCEPT !.fut = f, !.inner = n]
<1>1. c.inner \in InnerType /\ c.fut \in FutType
  BY Parts
<1>2. /\ n \in InnerType /\ n.pend = c.inner.pend /\ n.disc = c.inner.disc
      /\ n.started = c.inner.started /\ n.keep = c.inner.keep /\ n.pay = c.inner.pay
  BY <1>1 DEF InnerType
<1>3. m \in Nat
  BY <1>1 DEF FutType
<1>4. Chunked(c, done) = d
  BY DEF CtxType, Chunked
<1> HIDE DEF n, m
<1>5. f \in FutType /\ f.what = c.fut.what
  BY <1>1, <1>3 DEF FutType
<1> HIDE DEF f
<1>6. /\ d \in CtxType /\ d.st = c.st /\ d.fut = f /\ d.sc = c.sc /\ d.tm = c.tm
      /\ d.io = c.io /\ d.rx = c.rx /\ d.log = c.log /\ d.inner = n
  BY <1>2, <1>5 DEF CtxType
<1> HIDE DEF d
<1> QED
  BY <1>2, <1>4, <1>5, <1>6

LEMMA BodyChunkKeeps == ASSUME Sound, BodyChunk PROVE Keeps
<1>1. CanSend
  BY DEF BodyChunk
<1> DEFINE f == Flushed
           done == f.inner.complete \/ fut.res = "full"
           k == Chunked(f, done)
<1>2. PICK fills \in BOOLEAN :
        LET c == Fill(k, fills)
            over == inner.complete \/ (c.inner.complete /\ ~c.io.full)
        IN /\ MayFill(fills) /\ Becomes(IF over THEN ResponseDone(c) ELSE c)
           /\ pc' = (IF over THEN "run" ELSE "send")
           /\ Spends(fills) /\ UNCHANGED <<pl, svc, sc>>
  BY DEF BodyChunk, Chunked
<1> DEFINE c == Fill(k, fills)
<1>3. /\ f \in CtxType /\ Good(f) /\ f.st = "send" /\ f.log.told = log.told /\ f.sc = sc
  BY <1>1, FlushedGood
<1>4. Framed(f) /\ (Settled /\ ~sc.rejects => Kept(f, env.left)) /\ Spares(Ctx, f)
  BY <1>3 DEF Good
<1> HIDE DEF f
<1>5. done \in BOOLEAN
  BY <1>3, Parts DEF InnerType
<1> HIDE DEF done
<1>6. /\ k \in CtxType /\ k.st = f.st /\ k.fut.what = f.fut.what /\ k.sc = f.sc /\ k.tm = f.tm
      /\ k.io = f.io /\ k.rx = f.rx /\ k.log = f.log /\ k.inner.pay = f.inner.pay
      /\ k.inner.started = f.inner.started /\ k.inner.disc = f.inner.disc
      /\ k.inner.pend = f.inner.pend /\ k.inner.keep = f.inner.keep
  BY <1>3, <1>5, ChunkedFields
<1> HIDE DEF k
<1>7. Framed(k) /\ Spares(Ctx, k)
  BY <1>3, <1>4, <1>6 DEF Framed, Sent, Whole, Headless, Ended, Spares
<1>8. Kept(f, env.left) => Kept(k, env.left)
  BY <1>3, <1>6 DEF Kept, Base, Free, Clean, Rem, Gone, Timely, Ended
<1>9. Good(k)
  BY <1>3, <1>4, <1>6, <1>7, <1>8 DEF Good
<1>10. Clocked(k, c)
  BY <1>6, FillClocked
<1> HIDE DEF c
<1>11. Good(c) /\ c.st = "send" /\ c.log.told = log.told
  BY <1>3, <1>6, <1>9, <1>10, GoodOn DEF Clocked, Moves
<1>12. Good(ResponseDone(c))
  BY <1>11, DoneGood
<1>13. /\ fills => env.fills > 0
       /\ Spends(fills) /\ UNCHANGED <<pl, svc, sc>>
       /\ \/ Becomes(ResponseDone(c)) /\ pc' = "run"
          \/ Becomes(c) /\ pc' = "send"
  BY <1>2 DEF c, MayFill
<1>14. env' \in EnvType /\ env'.left = env.left /\ pl' \in PlType /\ svc' \in {"ready", "busy", "failed"}
       /\ sc' = sc
  BY <1>13, SpendsType, SoundTypes
<1>15. CASE Becomes(ResponseDone(c)) /\ pc' = "run"
  BY <1>12, <1>14, <1>15, StepKeeps
<1>16. CASE Becomes(c) /\ pc' = "send"
  BY <1>11, <1>14, <1>16, StepKeeps
<1> QED
  BY <1>13, <1>15, <1>16

LEMMA BodyEndsKeeps == ASSUME Sound, BodyEnds PROVE Keeps
<1> DEFINE f == Flushed
<1>1. CanSend /\ (Goes(ResponseDone(f)) \/ Goes(CtlProtoErr(f)))
  BY DEF BodyEnds
<1>2. st = "send" /\ Moves(Ctx, f) /\ (Timely(Ctx) => Timely(f)) /\ Good(f) /\ f \in CtxType
      /\ f.st = "send" /\ f.log.told = log.told
  BY <1>1, FlushedGood
<1> HIDE DEF f
<1>3. Good(CtlProtoErr(f))
  BY <1>2, CtlGood
<1>4. Good(ResponseDone(f))
  BY <1>2, DoneGood
<1> QED
  BY <1>1, <1>3, <1>4, GoesKeeps

-----------------------------------------------------------------------------
(* The application, the services and the transport *)

\* An answer is there.
Answers(c, r) == Wakes([c EXCEPT !.fut.res = r])
Results == Replies \cup {"pending", "ack", "fail", "handled", "chunk", "full", "end"}

LEMMA AnswersFields ==
  ASSUME NEW c \in CtxType, NEW r \in Results
  PROVE  LET d == Answers(c, r)
         IN /\ d \in CtxType /\ d.st = c.st /\ d.fut.what = c.fut.what /\ d.fut.res = r /\ d.sc = c.sc
            /\ d.tm = c.tm /\ d.io = c.io /\ d.rx = c.rx /\ d.log = c.log /\ d.inner = c.inner
<1> DEFINE f == [c.fut EXCEPT !.res = r]
           d == [c EXCEPT !.fut = f, !.woken = TRUE]
<1>1. c.fut \in FutType
  BY Parts
<1>2. f \in FutType /\ f.what = c.fut.what /\ f.res = r
  BY <1>1 DEF FutType, Results
<1>3. Answers(c, r) = d
  BY DEF CtxType, Answers, Wakes
<1> HIDE DEF f
<1>4. /\ d \in CtxType /\ d.st = c.st /\ d.fut = f /\ d.sc = c.sc /\ d.tm = c.tm
      /\ d.io = c.io /\ d.rx = c.rx /\ d.log = c.log /\ d.inner = c.inner
  BY <1>2 DEF CtxType
<1> HIDE DEF d
<1> QED
  BY <1>2, <1>3, <1>4

LEMMA AnswersKeep ==
  ASSUME Sound, NEW r \in Results, Outside(Answers(Ctx, r)), UNCHANGED <<svc, env>>,
         st = "control" /\ r = "fail" => fut.what \in Asked /\ (fut.what = "request" => sc.rejects)
  PROVE  Keeps
<1> DEFINE d == Answers(Ctx, r)
<1>1. Ctx \in CtxType /\ Ctx.sc = sc /\ Framed(Ctx) /\ Ctx.st = st /\ Ctx.fut = fut /\ Ctx.log = log
      /\ env \in EnvType /\ svc \in {"ready", "busy", "failed"} /\ pc = "idle"
  BY SoundTypes, CtxFields DEF Outside
<1>2. Settled => Kept(Ctx, env.left)
  BY <1>1 DEF Settled
<1>3. /\ d \in CtxType /\ d.st = Ctx.st /\ d.fut.what = Ctx.fut.what /\ d.fut.res = r /\ d.sc = Ctx.sc
      /\ d.tm = Ctx.tm /\ d.io = Ctx.io /\ d.rx = Ctx.rx /\ d.log = Ctx.log /\ d.inner = Ctx.inner
  BY <1>1, AnswersFields
<1>4. Outside(d)
  OBVIOUS
<1> HIDE DEF d
<1>5. Framed(d) /\ Spares(Ctx, d)
  BY <1>1, <1>3 DEF Framed, Sent, Whole, Headless, Ended, Spares
<1>6. Kept(Ctx, env.left) /\ ~sc.rejects => Kept(d, env.left)
  BY <1>1, <1>3 DEF Kept, Base, Free, Clean, Rem, Gone, Timely, Ended
<1>7. Good(d)
  BY <1>1, <1>2, <1>3, <1>5, <1>6 DEF Good
<1> QED
  BY <1>1, <1>4, <1>7, OutsideKeeps

LEMMA AppAnswersKeeps == ASSUME Sound, AppAnswers PROVE Keeps
<1>1. PICK r \in sc.replies : Outside(Answers(Ctx, r)) /\ st = "publish" /\ UNCHANGED <<svc, env>>
  BY DEF AppAnswers, Answers
<1>2. sc \in Scenarios
  BY SoundTypes, Parts
<1>3. sc.replies \in SUBSET Replies
  BY <1>2 DEF ScenarioType
<1>4. r \in Results
  BY <1>3 DEF Results
<1> QED
  BY <1>1, <1>4, AnswersKeep

LEMMA ControlAnswersKeeps == ASSUME Sound, ControlAnswers PROVE Keeps
<1>1. PICK r \in {"ack", "err"} \cup (IF fut.what = "upgrade" THEN {"fail", "handled"} ELSE {})
              \cup (IF fut.what = "expect" \/ (fut.what = "request" /\ sc.rejects) THEN {"fail"} ELSE {}) :
        Outside(Answers(Ctx, r))
  BY DEF ControlAnswers, Answers
<1>2. UNCHANGED <<svc, env>>
  BY DEF ControlAnswers
<1>3. r \in Results
  BY DEF Results, Replies
<1>4. r = "fail" => fut.what \in Asked /\ (fut.what = "request" => sc.rejects)
  BY DEF Asked
<1> QED
  BY <1>1, <1>2, <1>3, <1>4, AnswersKeep

LEMMA BodyYieldsKeeps == ASSUME Sound, BodyYields PROVE Keeps
<1>1. PICK r \in {"end", "err"} \cup (IF fut.chunks < 2 THEN {"chunk", "full"} ELSE {}) :
        Outside(Answers(Ctx, r))
  BY DEF BodyYields, Answers
<1>2. UNCHANGED <<svc, env>> /\ st = "send"
  BY DEF BodyYields
<1>3. r \in Results
  BY DEF Results, Replies
<1> QED
  BY <1>1, <1>2, <1>3, AnswersKeep

LEMMA AppTakesIoKeeps == ASSUME Sound, AppTakesIo PROVE Keeps
<1> DEFINE d == TakeIo(Ctx)
<1>1. Ctx \in CtxType /\ Ctx.sc = sc /\ Framed(Ctx) /\ Ctx.log = log
      /\ env \in EnvType /\ svc \in {"ready", "busy", "failed"} /\ pc = "idle" /\ Outside(d)
      /\ UNCHANGED <<svc, env>>
  BY SoundTypes, CtxFields DEF AppTakesIo, Outside
<1>2. Settled => Kept(Ctx, env.left)
  BY <1>1 DEF Settled
<1>3. d \in CtxType /\ d.sc = sc /\ d.log = log
  BY <1>1, TakeIoFields
<1>4. Framed(d) /\ (Kept(Ctx, env.left) => Kept(d, env.left))
  BY <1>1, TakeIoGood
<1> HIDE DEF d
<1>5. Good(d)
  BY <1>1, <1>2, <1>3, <1>4 DEF Good, Spares
<1> QED
  BY <1>1, <1>5, OutsideKeeps

LEMMA WokenClocked ==
  ASSUME NEW c \in CtxType, NEW w \in BOOLEAN PROVE Clocked(c, [c EXCEPT !.woken = w])
<1>1. [c EXCEPT !.woken = w] = With(c, c.tm, c.io, w)
  BY DEF CtxType, With
<1>2. c.io \in IoType
  BY Parts
<1> QED
  BY <1>1, <1>2, IoClocked

\* The environment's steps that change no more than a move of the timers does.
LEMMA OutsideClocked ==
  ASSUME Sound, NEW d, Outside(d), Clocked(Ctx, d), env' \in EnvType, env'.left = env.left,
         svc' \in {"ready", "busy", "failed"}
  PROVE  Keeps
<1>1. pc = "idle"
  BY DEF Outside
<1>2. Good(d)
  BY <1>1, GoodClocked
<1> QED
  BY <1>2, OutsideKeeps

LEMMA StreamKeeps ==
  ASSUME Sound, NEW x \in RxType, x.end = rx.end, x.whole = rx.whole,
         Outside(SenderWoken(Streamed(Ctx, x))), UNCHANGED <<svc, env>>
  PROVE  Keeps
<1> DEFINE a == Streamed(Ctx, x)
           y == [a.rx EXCEPT !.task = FALSE]
           b == Streamed(a, y)
           w == a.woken \/ a.rx.task
           d == [b EXCEPT !.woken = w]
<1>1. Ctx \in CtxType /\ Ctx.rx = rx /\ env \in EnvType /\ svc \in {"ready", "busy", "failed"}
  BY SoundTypes, CtxFields
<1>2. Clocked(Ctx, a) /\ a \in CtxType
  BY <1>1, StreamedClocked DEF Clocked, Moves
<1>3. Outside(SenderWoken(a))
  OBVIOUS
<1> HIDE DEF a
<1>4. SenderWoken(a) = d
  BY <1>2 DEF CtxType, SenderWoken, Streamed
<1>5. y \in RxType /\ y.end = a.rx.end /\ y.whole = a.rx.whole /\ w \in BOOLEAN
  BY <1>2, Parts DEF RxType
<1> HIDE DEF y, w
<1>6. Clocked(a, b) /\ b \in CtxType
  BY <1>2, <1>5, StreamedClocked DEF Clocked, Moves
<1> HIDE DEF b
<1>7. Clocked(b, d)
  BY <1>5, <1>6, WokenClocked
<1> HIDE DEF d
<1>8. Clocked(Ctx, d)
  BY <1>1, <1>2, <1>6, <1>7, ClockedTwice
<1> QED
  BY <1>1, <1>3, <1>4, <1>8, OutsideClocked

LEMMA AppReadsKeeps == ASSUME Sound, AppReads PROVE Keeps
<1> DEFINE x == [rx EXCEPT !.full = FALSE]
<1>1. rx \in RxType /\ Ctx \in CtxType
  BY SoundTypes, CtxFields, Parts
<1>2. x \in RxType /\ x.end = rx.end /\ x.whole = rx.whole
  BY <1>1 DEF RxType
<1>3. [Ctx EXCEPT !.rx.full = FALSE] = Streamed(Ctx, x)
  BY <1>1, CtxFields DEF CtxType, Streamed
<1> HIDE DEF x
<1>4. Outside(SenderWoken(Streamed(Ctx, x))) /\ UNCHANGED <<svc, env>>
  BY <1>3 DEF AppReads
<1> QED
  BY <1>2, <1>4, StreamKeeps

LEMMA AppDropsKeeps == ASSUME Sound, AppDrops PROVE Keeps
<1> DEFINE x == [rx EXCEPT !.alive = FALSE]
<1>1. rx \in RxType /\ Ctx \in CtxType
  BY SoundTypes, CtxFields, Parts
<1>2. x \in RxType /\ x.end = rx.end /\ x.whole = rx.whole
  BY <1>1 DEF RxType
<1>3. [Ctx EXCEPT !.rx.alive = FALSE] = Streamed(Ctx, x)
  BY <1>1, CtxFields DEF CtxType, Streamed
<1> HIDE DEF x
<1>4. Outside(SenderWoken(Streamed(Ctx, x))) /\ UNCHANGED <<svc, env>>
  BY <1>3 DEF AppDrops
<1> QED
  BY <1>2, <1>4, StreamKeeps

LEMMA ServiceBecomesKeeps ==
  ASSUME Sound, NEW s \in {"ready", "busy", "failed"}, ServiceBecomes(s) PROVE Keeps
<1> DEFINE w == Ctx.woken \/ st = "read"
           d == [Ctx EXCEPT !.woken = w]
<1>1. Ctx \in CtxType /\ env \in EnvType
  BY SoundTypes
<1>2. w \in BOOLEAN
  BY <1>1, Parts
<1>3. Outside(d)
  BY DEF ServiceBecomes
<1> HIDE DEF w
<1>4. Clocked(Ctx, d)
  BY <1>1, <1>2, WokenClocked
<1> HIDE DEF d
<1>5. env' \in EnvType /\ env'.left = env.left
  BY <1>1 DEF ServiceBecomes, EnvType
<1>6. svc' \in {"ready", "busy", "failed"}
  BY DEF ServiceBecomes
<1> QED
  BY <1>3, <1>4, <1>5, <1>6, OutsideClocked

\* The task that waits for the transport is woken.
Notified(c) == [c EXCEPT !.woken = @ \/ io.waker, !.io.waker = FALSE]

LEMMA NotifiedClocked ==
  ASSUME NEW c \in CtxType, io \in IoType PROVE Clocked(c, Notified(c))
<1> DEFINE i == [c.io EXCEPT !.waker = FALSE]
           w == c.woken \/ io.waker
<1>1. c.io \in IoType /\ w \in BOOLEAN
  BY Parts DEF IoType
<1>2. i \in IoType /\ i.phase = c.io.phase /\ i.in = c.io.in /\ i.timer = c.io.timer
      /\ i.for = c.io.for /\ i.exp = c.io.exp /\ i.timeout = c.io.timeout
  BY <1>1 DEF IoType
<1>3. Notified(c) = With(c, c.tm, i, w)
  BY DEF CtxType, Notified, With
<1> HIDE DEF i, w
<1> QED
  BY <1>1, <1>2, <1>3, IoClocked

LEMMA ShutdownKeeps == ASSUME Sound, Shutdown PROVE Keeps
<1>1. Ctx \in CtxType /\ env \in EnvType /\ io \in IoType /\ svc \in {"ready", "busy", "failed"}
  BY SoundTypes, CtxFields, Parts
<1>2. Outside(Notified(Ctx)) /\ svc' = svc
  BY DEF Shutdown, Notified
<1>3. env' \in EnvType /\ env'.left = env.left
  BY <1>1 DEF Shutdown, EnvType
<1> QED
  BY <1>1, <1>2, <1>3, NotifiedClocked, OutsideClocked

\* A step of the transport that changes its flags.
LEMMA TransportKeeps ==
  ASSUME Sound, NEW i \in IoType, i.phase = io.phase, i.in = io.in, i.timer = io.timer,
         i.for = io.for, i.exp = io.exp, i.timeout = io.timeout, Transport([Ctx EXCEPT !.io = i]),
         env' \in EnvType, env'.left = env.left
  PROVE  Keeps
<1> DEFINE c == [Ctx EXCEPT !.io = i]
<1>1. Ctx \in CtxType /\ Ctx.io = io /\ io \in IoType /\ svc \in {"ready", "busy", "failed"}
      /\ Ctx.woken \in BOOLEAN
  BY SoundTypes, CtxFields, Parts
<1>2. Outside(Notified(c)) /\ svc' = svc
  BY DEF Transport, Notified
<1>3. c = With(Ctx, Ctx.tm, i, Ctx.woken)
  BY <1>1 DEF CtxType, With
<1> HIDE DEF c
<1>4. Clocked(Ctx, c) /\ c \in CtxType
  BY <1>1, <1>3, IoClocked DEF Clocked, Moves
<1>5. Clocked(c, Notified(c))
  BY <1>1, <1>4, NotifiedClocked
<1>6. Clocked(Ctx, Notified(c))
  BY <1>1, <1>4, <1>5, ClockedTwice
<1> QED
  BY <1>1, <1>2, <1>6, OutsideClocked

LEMMA PeerEofKeeps == ASSUME Sound, PeerEof PROVE Keeps
<1> DEFINE i == [io EXCEPT !.eof = TRUE]
<1>1. Ctx \in CtxType /\ io \in IoType /\ env' \in EnvType /\ env'.left = env.left
  BY SoundTypes, CtxFields, Parts DEF PeerEof
<1>2. i \in IoType /\ i.phase = io.phase /\ i.in = io.in /\ i.timer = io.timer
      /\ i.for = io.for /\ i.exp = io.exp /\ i.timeout = io.timeout
  BY <1>1 DEF IoType
<1>3. [Ctx EXCEPT !.io.eof = TRUE] = [Ctx EXCEPT !.io = i]
  BY <1>1, CtxFields DEF CtxType
<1>4. Transport([Ctx EXCEPT !.io = i])
  BY <1>3 DEF PeerEof
<1> HIDE DEF i
<1> QED
  BY <1>1, <1>2, <1>4, TransportKeeps

LEMMA DrainsKeeps == ASSUME Sound, Drains PROVE Keeps
<1> DEFINE i == [io EXCEPT !.drained = TRUE]
<1>1. Ctx \in CtxType /\ io \in IoType /\ env' \in EnvType /\ env'.left = env.left
  BY SoundTypes, CtxFields, Parts DEF Drains
<1>2. i \in IoType /\ i.phase = io.phase /\ i.in = io.in /\ i.timer = io.timer
      /\ i.for = io.for /\ i.exp = io.exp /\ i.timeout = io.timeout
  BY <1>1 DEF IoType
<1>3. [Ctx EXCEPT !.io.drained = TRUE] = [Ctx EXCEPT !.io = i]
  BY <1>1, CtxFields DEF CtxType
<1>4. Transport([Ctx EXCEPT !.io = i])
  BY <1>3 DEF Drains
<1> HIDE DEF i
<1> QED
  BY <1>1, <1>2, <1>4, TransportKeeps

LEMMA FilterPausesKeeps == ASSUME Sound, FilterPauses PROVE Keeps
<1> DEFINE i == [io EXCEPT !.filter = TRUE]
<1>1. Ctx \in CtxType /\ io \in IoType /\ env \in EnvType
  BY SoundTypes, CtxFields, Parts
<1>2. env' \in EnvType /\ env'.left = env.left
  BY <1>1 DEF FilterPauses, EnvType
<1>3. i \in IoType /\ i.phase = io.phase /\ i.in = io.in /\ i.timer = io.timer
      /\ i.for = io.for /\ i.exp = io.exp /\ i.timeout = io.timeout
  BY <1>1 DEF IoType
<1>4. [Ctx EXCEPT !.io.filter = TRUE] = [Ctx EXCEPT !.io = i]
  BY <1>1, CtxFields DEF CtxType
<1>5. Transport([Ctx EXCEPT !.io = i])
  BY <1>4 DEF FilterPauses
<1> HIDE DEF i
<1> QED
  BY <1>2, <1>3, <1>5, TransportKeeps

LEMMA FilterResumesKeeps == ASSUME Sound, FilterResumes PROVE Keeps
<1> DEFINE i == [io EXCEPT !.filter = FALSE]
<1>1. Ctx \in CtxType /\ io \in IoType /\ env' \in EnvType /\ env'.left = env.left
  BY SoundTypes, CtxFields, Parts DEF FilterResumes
<1>2. i \in IoType /\ i.phase = io.phase /\ i.in = io.in /\ i.timer = io.timer
      /\ i.for = io.for /\ i.exp = io.exp /\ i.timeout = io.timeout
  BY <1>1 DEF IoType
<1>3. [Ctx EXCEPT !.io.filter = FALSE] = [Ctx EXCEPT !.io = i]
  BY <1>1, CtxFields DEF CtxType
<1>4. Transport([Ctx EXCEPT !.io = i])
  BY <1>3 DEF FilterResumes
<1> HIDE DEF i
<1> QED
  BY <1>1, <1>2, <1>4, TransportKeeps

\* The transport is gone: what has arrived is all there is to read.
Lost(c) == [c EXCEPT !.io.phase = "gone"]

LEMMA LostGood ==
  ASSUME Sound, pc = "idle" PROVE Good(Notified(Lost(Ctx)))
<1> DEFINE i == [Ctx.io EXCEPT !.phase = "gone"]
           d == With(Ctx, Ctx.tm, i, Ctx.woken)
<1>1. /\ Ctx \in CtxType /\ Ctx.io = io /\ Ctx.io \in IoType /\ Ctx.tm \in TmType
      /\ Ctx.woken \in BOOLEAN /\ Ctx.sc = sc /\ Framed(Ctx) /\ env.left \in Seq(Tokens)
      /\ Ctx.log = log
  BY SoundTypes, CtxFields, Parts
<1>2. Settled => Kept(Ctx, env.left)
  BY DEF Settled
<1>3. i \in IoType /\ i.phase = "gone" /\ i.in = Ctx.io.in /\ i.timer = Ctx.io.timer
      /\ i.for = Ctx.io.for /\ i.exp = Ctx.io.exp /\ i.timeout = Ctx.io.timeout
  BY <1>1 DEF IoType
<1>4. Lost(Ctx) = d
  BY <1>1 DEF CtxType, Lost, With
<1> HIDE DEF i
<1>5. /\ d \in CtxType /\ d.tm = Ctx.tm /\ d.io = i /\ d.st = Ctx.st /\ d.sc = Ctx.sc
      /\ d.fut = Ctx.fut /\ d.inner = Ctx.inner /\ d.rx = Ctx.rx /\ d.log = Ctx.log
  BY <1>1, <1>3, WithFields
<1> HIDE DEF d
<1>6. Framed(d) /\ Spares(Ctx, d)
  BY <1>1, <1>5 DEF Framed, Sent, Whole, Headless, Ended, Spares
<1>7. Timely(Ctx) => Timely(d)
  BY <1>3, <1>5 DEF Timely, TimelyAt
<1>8. /\ AtHead(Rem(Ctx, env.left)) => AtHead(Rem(d, env.left))
      /\ InBody(Rem(Ctx, env.left)) => InBody(Rem(d, env.left))
  <2>1. Rem(d, env.left) = Ctx.io.in
    BY <1>3, <1>5 DEF Rem, Gone
  <2> QED
    BY <1>1, <2>1, RemFacts, BeginsFits
<1>9. Kept(Ctx, env.left) => Kept(d, env.left)
  BY <1>5, <1>7, <1>8 DEF Kept, Base, Free, Clean, Ended
<1>10. Good(d)
  BY <1>1, <1>2, <1>5, <1>6, <1>9 DEF Good
<1> QED
  BY <1>1, <1>4, <1>5, <1>10, NotifiedClocked, GoodOn

LEMMA PeerGoneKeeps == ASSUME Sound, PeerGone PROVE Keeps
<1>1. Outside(Notified(Lost(Ctx))) /\ pc = "idle" /\ UNCHANGED <<svc, env>>
  BY DEF PeerGone, Transport, Notified, Lost, Outside
<1> QED
  BY <1>1, SoundTypes, LostGood, OutsideKeeps

LEMMA TransportClosesKeeps == ASSUME Sound, TransportCloses PROVE Keeps
<1> DEFINE d == Notified(Lost(Ctx))
<1>1. pc = "idle" /\ UNCHANGED <<pc, pl, svc, env, sc>>
      /\ Becomes([Ctx EXCEPT !.io.phase = "gone", !.woken = @ \/ io.waker, !.io.waker = FALSE])
  BY DEF TransportCloses
<1>2. Ctx \in CtxType
  BY SoundTypes
<1>3. [Ctx EXCEPT !.io.phase = "gone", !.woken = @ \/ io.waker, !.io.waker = FALSE] = d
  BY <1>2 DEF CtxType, Notified, Lost
<1>4. Good(d)
  BY <1>1, LostGood
<1> HIDE DEF d
<1> QED
  BY <1>1, <1>3, <1>4, SoundTypes, StepKeeps

LEMMA TimerFiresKeeps == ASSUME Sound, TimerFires PROVE Keeps
<1> DEFINE i == [Ctx.io EXCEPT !.timer = "expired"]
           c == With(Ctx, Ctx.tm, i, Ctx.woken)
           d == NotifyTimeout(c)
<1>1. /\ Ctx \in CtxType /\ Ctx.io = io /\ Ctx.io \in IoType /\ Ctx.tm \in TmType
      /\ Ctx.woken \in BOOLEAN /\ env \in EnvType /\ svc \in {"ready", "busy", "failed"}
  BY SoundTypes, CtxFields, Parts
<1>2. i \in IoType /\ i.phase = Ctx.io.phase /\ i.in = Ctx.io.in /\ i.timer = "expired"
      /\ i.for = Ctx.io.for /\ i.exp = Ctx.io.exp /\ i.timeout = Ctx.io.timeout
  BY <1>1 DEF IoType
<1>3. [Ctx EXCEPT !.io.timer = "expired"] = c
  BY <1>1 DEF CtxType, With
<1>4. io.timer = "armed" /\ Outside(d) /\ UNCHANGED <<svc, env>>
  BY <1>3 DEF TimerFires
<1> HIDE DEF i
<1>5. Moves(Ctx, c) /\ c \in CtxType /\ c.tm = Ctx.tm /\ c.io = i /\ c.inner = Ctx.inner /\ c.log = Ctx.log
  BY <1>1, <1>2, WithFields, WithMoves
<1> HIDE DEF c
<1>6. Moves(c, d) /\ d.tm = c.tm /\ d.inner = c.inner /\ d.log = c.log /\ d.io.for = c.io.for
      /\ d.io.timer = c.io.timer /\ d.io.exp = IF c.io.timeout THEN c.io.exp ELSE c.io.for
  BY <1>5, NotifyTimeoutMoves
<1> HIDE DEF d
<1>7. Moves(Ctx, d)
  BY <1>1, <1>5, <1>6, MovesTwice
<1>8. Timely(Ctx) => Timely(d)
  BY <1>1, <1>2, <1>4, <1>5, <1>6 DEF Timely, TimelyAt
<1> QED
  BY <1>1, <1>4, <1>5, <1>6, <1>7, <1>8, OutsideClocked DEF Clocked

LEMMA AppendTail ==
  ASSUME NEW s \in Seq(Tokens), NEW t \in Seq(Tokens), t # <<>>
  PROVE  /\ Append(s, Head(t)) \in Seq(Tokens) /\ Tail(t) \in Seq(Tokens)
         /\ Append(s, Head(t)) \o Tail(t) = s \o t
<1> DEFINE h == Head(t)
           l == Tail(t)
           a == Append(s, h)
<1>1. /\ h \in Tokens /\ l \in Seq(Tokens) /\ Len(l) = Len(t) - 1
      /\ \A i \in 1..Len(l) : l[i] = t[i + 1]
  BY HeadTailProperties
<1>2. Len(s) \in Nat /\ Len(t) \in Nat /\ Len(l) \in Nat /\ t[1] = h
  BY <1>1, LenProperties
<1> HIDE DEF h, l
<1>3. /\ a \in Seq(Tokens) /\ Len(a) = Len(s) + 1 /\ \A i \in 1..Len(s) : a[i] = s[i]
      /\ a[Len(s) + 1] = h
  BY <1>1, AppendProperties
<1> HIDE DEF a
<1>4. /\ a \o l \in Seq(Tokens) /\ Len(a \o l) = Len(a) + Len(l)
      /\ \A i \in 1..(Len(a) + Len(l)) : (a \o l)[i] = IF i <= Len(a) THEN a[i] ELSE l[i - Len(a)]
  BY <1>1, <1>3, ConcatProperties
<1>5. /\ s \o t \in Seq(Tokens) /\ Len(s \o t) = Len(s) + Len(t)
      /\ \A i \in 1..(Len(s) + Len(t)) : (s \o t)[i] = IF i <= Len(s) THEN s[i] ELSE t[i - Len(s)]
  BY ConcatProperties
<1>6. Len(a \o l) = Len(s \o t) /\ Len(a) + Len(l) = Len(s) + Len(t)
  BY <1>1, <1>2, <1>3, <1>4, <1>5
<1>7. ASSUME NEW i \in 1..Len(a \o l) PROVE (a \o l)[i] = (s \o t)[i]
  <2>1. i \in Int /\ i \in 1..(Len(a) + Len(l)) /\ i \in 1..(Len(s) + Len(t))
    BY <1>4, <1>5, <1>6
  <2>2. CASE i <= Len(s)
    <3>1. i <= Len(a) /\ i \in 1..Len(s)
      BY <1>2, <1>3, <2>1, <2>2
    <3> QED
      BY <1>3, <1>4, <1>5, <2>1, <2>2, <3>1
  <2>3. CASE i = Len(s) + 1
    <3>1. i <= Len(a) /\ ~(i <= Len(s)) /\ i - Len(s) = 1
      BY <1>2, <1>3, <2>3
    <3> QED
      BY <1>2, <1>3, <1>4, <1>5, <2>1, <2>3, <3>1
  <2>4. CASE i > Len(s) + 1
    <3> DEFINE j == i - Len(a)
    <3>1. ~(i <= Len(a)) /\ ~(i <= Len(s)) /\ j \in 1..Len(l) /\ i - Len(s) = j + 1
      BY <1>2, <1>3, <2>1, <2>4
    <3>2. l[j] = t[j + 1]
      BY <1>1, <3>1
    <3>3. (a \o l)[i] = l[j] /\ (s \o t)[i] = t[i - Len(s)]
      BY <1>4, <1>5, <2>1, <3>1
    <3> QED
      BY <3>1, <3>2, <3>3
  <2> QED
    BY <1>2, <2>1, <2>2, <2>3, <2>4
<1>8. a \o l = s \o t
  BY <1>4, <1>5, <1>6, <1>7, SeqEqual
<1> QED
  BY <1>1, <1>3, <1>8 DEF a, l, h

LEMMA ArrivesKeeps == ASSUME Sound, Arrives PROVE Keeps
<1> DEFINE in == Append(Ctx.io.in, Head(env.left))
           c == Fed(Ctx, in)
           d == Notified(c)
<1>1. /\ Ctx \in CtxType /\ Ctx.io = io /\ io \in IoType /\ env \in EnvType /\ env.left \in Seq(Tokens)
      /\ Ctx.sc = sc /\ Framed(Ctx) /\ svc \in {"ready", "busy", "failed"} /\ pl \in PlType
      /\ Ctx.io.in \in Seq(Tokens)
  BY SoundTypes, CtxFields, Parts, RemFacts
<1>2. /\ env.left # <<>> /\ Active(Ctx) /\ env' = [env EXCEPT !.left = Tail(@)] /\ svc' = svc
      /\ pc = "idle" /\ pc' = pc /\ pl' = pl /\ sc' = sc /\ Becomes(d)
  BY DEF Arrives, Transport, Outside, Notified, Fed
<1>3. /\ in \in Seq(Tokens) /\ Tail(env.left) \in Seq(Tokens)
      /\ in \o Tail(env.left) = Ctx.io.in \o env.left
  BY <1>1, <1>2, AppendTail
<1> HIDE DEF in
<1>4. env' \in EnvType /\ env'.left = Tail(env.left)
  BY <1>1, <1>2, <1>3 DEF EnvType
<1>5. /\ c \in CtxType /\ c.st = Ctx.st /\ c.fut = Ctx.fut /\ c.sc = Ctx.sc /\ c.tm = Ctx.tm
      /\ c.rx = Ctx.rx /\ c.inner = Ctx.inner /\ c.log = Ctx.log /\ c.io.phase = Ctx.io.phase
      /\ c.io.in = in /\ (Timely(Ctx) => Timely(c))
  BY <1>1, <1>3, FedFields
<1> HIDE DEF c
<1>6. Rem(c, env'.left) = Rem(Ctx, env.left)
  BY <1>2, <1>3, <1>4, <1>5 DEF Rem, Gone, Active
<1>7. Framed(c)
  BY <1>1, <1>5 DEF Framed, Sent, Whole, Headless, Ended
<1>8. Kept(Ctx, env.left) => Kept(c, env'.left)
  BY <1>5, <1>6 DEF Kept, Base, Free, Clean, Ended
<1>9. Clocked(c, d) /\ Moves(c, d) /\ d \in CtxType /\ d.sc = sc /\ d.inner = c.inner /\ d.log = c.log
      /\ (Timely(c) => Timely(d))
  BY <1>1, <1>5, NotifiedClocked DEF Clocked, Moves
<1> HIDE DEF d
<1>10. Framed(d) /\ (Kept(c, env'.left) => Kept(d, env'.left))
  BY <1>5, <1>7, <1>9, MovesFramed, MovesKept
<1>11. Ctx' = d
  BY <1>2, <1>9, CtxIs
<1>12. Sound'
  <2>1. TypeOK'
    BY <1>1, <1>2, <1>4, <1>9, <1>11 DEF TypeOK, PlType, EnvType
  <2>2. Places'
    BY <1>2 DEF Places
  <2> QED
    BY <1>10, <1>11, <2>1, <2>2 DEF Sound
<1>13. Settled => Settled'
  BY <1>2, <1>8, <1>10, <1>11 DEF Settled
<1>14. Idles
  <2>1. Spares(Ctx, d)
    BY <1>5, <1>9 DEF Spares
  <2> QED
    BY <1>11, <2>1, SparesIdles
<1> QED
  BY <1>2, <1>12, <1>13, <1>14 DEF Keeps

-----------------------------------------------------------------------------
(* The initial states *)

LEMMA ConnFields ==
  ASSUME NEW s \in Scenarios
  PROVE  LET c == Conn(s)
         IN /\ c \in CtxType /\ c.st = "read" /\ c.sc = s /\ c.tm = NoTimers /\ c.io.in = <<>>
            /\ c.io.phase = "active" /\ c.fut.what = "none" /\ c.rx = NoPayload
            /\ c.inner.disc = "none" /\ c.inner.pend = "none" /\ ~c.inner.pay /\ ~c.inner.started
            /\ c.log.reqs = 0 /\ c.log.resp = 0 /\ ~c.log.open /\ ~c.log.mixed /\ ~c.log.stale
            /\ ~c.log.misread
<1> DEFINE c == Conn(s)
<1>1. c.inner \in InnerType /\ c.inner.disc = "none" /\ c.inner.pend = "none" /\ ~c.inner.pay
      /\ ~c.inner.started
  BY DEF Conn, InnerType
<1>2. c.io \in IoType /\ c.io.in = <<>> /\ c.io.phase = "active"
  <2>1. <<>> \in Seq(Tokens) /\ <<"none", 0>> \in Purposes
    BY EmptySeq DEF Purposes
  <2> QED
    BY <2>1 DEF Conn, IoType
<1>3. c.tm = NoTimers /\ c.tm \in TmType
  BY DEF Conn, NoTimers, TmType
<1>4. c.rx = NoPayload /\ c.rx \in RxType
  BY DEF Conn, NoPayload, RxType
<1>5. c.fut \in FutType /\ c.fut.what = "none"
  BY DEF Conn, Call, FutType
<1>6. /\ c.log \in LogType /\ c.log.reqs = 0 /\ c.log.resp = 0 /\ ~c.log.open /\ ~c.log.mixed
      /\ ~c.log.stale /\ ~c.log.misread
  BY DEF Conn, LogType
<1>7. c.st = "read" /\ c.sc = s /\ c.woken = TRUE
  BY DEF Conn
<1>8. c \in CtxType
  <2>1. c = [st |-> c.st, woken |-> c.woken, sc |-> c.sc, tm |-> c.tm, inner |-> c.inner,
             io |-> c.io, rx |-> c.rx, fut |-> c.fut, log |-> c.log]
    BY DEF Conn
  <2> HIDE DEF c
  <2> QED
    BY <1>1, <1>2, <1>3, <1>4, <1>5, <1>6, <1>7, <2>1 DEF CtxType
<1> HIDE DEF c
<1> QED
  BY <1>1, <1>2, <1>3, <1>4, <1>5, <1>6, <1>7, <1>8 DEF c

LEMMA NewTimersFields ==
  ASSUME NEW c \in CtxType, c.tm = NoTimers, ~c.log.stale
  PROVE  Moves(c, NewTimers(c)) /\ Timely(NewTimers(c)) /\ NewTimers(c).inner = c.inner
         /\ NewTimers(c).tm.act = "ClientTimeout"
<1> DEFINE n == IoStopTimer(c)
           d == IoStartTimer(n)
<1>1. [c EXCEPT !.tm = NoTimers] = c
  BY DEF CtxType
<1>2. NewTimers(c) = n \/ NewTimers(c) = d
  BY <1>1 DEF NewTimers
<1>3. /\ Clocked(c, n) /\ n.tm = c.tm /\ n.io.timer = "none" /\ ~n.io.timeout
  BY IoStopTimerClocked
<1> HIDE DEF n
<1>4. n \in CtxType /\ n.log = c.log /\ n.inner = c.inner /\ Moves(c, n)
  BY <1>3 DEF Clocked, Moves
<1>5. n.tm.act = "ClientTimeout" /\ n.tm.susp = "no"
  BY <1>3 DEF NoTimers
<1>6. Timely(n) /\ Starts(n)
  BY <1>3, <1>4, <1>5 DEF Timely, TimelyAt, Starts
<1>7. Moves(n, d) /\ d.tm = n.tm /\ d.inner = n.inner /\ Timely(d)
  BY <1>4, <1>6, IoStartTimerMoves
<1> HIDE DEF d
<1>8. Moves(c, d)
  BY <1>4, <1>7, MovesTwice
<1> QED
  BY <1>2, <1>4, <1>5, <1>6, <1>7, <1>8

LEMMA InitSound == Init => Sound /\ Settled
<1> SUFFICES ASSUME Init PROVE Sound /\ Settled
  OBVIOUS
<1> DEFINE a == Conn(sc)
           c == NewTimers(a)
<1>1. sc \in Scenarios
  BY DEF Init
<1>2. /\ a \in CtxType /\ a.st = "read" /\ a.sc = sc /\ a.tm = NoTimers /\ a.io.in = <<>>
      /\ a.io.phase = "active" /\ a.fut.what = "none" /\ a.rx = NoPayload
      /\ a.inner.disc = "none" /\ a.inner.pend = "none" /\ ~a.inner.pay /\ ~a.inner.started
      /\ a.log.reqs = 0 /\ a.log.resp = 0 /\ ~a.log.open /\ ~a.log.mixed /\ ~a.log.stale
      /\ ~a.log.misread
  BY <1>1, ConnFields
<1>3. /\ st = c.st /\ woken = c.woken /\ tm = c.tm /\ inner = c.inner /\ io = c.io
      /\ rx = c.rx /\ fut = c.fut /\ log = c.log
  BY DEF Init
<1> HIDE DEF a
<1>4. Moves(a, c) /\ Timely(c) /\ c.inner = a.inner /\ c.tm.act = "ClientTimeout" /\ c \in CtxType
      /\ c.sc = sc
  BY <1>2, NewTimersFields DEF Moves
<1> HIDE DEF c
<1>5. Ctx = c
  BY <1>3, <1>4 DEF Ctx, CtxType
<1>6. sc.script \in Seq(Tokens) /\ AtHead(sc.script) /\ sc.fills \in Nat /\ sc.busy \in Nat /\ sc.pauses \in Nat
  BY <1>1 DEF ScenarioType
<1>7. TypeOK
  BY <1>4, <1>5, <1>6 DEF Init, TypeOK
<1>8. Places /\ pc = "idle" /\ env.left = sc.script
  BY DEF Init, Places
<1>9. Framed(a)
  BY <1>2 DEF Framed, Sent, Whole, Headless, Ended, NoPayload
<1>10. Framed(c)
  BY <1>2, <1>4, <1>9, MovesFramed
<1>11. AtHead(Rem(c, env.left))
  <2>1. Rem(c, env.left) = <<>> \o sc.script
    BY <1>2, <1>4, <1>8 DEF Moves, Rem, Gone
  <2>2. <<>> \o sc.script = sc.script
    BY <1>6, ConcatEmptySeq
  <2> QED
    BY <1>6, <2>1, <2>2
<1>12. Kept(c, env.left)
  BY <1>2, <1>4, <1>11 DEF Kept, Base, Clean, Moves
<1> QED
  BY <1>5, <1>7, <1>8, <1>10, <1>12 DEF Sound, Settled

-----------------------------------------------------------------------------
(* The steps *)

LEMMA PollKeeps == ASSUME Sound, PollStep PROVE Keeps
BY PollStartsKeeps, PublishDoneKeeps, PollRequestKeeps, ControlDoneKeeps, ControlHandledKeeps,
   ControlFailsKeeps, ControlPendingKeeps, ReadPayloadKeeps, StopTurnKeeps, ReadEndsKeeps,
   ReadyFailsKeeps, ReadPausedKeeps, RecvKeeps, RecvBackpressureKeeps, RecvOtherTimeoutKeeps,
   RecvTimeoutKeeps, PayloadStartKeeps, PayloadHoldsKeeps, PayloadChunkKeeps, PayloadEndKeeps,
   PayloadBadKeeps, PayloadDryKeeps, PayloadHeldKeeps, PayloadTimeoutKeeps, PublishReturnKeeps,
   ControlReturnKeeps, PayloadReturnKeeps, SendPayloadKeeps, SendReturnKeeps, SendStopsKeeps,
   BodyPendingKeeps, BodyChunkKeeps, BodyEndsKeeps
   DEF PollStep

LEMMA NextKeeps == ASSUME Sound, Next PROVE Keeps
BY PollKeeps, AppAnswersKeeps, AppTakesIoKeeps, ControlAnswersKeeps, BodyYieldsKeeps, AppReadsKeeps,
   AppDropsKeeps, ServiceBecomesKeeps, ShutdownKeeps, ArrivesKeeps, PeerEofKeeps, PeerGoneKeeps,
   DrainsKeeps, FilterPausesKeeps, FilterResumesKeeps, TimerFiresKeeps, TransportClosesKeeps
   DEF Next

\* The inductive invariant.
Inv == Sound /\ (~sc.rejects => Settled)

LEMMA InvStep == Inv /\ [Next]_vars => Inv'
<1> SUFFICES ASSUME Inv, [Next]_vars PROVE Inv'
  OBVIOUS
<1>1. CASE Next
  BY <1>1, NextKeeps DEF Inv, Keeps
<1>2. CASE UNCHANGED vars
  <2>1. Ctx' = Ctx /\ UNCHANGED <<st, inner, fut, pc, pl, svc, env, sc>>
    BY <1>2 DEF vars, disp, Ctx
  <2>2. TypeOK'
    BY <2>1 DEF Inv, Sound, TypeOK
  <2>3. Framed(Ctx)' /\ Places'
    BY <2>1 DEF Inv, Sound, Places
  <2>4. Settled => Settled'
    BY <2>1 DEF Settled, Failed
  <2> QED
    BY <2>1, <2>2, <2>3, <2>4 DEF Inv, Sound
<1> QED
  BY <1>1, <1>2

LEMMA InvHolds == Spec => []Inv
<1>1. Init => Inv
  BY InitSound DEF Inv
<1> QED
  BY <1>1, InvStep, PTL DEF Spec

-----------------------------------------------------------------------------
(* What the dispatcher promises *)

\* The state of the dispatcher, its timers, the transport as it sees it and the
\* messages it waits for have their types.
THEOREM Http1TypeOK == Spec => []TypeOK
<1>1. Inv => TypeOK
  BY DEF Inv, Sound
<1> QED
  BY <1>1, InvHolds, PTL

\* No response is written inside the body of another, and there are no more of them
\* than requests but for one that ends the connection, whatever the control service
\* answers and wherever a payload fails (send_response, control_result).
THEOREM ResponsesAreFramed == Spec => []ResponseFraming
<1>1. Inv => ResponseFraming
  BY CtxFields DEF Inv, Sound, Framed, Sent, ResponseFraming
<1> QED
  BY <1>1, InvHolds, PTL

\* The application sees the regular end of a payload only where all of it has been
\* decoded (set_payload_error and the drop of the dispatcher).
THEOREM PayloadsAreWhole == Spec => []PayloadWhole
<1>1. Inv => PayloadWhole
  BY CtxFields DEF Inv, Sound, Framed, Whole, PayloadWhole
<1> QED
  BY <1>1, InvHolds, PTL

\* The keep-alive timeout ends a connection only if no request has arrived with it
\* (poll_read_request decodes before it looks at the timeout).
THEOREM KeepAliveClosesIdle == Spec => KeepAliveIdle
<1>1. Inv /\ [Next]_vars => [inner'.keep /\ log.told' # log.told /\ fut'.what = "keepalive" =>
                               \A i \in DOMAIN io.in : io.in[i] \notin Heads]_vars
  BY NextKeeps DEF Inv, Keeps, Idles
<1> QED
  BY <1>1, InvHolds, PTL DEF Spec, KeepAliveIdle

\* Unless the control service rejects requests, a timeout that ends the connection or
\* fails a payload was started for this purpose and this request (Timers).
THEOREM TimersAreNotStale == Spec => [](~sc.rejects => TimerNotStale)
<1>1. Inv => (~sc.rejects => TimerNotStale)
  <2>1. Settled => ~log.stale
    BY SettledBase, CtxFields DEF Base, Timely, TimelyAt
  <2> QED
    BY <2>1 DEF Inv, TimerNotStale
<1> QED
  BY <1>1, InvHolds, PTL

\* Unless the control service rejects requests, bytes of a payload are never decoded
\* as the head of a request: the payload is read to its end, or the connection is not
\* used again (ReadPayload, and payload.rs on a stream that is dropped early).
THEOREM BodiesComeBeforeHeads == Spec => [](~sc.rejects => BodyBeforeHead)
<1>1. Inv => (~sc.rejects => BodyBeforeHead)
  <2>1. Settled => ~log.misread
    BY SettledBase, CtxFields DEF Base
  <2> QED
    BY <2>1 DEF Inv, BodyBeforeHead
<1> QED
  BY <1>1, InvHolds, PTL

=============================================================================
