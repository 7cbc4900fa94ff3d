----------------------------- MODULE IoConnProofs -----------------------------
(***************************************************************************)
(* Proofs about IoConn for any watermarks, thresholds, socket sizes and    *)
(* budgets, and any use of the connection.                                 *)
(*                                                                         *)
(* An action runs a handler, which is a composition of operators from      *)
(* connections to connections.  Most of them only let things grow: phases  *)
(* advance, pauses and wakeups are added, nothing is written.  Grows says  *)
(* so and composes; what does more is treated by itself.                   *)
(***************************************************************************)
EXTENDS IoConn, TLAPS

USE ConnAssumption DEF ConnAssumption
USE DEF Active, FiltersStopping, TransportShutdown, Stopped, Graceful, Terminating, ForceClosed

ConnType ==
  [cfg : ConfigType, phase : 0..3, manner : 0..2, err : BOOLEAN, handle : BOOLEAN,
   dropped : BOOLEAN, rdPaused : BOOLEAN, rdBp : BOOLEAN, rdEof : BOOLEAN, rdReady : BOOLEAN,
   rdNotify : BOOLEAN, rdNotified : BOOLEAN, wrPaused : BOOLEAN, wrFlush : BOOLEAN,
   wrSend : BOOLEAN, wrBp : BOOLEAN, rd : Nat, wr : Nat, filterDone : BOOLEAN,
   deadline : {"none", "armed", "elapsed"}, iops : BOOLEAN, rdTask : BOOLEAN, wrTask : BOOLEAN,
   dspTask : BOOLEAN, wrWaiter : BOOLEAN, ioWoken : BOOLEAN, app : Waits \cup {"idle", "gone"},
   appWoken : BOOLEAN, prod : {"idle", "wait"}, prodWoken : BOOLEAN]
StreamType ==
  [rd : BOOLEAN, rdPaused : BOOLEAN, wr : BOOLEAN, detached : BOOLEAN, evRd : BOOLEAN,
   evWr : BOOLEAN]
SockType ==
  [in : Nat, fin : BOOLEAN, err : BOOLEAN, space : Nat, closed : {"open", "shutdown", "aborted"}]
TotalType == [accepted : Nat, written : Nat, received : Nat]
AllType == [io : ConnType, st : StreamType, sock : SockType, total : TotalType]

Live(c) == ~IsAborted(c) /\ ~c.dropped

-----------------------------------------------------------------------------
(* What holds of a connection *)

\* What the owner of the Io waits for has not happened yet, and it is registered.
AppInv(c) ==
  /\ c.app = "read" /\ ~c.appWoken =>
       /\ ~IsPeerGone(c) /\ c.dspTask
       /\ ~c.rdReady /\ ~c.rdEof /\ ~c.rdPaused /\ ~c.rdBp
  /\ c.app \in {"flush", "fullflush"} /\ ~c.appWoken =>
       /\ ~IsPeerGone(c) /\ c.dspTask
       /\ c.app = "flush" => c.wrBp /\ c.wr > WrHalf(c)
       /\ c.app = "fullflush" => c.wrFlush /\ c.wr > 0

\* The same for a producer that waits for the release of write backpressure.
ProdInv(c) == c.prod = "wait" /\ ~c.prodWoken => c.wrWaiter /\ ~WriteReady(c)

PhaseInv(c) ==
  /\ c.phase = Active => c.manner = Graceful
  /\ c.dropped <=> c.app = "gone"
  /\ c.phase = Active /\ c.rdBp => c.rdPaused

\* A write that is scheduled is in the queue of the scheduled writes.
SendInv(c) == ~c.dropped /\ c.wrSend => c.iops

\* The transport task is woken by a change of the readiness of either direction.
RdReg(c) == Live(c) => c.ioWoken \/ c.rdTask
WrReg(c) == Live(c) => c.ioWoken \/ c.wrTask

\* Output that nobody writes has been scheduled.
PausedInv(c) == Live(c) /\ c.wrPaused /\ c.wr > 0 => c.wrSend

\* d comes after c: nothing has been written, and nothing that was waited for has
\* been lost.
Advances(c, d) ==
  /\ d \in ConnType
  /\ d.cfg = c.cfg /\ d.app = c.app /\ d.prod = c.prod /\ d.dropped = c.dropped
  /\ d.wr = c.wr /\ d.wrPaused = c.wrPaused /\ d.wrFlush = c.wrFlush
  /\ c.phase <= d.phase /\ (d.phase = Stopped => c.phase = Stopped) /\ c.manner <= d.manner
  /\ (Live(d) => d.handle = c.handle)
  /\ (c.err => d.err) /\ (c.rdPaused => d.rdPaused) /\ (c.rdBp => d.rdBp) /\ (c.rdEof => d.rdEof)
  /\ (c.wrBp => d.wrBp) /\ (c.wrSend => d.wrSend) /\ (SendInv(c) => SendInv(d))
  /\ (c.ioWoken => d.ioWoken) /\ (c.rdTask => d.rdTask \/ d.ioWoken)
  /\ (c.wrTask => d.wrTask \/ d.ioWoken)
  /\ (AppInv(c) => AppInv(d)) /\ (ProdInv(c) => ProdInv(d)) /\ (PhaseInv(c) => PhaseInv(d))

\* Output is given up with an error only.
Mild(c, d) ==
  /\ d.manner = ForceClosed => c.manner = ForceClosed
  /\ d.manner = Terminating /\ ~d.err => (c.manner = Terminating /\ ~c.err) \/ d.wr = 0

Grows(c, d) == Advances(c, d) /\ Mild(c, d)

LEMMA Half ==
  ASSUME NEW c \in ConnType
  PROVE  WrHalf(c) \in Nat /\ c.cfg.wrHigh \in Nat \ {0} /\ WrHalf(c) < c.cfg.wrHigh
<1>1. c.cfg.wrHigh \in Nat \ {0}
  BY DEF ConnType, ConfigType
<1>2. PICK h \in Nat \ {0} : c.cfg.wrHigh = h
  BY <1>1
<1>3. h \div 2 \in Nat /\ h \div 2 < h
  OBVIOUS
<1> QED
  BY <1>2, <1>3 DEF WrHalf

LEMMA ConnFields ==
  ASSUME NEW c \in ConnType
  PROVE  /\ c.phase \in 0..3 /\ c.manner \in 0..2 /\ c.rd \in Nat /\ c.wr \in Nat
BY DEF ConnType

LEMMA GrowsSame == ASSUME NEW c \in ConnType PROVE Grows(c, c)
BY ConnFields DEF Grows, Advances, Mild

LEMMA AdvancesTwice ==
  ASSUME NEW c \in ConnType, NEW d, NEW e, Advances(c, d), Advances(d, e)
  PROVE  Advances(c, e)
<1>1. d \in ConnType /\ e \in ConnType
  BY DEF Advances
<1>2. /\ c.phase \in 0..3 /\ d.phase \in 0..3 /\ e.phase \in 0..3
      /\ c.manner \in 0..2 /\ d.manner \in 0..2 /\ e.manner \in 0..2
  BY <1>1, ConnFields
<1>3. Live(e) => Live(d)
  BY <1>2 DEF Advances, Live, IsAborted, IsClosed, IsTerminating
<1> QED
  BY <1>2, <1>3 DEF Advances

LEMMA GrowsTwice ==
  ASSUME NEW c \in ConnType, NEW d, NEW e, Grows(c, d), Grows(d, e)
  PROVE  Grows(c, e)
<1>1. Advances(c, e) /\ e.wr = d.wr
  BY AdvancesTwice DEF Grows, Advances
<1> QED
  BY <1>1 DEF Grows, Mild

-----------------------------------------------------------------------------
(* Wakeups *)

\* Nothing but wakeups happens between c and d, and none is lost.
WakeOnly(c, d) ==
  /\ d \in ConnType
  /\ d.cfg = c.cfg /\ d.phase = c.phase /\ d.manner = c.manner /\ d.err = c.err
  /\ d.handle = c.handle /\ d.dropped = c.dropped /\ d.rdPaused = c.rdPaused /\ d.rdBp = c.rdBp
  /\ d.rdEof = c.rdEof /\ d.rdReady = c.rdReady /\ d.rdNotify = c.rdNotify
  /\ d.rdNotified = c.rdNotified /\ d.wrPaused = c.wrPaused /\ d.wrFlush = c.wrFlush
  /\ d.wrSend = c.wrSend /\ d.wrBp = c.wrBp /\ d.rd = c.rd /\ d.wr = c.wr
  /\ d.filterDone = c.filterDone /\ d.deadline = c.deadline /\ d.iops = c.iops
  /\ d.app = c.app /\ d.prod = c.prod
  /\ (c.ioWoken => d.ioWoken) /\ (c.rdTask => d.rdTask \/ d.ioWoken)
  /\ (c.wrTask => d.wrTask \/ d.ioWoken)
  /\ (c.appWoken => d.appWoken) /\ (c.dspTask => d.dspTask \/ d.appWoken)
  /\ (c.prodWoken => d.prodWoken) /\ (c.wrWaiter => d.wrWaiter \/ d.prodWoken)

LEMMA WakeTwice ==
  ASSUME NEW c, NEW d, NEW e, WakeOnly(c, d), WakeOnly(d, e)
  PROVE  WakeOnly(c, e)
BY DEF WakeOnly

LEMMA WakeGrows == ASSUME NEW c \in ConnType, NEW d, WakeOnly(c, d) PROVE Grows(c, d)
<1>1. /\ d \in ConnType /\ c.phase \in 0..3 /\ c.manner \in 0..2
  BY ConnFields DEF WakeOnly
<1>2. AppInv(c) => AppInv(d)
  BY DEF WakeOnly, AppInv, IsPeerGone, IsTerminating, WrHalf
<1>3. ProdInv(c) => ProdInv(d)
  BY DEF WakeOnly, ProdInv, WriteReady, IsPeerGone, IsTerminating, WrHalf
<1> QED
  BY <1>1, <1>2, <1>3
     DEF WakeOnly, Grows, Advances, Mild, Live, IsAborted, IsClosed, IsTerminating, SendInv,
         PhaseInv

LEMMA WakeReadTaskOp ==
  ASSUME NEW c \in ConnType
  PROVE  /\ WakeOnly(c, WakeReadTask(c)) /\ ~WakeReadTask(c).rdTask
         /\ c.rdTask => WakeReadTask(c).ioWoken
<1> DEFINE w == c.ioWoken \/ c.rdTask
           d == [c EXCEPT !.rdTask = FALSE, !.ioWoken = w]
<1>1. WakeReadTask(c) = d /\ w \in BOOLEAN
  BY DEF WakeReadTask
<1>2. d \in ConnType
  <2> HIDE DEF w
  <2> QED
    BY <1>1, ZenonT(60) DEF ConnType
<1> QED
  BY <1>1, <1>2 DEF WakeOnly, ConnType

LEMMA WakeWriteTaskOp ==
  ASSUME NEW c \in ConnType
  PROVE  /\ WakeOnly(c, WakeWriteTask(c)) /\ ~WakeWriteTask(c).wrTask
         /\ c.wrTask => WakeWriteTask(c).ioWoken
<1> DEFINE w == c.ioWoken \/ c.wrTask
           d == [c EXCEPT !.wrTask = FALSE, !.ioWoken = w]
<1>1. WakeWriteTask(c) = d /\ w \in BOOLEAN
  BY DEF WakeWriteTask
<1>2. d \in ConnType
  <2> HIDE DEF w
  <2> QED
    BY <1>1, ZenonT(60) DEF ConnType
<1> QED
  BY <1>1, <1>2 DEF WakeOnly, ConnType

LEMMA WakeDispatchTaskOp ==
  ASSUME NEW c \in ConnType
  PROVE  WakeOnly(c, WakeDispatchTask(c)) /\ (c.dspTask => WakeDispatchTask(c).appWoken)
<1> DEFINE w == c.appWoken \/ c.dspTask
           d == [c EXCEPT !.dspTask = FALSE, !.appWoken = w]
<1>1. WakeDispatchTask(c) = d /\ w \in BOOLEAN
  BY DEF WakeDispatchTask
<1>2. d \in ConnType
  <2> HIDE DEF w
  <2> QED
    BY <1>1, ZenonT(60) DEF ConnType
<1> QED
  BY <1>1, <1>2 DEF WakeOnly, ConnType

LEMMA WakeWriteWaitersOp ==
  ASSUME NEW c \in ConnType
  PROVE  WakeOnly(c, WakeWriteWaiters(c)) /\ (c.wrWaiter => WakeWriteWaiters(c).prodWoken)
<1> DEFINE w == c.prodWoken \/ c.wrWaiter
           d == [c EXCEPT !.wrWaiter = FALSE, !.prodWoken = w]
<1>1. WakeWriteWaiters(c) = d /\ w \in BOOLEAN
  BY DEF WakeWriteWaiters
<1>2. d \in ConnType
  <2> HIDE DEF w
  <2> QED
    BY <1>1, ZenonT(60) DEF ConnType
<1> QED
  BY <1>1, <1>2 DEF WakeOnly, ConnType

\* After a wakeup of everybody nobody is waiting for what has changed.
LEMMA WakeAllOp ==
  ASSUME NEW c \in ConnType
  PROVE  /\ WakeOnly(c, WakeAll(c))
         /\ c.dspTask => WakeAll(c).appWoken
         /\ c.wrWaiter => WakeAll(c).prodWoken
<1> DEFINE r == WakeReadTask(c)
           w == WakeWriteTask(r)
           d == WakeDispatchTask(w)
           e == WakeWriteWaiters(d)
<1>1. WakeOnly(c, r) /\ r \in ConnType
  BY WakeReadTaskOp DEF WakeOnly
<1> HIDE DEF r
<1>2. WakeOnly(r, w) /\ w \in ConnType
  BY <1>1, WakeWriteTaskOp DEF WakeOnly
<1> HIDE DEF w
<1>3. WakeOnly(w, d) /\ d \in ConnType /\ (w.dspTask => d.appWoken)
  BY <1>2, WakeDispatchTaskOp DEF WakeOnly
<1> HIDE DEF d
<1>4. WakeOnly(d, e) /\ (d.wrWaiter => e.prodWoken)
  BY <1>3, WakeWriteWaitersOp
<1> HIDE DEF e
<1>5. WakeOnly(c, w) /\ WakeOnly(w, e)
  BY <1>1, <1>2, <1>3, <1>4, WakeTwice
<1>6. WakeOnly(c, e) /\ WakeOnly(c, d)
  BY <1>3, <1>5, WakeTwice
<1>7. WakeAll(c) = e
  BY DEF WakeAll, e, d, w, r
<1>8. c.dspTask => e.appWoken
  BY <1>3, <1>4, <1>5 DEF WakeOnly
<1>9. c.wrWaiter => e.prodWoken
  BY <1>4, <1>6 DEF WakeOnly
<1> QED
  BY <1>6, <1>7, <1>8, <1>9

\* Who is told does not wait any more.
LEMMA AppTold ==
  ASSUME NEW c, NEW d, AppInv(c), d.app = c.app, c.appWoken => d.appWoken,
         c.dspTask => d.appWoken
  PROVE  AppInv(d)
BY DEF AppInv

LEMMA ProdTold ==
  ASSUME NEW c, NEW d, ProdInv(c), d.prod = c.prod, c.prodWoken => d.prodWoken,
         c.wrWaiter => d.prodWoken
  PROVE  ProdInv(d)
BY DEF ProdInv

-----------------------------------------------------------------------------
(* Teardown *)

LEMMA SetErrorOp ==
  ASSUME NEW c \in ConnType, NEW e \in BOOLEAN
  PROVE  /\ Grows(c, SetError(c, e))
         /\ SetError(c, e) \in ConnType /\ SetError(c, e) = [c EXCEPT !.err = c.err \/ e]
         /\ SetError(c, e).err = (c.err \/ e) /\ SetError(c, e).rdReady = c.rdReady
<1> DEFINE x == c.err \/ e
           d == [c EXCEPT !.err = x]
<1>1. SetError(c, e) = d /\ x \in BOOLEAN
  BY DEF SetError
<1>2. d \in ConnType
  <2> HIDE DEF x
  <2> QED
    BY <1>1, Zenon DEF ConnType
<1>3. /\ d.err = x /\ d.rdReady = c.rdReady
      /\ d.cfg = c.cfg /\ d.phase = c.phase /\ d.manner = c.manner
      /\ d.handle = c.handle /\ d.dropped = c.dropped /\ d.rdPaused = c.rdPaused
      /\ d.rdBp = c.rdBp /\ d.rdEof = c.rdEof /\ d.rdReady = c.rdReady
      /\ d.wrPaused = c.wrPaused /\ d.wrFlush = c.wrFlush
      /\ d.wrSend = c.wrSend /\ d.wrBp = c.wrBp /\ d.wr = c.wr /\ d.iops = c.iops
      /\ d.app = c.app /\ d.prod = c.prod /\ d.ioWoken = c.ioWoken /\ d.rdTask = c.rdTask
      /\ d.wrTask = c.wrTask /\ d.appWoken = c.appWoken /\ d.dspTask = c.dspTask
      /\ d.prodWoken = c.prodWoken /\ d.wrWaiter = c.wrWaiter
  BY DEF ConnType
<1> HIDE DEF d
<1>4. AppInv(c) => AppInv(d)
  BY <1>3 DEF AppInv, IsPeerGone, IsTerminating, WrHalf
<1>5. ProdInv(c) => ProdInv(d)
  BY <1>3 DEF ProdInv, WriteReady, IsPeerGone, IsTerminating, WrHalf
<1>6. Grows(c, d)
  <2>1. c.err => d.err
    BY <1>3
  <2>2. c.phase \in 0..3 /\ c.manner \in 0..2
    BY ConnFields
  <2> HIDE DEF x
  <2> QED
    BY <1>2, <1>3, <1>4, <1>5, <2>1, <2>2
       DEF Grows, Advances, Mild, Live, IsAborted, IsClosed, IsTerminating, SendInv, PhaseInv
<1> QED
  BY <1>1, <1>2, <1>3, <1>6 DEF d

\* begin_terminate()
LEMMA BeginTerminateOp ==
  ASSUME NEW c \in ConnType, NEW e \in BOOLEAN, NEW m \in 1..2
  PROVE  /\ Advances(c, BeginTerminate(c, e, m))
         /\ BeginTerminate(c, e, m).err = (c.err \/ e)
         /\ BeginTerminate(c, e, m).manner = IF IsClosed(c) THEN c.manner ELSE Larger(c.manner, m)
         /\ ~IsClosed(c) => BeginTerminate(c, e, m).phase = Larger(c.phase, FiltersStopping)
         /\ IsClosed(c) => BeginTerminate(c, e, m).phase = Stopped
<1> DEFINE d == SetError(c, e)
           ph == Larger(d.phase, FiltersStopping)
           mn == Larger(d.manner, m)
           t == [d EXCEPT !.phase = ph, !.manner = mn]
           q == [t EXCEPT !.rdReady = TRUE, !.handle = FALSE]
           f == WakeAll(q)
<1>1. Grows(c, d) /\ d \in ConnType /\ d.err = (c.err \/ e)
  BY SetErrorOp
<1>2. d.phase = c.phase /\ d.manner = c.manner
  BY DEF SetError, ConnType
<1>3. BeginTerminate(c, e, m) = IF IsClosed(c) THEN d ELSE IF IsTerminating(c) THEN t ELSE f
  BY DEF BeginTerminate
<1> HIDE DEF d
<1>4. c.phase \in 0..3 /\ c.manner \in 0..2
  BY ConnFields
<1>5. ph \in 1..3 /\ mn \in 1..2 /\ c.phase <= ph /\ c.manner <= mn
  BY <1>2, <1>4 DEF Larger
<1>6. ph = Larger(c.phase, FiltersStopping) /\ mn = Larger(c.manner, m)
  BY <1>2
<1>7. ph = 3 => c.phase = 3
  BY <1>4, <1>6 DEF Larger
<1>8. CASE IsClosed(c)
  BY <1>1, <1>2, <1>3, <1>8 DEF Grows, IsClosed
<1> HIDE DEF ph, mn
<1>9. t \in ConnType
  <2>1. ph \in 0..3 /\ mn \in 0..2
    BY <1>5
  <2> QED
    BY <1>1, <2>1, ZenonT(60) DEF ConnType
<1>10. /\ t.phase = ph /\ t.manner = mn /\ t.err = d.err
       /\ t.cfg = d.cfg /\ t.handle = d.handle /\ t.dropped = d.dropped
       /\ t.rdPaused = d.rdPaused /\ t.rdBp = d.rdBp /\ t.rdEof = d.rdEof
       /\ t.rdReady = d.rdReady /\ t.wrPaused = d.wrPaused /\ t.wrFlush = d.wrFlush
       /\ t.wrSend = d.wrSend /\ t.wrBp = d.wrBp /\ t.wr = d.wr /\ t.iops = d.iops
       /\ t.app = d.app /\ t.prod = d.prod /\ t.ioWoken = d.ioWoken /\ t.rdTask = d.rdTask
       /\ t.wrTask = d.wrTask /\ t.appWoken = d.appWoken /\ t.dspTask = d.dspTask
       /\ t.prodWoken = d.prodWoken /\ t.wrWaiter = d.wrWaiter
  BY <1>1 DEF ConnType
<1>11. ~Live(t) /\ (PhaseInv(d) => PhaseInv(t)) /\ (SendInv(d) => SendInv(t))
  BY <1>5, <1>10 DEF Live, IsAborted, IsTerminating, PhaseInv, SendInv
<1> HIDE DEF t

\* The later call: nobody waits for a connection that is being torn down.
<1>12. CASE ~IsClosed(c) /\ IsTerminating(c)
  <2>1. IsTerminating(d) /\ IsTerminating(t)
    BY <1>2, <1>5, <1>10, <1>12 DEF IsTerminating
  <2>2. AppInv(d) => AppInv(t)
    BY <1>10, <2>1 DEF AppInv, IsPeerGone
  <2>3. ProdInv(d) => ProdInv(t)
    BY <1>10, <2>1 DEF ProdInv, WriteReady, IsPeerGone
  <2>4. Advances(d, t)
    BY <1>2, <1>5, <1>7, <1>9, <1>10, <1>11, <2>2, <2>3 DEF Advances
  <2>5. Advances(c, t)
    BY <1>1, <2>4, AdvancesTwice DEF Grows
  <2> QED
    BY <1>1, <1>3, <1>6, <1>10, <1>12, <2>5

\* The first call: everybody is woken.
<1>13. CASE ~IsClosed(c) /\ ~IsTerminating(c)
  <2>1. q \in ConnType
    BY <1>9, ZenonT(60) DEF ConnType
  <2>2. /\ q.phase = t.phase /\ q.manner = t.manner /\ q.err = t.err
        /\ q.cfg = t.cfg /\ q.dropped = t.dropped
        /\ q.rdPaused = t.rdPaused /\ q.rdBp = t.rdBp /\ q.rdEof = t.rdEof
        /\ q.wrPaused = t.wrPaused /\ q.wrFlush = t.wrFlush
        /\ q.wrSend = t.wrSend /\ q.wrBp = t.wrBp /\ q.wr = t.wr /\ q.iops = t.iops
        /\ q.app = t.app /\ q.prod = t.prod /\ q.ioWoken = t.ioWoken /\ q.rdTask = t.rdTask
        /\ q.wrTask = t.wrTask /\ q.appWoken = t.appWoken /\ q.dspTask = t.dspTask
        /\ q.prodWoken = t.prodWoken /\ q.wrWaiter = t.wrWaiter
    BY <1>9 DEF ConnType
  <2> HIDE DEF q
  <2>3. /\ WakeOnly(q, f) /\ (q.dspTask => f.appWoken) /\ (q.wrWaiter => f.prodWoken)
    BY <2>1, WakeAllOp
  <2>4. f \in ConnType
    BY <2>3 DEF WakeOnly
  <2> HIDE DEF f
  <2>5. AppInv(d) => AppInv(f)
    <3>1. f.app = d.app /\ (d.appWoken => f.appWoken) /\ (d.dspTask => f.appWoken)
      BY <1>10, <2>2, <2>3 DEF WakeOnly
    <3> QED
      BY <3>1, AppTold
  <2>6. ProdInv(d) => ProdInv(f)
    <3>1. f.prod = d.prod /\ (d.prodWoken => f.prodWoken) /\ (d.wrWaiter => f.prodWoken)
      BY <1>10, <2>2, <2>3 DEF WakeOnly
    <3> QED
      BY <3>1, ProdTold
  <2>7. ~Live(f) /\ (PhaseInv(t) => PhaseInv(f)) /\ (SendInv(t) => SendInv(f))
    BY <1>5, <1>10, <2>2, <2>3 DEF WakeOnly, Live, IsAborted, IsTerminating, PhaseInv, SendInv
  <2>8. Advances(d, f)
    BY <1>2, <1>5, <1>7, <1>10, <1>11, <2>2, <2>3, <2>4, <2>5, <2>6, <2>7
       DEF Advances, WakeOnly
  <2>9. Advances(c, f)
    BY <1>1, <2>8, AdvancesTwice DEF Grows
  <2>10. f.err = d.err /\ f.phase = ph /\ f.manner = mn
    BY <1>10, <2>2, <2>3 DEF WakeOnly
  <2> QED
    BY <1>1, <1>3, <1>6, <1>13, <2>9, <2>10
<1> QED
  BY <1>8, <1>12, <1>13

LEMMA TerminateOp ==
  ASSUME NEW c \in ConnType, NEW e \in BOOLEAN, e \/ c.wr = 0
  PROVE  Grows(c, TerminateConnection(c, e)) /\ IsAborted(TerminateConnection(c, e))
<1> DEFINE d == TerminateConnection(c, e)
<1>1. /\ Advances(c, d) /\ d.err = (c.err \/ e)
      /\ d.manner = IF IsClosed(c) THEN c.manner ELSE Larger(c.manner, Terminating)
      /\ IsClosed(c) => d.phase = Stopped
  BY BeginTerminateOp DEF TerminateConnection
<1> HIDE DEF d
<1>2. c.manner \in 0..2 /\ d.manner \in 0..2
  BY <1>1, ConnFields DEF Advances
<1>3. (d.manner = 2 => c.manner = 2) /\ IsAborted(d)
  BY <1>1, <1>2 DEF Larger, IsAborted, IsClosed, IsTerminating
<1>4. ~d.err => c.wr = 0
  BY <1>1
<1> QED
  BY <1>1, <1>3, <1>4 DEF Grows, Advances, Mild, d

LEMMA StartShutdownOp ==
  ASSUME NEW c \in ConnType
  PROVE  /\ Grows(c, StartShutdown(c)) /\ StartShutdown(c).phase # Active
         /\ StartShutdown(c).rdPaused = c.rdPaused
<1>1. CASE c.phase # Active
  BY <1>1, GrowsSame DEF StartShutdown
<1>2. CASE c.phase = Active
  <2> DEFINE q == [c EXCEPT !.phase = FiltersStopping]
             r == WakeReadTask(q)
  <2>1. q \in ConnType
    BY DEF ConnType
  <2>2. Grows(c, q) /\ q.phase = FiltersStopping /\ q.rdPaused = c.rdPaused
    BY <1>2, <2>1, ConnFields DEF ConnType, Grows, Advances, Mild, Live, IsAborted, IsClosed,
       IsTerminating, IsPeerGone,
     SendInv, AppInv, ProdInv, PhaseInv, WriteReady, WrHalf
  <2> HIDE DEF q
  <2>3. WakeOnly(q, r) /\ r \in ConnType
    BY <2>1, WakeReadTaskOp DEF WakeOnly
  <2> HIDE DEF r
  <2>4. WakeOnly(q, WakeWriteTask(r))
    BY <2>3, WakeWriteTaskOp, WakeTwice
  <2>5. StartShutdown(c) = WakeWriteTask(r)
    BY <1>2 DEF StartShutdown, r, q
  <2> QED
    BY <2>1, <2>2, <2>4, <2>5, WakeGrows, GrowsTwice DEF WakeOnly
<1> QED
  BY <1>1, <1>2

\* filters_stopped(): everybody is woken.
LEMMA StopFiltersOp ==
  ASSUME NEW c \in ConnType, NEW e \in BOOLEAN
  PROVE  Grows(c, StopFilters(c, e))
<1> DEFINE d == SetError(c, e)
           ph == Larger(d.phase, TransportShutdown)
           q == [d EXCEPT !.phase = ph]
           f == WakeAll(q)
<1>1. Grows(c, d) /\ d \in ConnType
  BY SetErrorOp
<1>2. StopFilters(c, e) = f
  BY DEF StopFilters
<1> HIDE DEF d
<1>3. d.phase \in 0..3
  BY <1>1, ConnFields
<1>4. ph \in 0..3 /\ ph # 0 /\ d.phase <= ph /\ (ph = 3 => d.phase = 3)
  BY <1>3 DEF Larger
<1> HIDE DEF ph
<1>5. q \in ConnType
  BY <1>1, <1>4, ZenonT(60) DEF ConnType
<1>6. /\ q.phase = ph /\ q.manner = d.manner /\ q.err = d.err /\ q.handle = d.handle
      /\ q.cfg = d.cfg /\ q.dropped = d.dropped
      /\ q.rdPaused = d.rdPaused /\ q.rdBp = d.rdBp /\ q.rdEof = d.rdEof
      /\ q.wrPaused = d.wrPaused /\ q.wrFlush = d.wrFlush
      /\ q.wrSend = d.wrSend /\ q.wrBp = d.wrBp /\ q.wr = d.wr /\ q.iops = d.iops
      /\ q.app = d.app /\ q.prod = d.prod /\ q.ioWoken = d.ioWoken /\ q.rdTask = d.rdTask
      /\ q.wrTask = d.wrTask /\ q.appWoken = d.appWoken /\ q.dspTask = d.dspTask
      /\ q.prodWoken = d.prodWoken /\ q.wrWaiter = d.wrWaiter
  BY <1>1 DEF ConnType
<1> HIDE DEF q
<1>7. /\ WakeOnly(q, f) /\ (q.dspTask => f.appWoken) /\ (q.wrWaiter => f.prodWoken)
  BY <1>5, WakeAllOp
<1>8. f \in ConnType
  BY <1>7 DEF WakeOnly
<1> HIDE DEF f
<1>9. AppInv(d) => AppInv(f)
  <2>1. f.app = d.app /\ (d.appWoken => f.appWoken) /\ (d.dspTask => f.appWoken)
    BY <1>6, <1>7 DEF WakeOnly
  <2> QED
    BY <2>1, AppTold
<1>10. ProdInv(d) => ProdInv(f)
  <2>1. f.prod = d.prod /\ (d.prodWoken => f.prodWoken) /\ (d.wrWaiter => f.prodWoken)
    BY <1>6, <1>7 DEF WakeOnly
  <2> QED
    BY <2>1, ProdTold
<1>11. (PhaseInv(d) => PhaseInv(f)) /\ (SendInv(d) => SendInv(f))
  BY <1>4, <1>6, <1>7 DEF WakeOnly, PhaseInv, SendInv
<1>12. d.manner \in 0..2
  BY <1>1, ConnFields
<1>13. Grows(d, f)
  BY <1>4, <1>6, <1>7, <1>8, <1>9, <1>10, <1>11, <1>12 DEF Grows, Advances, Mild, WakeOnly
<1> QED
  BY <1>1, <1>2, <1>13, GrowsTwice

LEMMA EnableWrBackpressureOp ==
  ASSUME NEW c \in ConnType
  PROVE  /\ Grows(c, EnableWrBackpressure(c))
         /\ \/ WakeOnly(c, EnableWrBackpressure(c))
            \/ WakeOnly([c EXCEPT !.wrBp = TRUE], EnableWrBackpressure(c))
<1> DEFINE q == [c EXCEPT !.wrBp = TRUE]
<1>1. q \in ConnType
  BY DEF ConnType
<1>2. Grows(c, q)
  BY <1>1, ConnFields DEF ConnType, Grows, Advances, Mild, Live, IsAborted, IsClosed,
     IsTerminating, IsPeerGone,
     SendInv, AppInv, ProdInv, PhaseInv, WriteReady, WrHalf
<1>3. WakeOnly(c, c)
  BY DEF WakeOnly
<1> HIDE DEF q
<1>4. WakeOnly(q, WakeDispatchTask(q)) /\ Grows(q, WakeDispatchTask(q))
  BY <1>1, WakeDispatchTaskOp, WakeGrows
<1>5. EnableWrBackpressure(c) \in {c, WakeDispatchTask(q)}
  BY DEF EnableWrBackpressure, q
<1>6. Grows(c, WakeDispatchTask(q))
  BY <1>1, <1>2, <1>4, GrowsTwice
<1> QED
  BY <1>3, <1>4, <1>5, <1>6, GrowsSame DEF q

LEMMA ScheduleWriteOp ==
  ASSUME NEW c \in ConnType
  PROVE  Grows(c, ScheduleWrite(c)) /\ ScheduleWrite(c).wrSend
<1> DEFINE q == [c EXCEPT !.wrSend = TRUE, !.iops = TRUE]
<1>1. q \in ConnType
  BY Zenon DEF ConnType
<1>2. Grows(c, q) /\ q.wrSend
  BY <1>1, ConnFields DEF ConnType, Grows, Advances, Mild, Live, IsAborted, IsClosed,
     IsTerminating, IsPeerGone,
     SendInv, AppInv, ProdInv, PhaseInv, WriteReady, WrHalf
<1> QED
  BY <1>2, GrowsSame DEF ScheduleWrite

LEMMA ArmOp == ASSUME NEW c \in ConnType PROVE Grows(c, Arm(c))
<1> DEFINE x == IF c.deadline = "none" THEN "armed" ELSE c.deadline
           q == [c EXCEPT !.deadline = x]
<1>1. x \in {"none", "armed", "elapsed"}
  BY DEF ConnType
<1>2. Arm(c) = q
  BY DEF Arm
<1> HIDE DEF x
<1>3. q \in ConnType
  BY <1>1 DEF ConnType
<1>4. Grows(c, q)
  BY <1>3, ConnFields DEF ConnType, Grows, Advances, Mild, Live, IsAborted, IsClosed,
     IsTerminating, IsPeerGone,
     SendInv, AppInv, ProdInv, PhaseInv, WriteReady, WrHalf
<1> QED
  BY <1>2, <1>4

-----------------------------------------------------------------------------
(* Reads *)

\* A change of the input, and the dispatch task is told.
LEMMA InputTold ==
  ASSUME NEW c \in ConnType, NEW q \in ConnType,
         q.phase = c.phase /\ q.manner = c.manner /\ q.err = c.err /\ q.handle = c.handle,
         q.cfg = c.cfg /\ q.dropped = c.dropped,
         c.rdPaused => q.rdPaused, c.rdBp => q.rdBp, c.rdEof => q.rdEof,
         (c.rdBp => c.rdPaused) => (q.rdBp => q.rdPaused),
         q.wrPaused = c.wrPaused /\ q.wrFlush = c.wrFlush /\ q.wrSend = c.wrSend,
         q.wrBp = c.wrBp /\ q.wr = c.wr /\ q.iops = c.iops /\ q.app = c.app /\ q.prod = c.prod,
         q.ioWoken = c.ioWoken /\ q.rdTask = c.rdTask /\ q.wrTask = c.wrTask,
         q.appWoken = c.appWoken /\ q.dspTask = c.dspTask,
         q.prodWoken = c.prodWoken /\ q.wrWaiter = c.wrWaiter
  PROVE  Grows(c, WakeDispatchTask(q))
<1> DEFINE f == WakeDispatchTask(q)
<1>1. WakeOnly(q, f) /\ (q.dspTask => f.appWoken) /\ f \in ConnType
  BY WakeDispatchTaskOp DEF WakeOnly
<1> HIDE DEF f
<1>2. AppInv(c) => AppInv(f)
  <2>1. f.app = c.app /\ (c.appWoken => f.appWoken) /\ (c.dspTask => f.appWoken)
    BY <1>1 DEF WakeOnly
  <2> QED
    BY <2>1, AppTold
<1>3. ProdInv(c) => ProdInv(f)
  BY <1>1 DEF WakeOnly, ProdInv, WriteReady, IsPeerGone, IsTerminating, WrHalf
<1>4. (PhaseInv(c) => PhaseInv(f)) /\ (SendInv(c) => SendInv(f))
  BY <1>1 DEF WakeOnly, PhaseInv, SendInv
<1>5. c.phase \in 0..3 /\ c.manner \in 0..2
  BY ConnFields
<1>6. Grows(c, f)
  BY <1>1, <1>2, <1>3, <1>4, <1>5 DEF Grows, Advances, Mild, WakeOnly
<1> QED
  BY <1>6 DEF f

LEMMA FedOp ==
  ASSUME NEW c \in ConnType, NEW x \in BOOLEAN
  PROVE  /\ Grows(c, [c EXCEPT !.filterDone = x]) /\ [c EXCEPT !.filterDone = x] \in ConnType
<1>1. [c EXCEPT !.filterDone = x] \in ConnType
  BY DEF ConnType
<1> QED
  BY <1>1, ConnFields DEF ConnType, Grows, Advances, Mild, Live, IsAborted, IsClosed,
     IsTerminating, IsPeerGone,
     SendInv, AppInv, ProdInv, PhaseInv, WriteReady, WrHalf

LEMMA ProcessReadInputOp ==
  ASSUME NEW c \in ConnType, NEW orig
  PROVE  Grows(c, ProcessReadInput(c, orig))
<1> DEFINE full == c.rd >= c.cfg.rdHigh
           x == c.filterDone \/ (c.phase = FiltersStopping /\ c.rd > orig)
           fed == [c EXCEPT !.filterDone = x]
           y == fed.rdPaused \/ full
           z == fed.rdBp \/ full
           q == [fed EXCEPT !.rdReady = TRUE, !.rdPaused = y, !.rdBp = z]
           got == IF c.rd > orig THEN WakeDispatchTask(q) ELSE fed
           n(d) == IF d.rdNotify THEN WakeDispatchTask([d EXCEPT !.rdNotified = TRUE]) ELSE d
           stop(d) == IF IsShuttingDownFilters(d) THEN WakeReadTask(d) ELSE d
<1>1. ProcessReadInput(c, orig) = stop(n(got))
  BY DEF ProcessReadInput
<1>2. x \in BOOLEAN /\ y \in BOOLEAN /\ z \in BOOLEAN
  OBVIOUS
<1>3. Grows(c, fed) /\ fed \in ConnType
  <2> HIDE DEF x
  <2> QED
    BY <1>2, FedOp
<1> HIDE DEF fed
<1>4. /\ (fed.rdPaused => y) /\ (fed.rdBp => z)
      /\ (fed.rdBp => fed.rdPaused) => (z => y)
  OBVIOUS
<1>5. Grows(fed, WakeDispatchTask(q))
  <2> HIDE DEF y, z
  <2>1. q \in ConnType
    BY <1>2, <1>3, ZenonT(60) DEF ConnType
  <2>2. /\ q.phase = fed.phase /\ q.manner = fed.manner /\ q.err = fed.err
        /\ q.handle = fed.handle /\ q.cfg = fed.cfg /\ q.dropped = fed.dropped
        /\ q.rdPaused = y /\ q.rdBp = z /\ q.rdEof = fed.rdEof
        /\ q.wrPaused = fed.wrPaused /\ q.wrFlush = fed.wrFlush /\ q.wrSend = fed.wrSend
        /\ q.wrBp = fed.wrBp /\ q.wr = fed.wr /\ q.iops = fed.iops /\ q.app = fed.app
        /\ q.prod = fed.prod /\ q.ioWoken = fed.ioWoken /\ q.rdTask = fed.rdTask
        /\ q.wrTask = fed.wrTask /\ q.appWoken = fed.appWoken /\ q.dspTask = fed.dspTask
        /\ q.prodWoken = fed.prodWoken /\ q.wrWaiter = fed.wrWaiter
    BY <1>3 DEF ConnType
  <2> HIDE DEF q
  <2> QED
    BY <1>3, <1>4, <2>1, <2>2, InputTold
<1> HIDE DEF q
<1>6. Grows(c, got) /\ got \in ConnType
  BY <1>3, <1>5, GrowsTwice DEF Grows, Advances
<1> HIDE DEF got
<1>7. ASSUME NEW d \in ConnType PROVE Grows(d, n(d)) /\ n(d) \in ConnType
  <2> DEFINE r == [d EXCEPT !.rdNotified = TRUE]
  <2>1. r \in ConnType
    BY DEF ConnType
  <2>2. /\ r.phase = d.phase /\ r.manner = d.manner /\ r.err = d.err
        /\ r.handle = d.handle /\ r.cfg = d.cfg /\ r.dropped = d.dropped
        /\ r.rdPaused = d.rdPaused /\ r.rdBp = d.rdBp /\ r.rdEof = d.rdEof
        /\ r.wrPaused = d.wrPaused /\ r.wrFlush = d.wrFlush /\ r.wrSend = d.wrSend
        /\ r.wrBp = d.wrBp /\ r.wr = d.wr /\ r.iops = d.iops /\ r.app = d.app
        /\ r.prod = d.prod /\ r.ioWoken = d.ioWoken /\ r.rdTask = d.rdTask
        /\ r.wrTask = d.wrTask /\ r.appWoken = d.appWoken /\ r.dspTask = d.dspTask
        /\ r.prodWoken = d.prodWoken /\ r.wrWaiter = d.wrWaiter
    BY DEF ConnType
  <2> HIDE DEF r
  <2>3. Grows(d, WakeDispatchTask(r))
    BY <2>1, <2>2, InputTold
  <2>4. Grows(d, n(d))
    BY <2>3, GrowsSame DEF r
  <2> HIDE DEF n
  <2> QED
    BY <2>4 DEF Grows, Advances
<1>8. ASSUME NEW d \in ConnType PROVE Grows(d, stop(d))
  BY WakeReadTaskOp, WakeGrows, GrowsSame
<1> HIDE DEF n, stop
<1>9. Grows(c, n(got)) /\ n(got) \in ConnType
  BY <1>6, <1>7, GrowsTwice
<1> QED
  BY <1>1, <1>8, <1>9, GrowsTwice

LEMMA ReadBytesOp ==
  ASSUME NEW c \in ConnType, NEW n \in Nat
  PROVE  Grows(c, ReadBytes(c, n)) /\ (n = 0 /\ c.phase < TransportShutdown => ReadBytes(c, n).rdEof)
<1>1. CASE c.phase >= TransportShutdown
  <2> DEFINE x == c.rdEof \/ n = 0
             q == [c EXCEPT !.rdEof = x]
  <2>1. ReadBytes(c, n) = q /\ x \in BOOLEAN
    BY <1>1 DEF ReadBytes
  <2>2. c.rdEof => x
    OBVIOUS
  <2> HIDE DEF x
  <2>3. q \in ConnType
    BY <2>1 DEF ConnType
  <2>4. Grows(c, q)
    BY <1>1, <2>2, <2>3, ConnFields DEF ConnType, Grows, Advances, Mild, Live, IsAborted,
       IsClosed, IsTerminating, IsPeerGone,
     SendInv, AppInv, ProdInv, PhaseInv, WriteReady, WrHalf
  <2> QED
    BY <1>1, <2>1, <2>4, ConnFields
<1>2. CASE c.phase < TransportShutdown /\ n > 0
  <2> DEFINE m == c.rd + (IF c.dropped THEN 0 ELSE n)
             q == [c EXCEPT !.rd = m]
  <2>1. m \in Nat
    BY ConnFields
  <2>2. ReadBytes(c, n) = ProcessReadInput(q, c.rd)
    BY <1>2, ConnFields DEF ReadBytes
  <2> HIDE DEF m
  <2>3. q \in ConnType
    BY <2>1 DEF ConnType
  <2>4. Grows(c, q)
    BY <2>3, ConnFields DEF ConnType, Grows, Advances, Mild, Live, IsAborted, IsClosed,
       IsTerminating, IsPeerGone,
     SendInv, AppInv, ProdInv, PhaseInv, WriteReady, WrHalf
  <2> HIDE DEF q
  <2> QED
    BY <1>2, <2>2, <2>3, <2>4, ProcessReadInputOp, GrowsTwice
<1>3. CASE c.phase < TransportShutdown /\ n = 0 /\ c.rdEof
  BY <1>3, GrowsSame, ConnFields DEF ReadBytes
<1>4. CASE c.phase < TransportShutdown /\ n = 0 /\ ~c.rdEof
  <2> DEFINE q == [c EXCEPT !.rdEof = TRUE]
             w == WakeDispatchTask(q)
  <2>1. q \in ConnType
    BY DEF ConnType
  <2>2. /\ q.phase = c.phase /\ q.manner = c.manner /\ q.err = c.err
        /\ q.handle = c.handle /\ q.cfg = c.cfg /\ q.dropped = c.dropped
        /\ q.rdPaused = c.rdPaused /\ q.rdBp = c.rdBp /\ q.rdEof
        /\ q.wrPaused = c.wrPaused /\ q.wrFlush = c.wrFlush /\ q.wrSend = c.wrSend
        /\ q.wrBp = c.wrBp /\ q.wr = c.wr /\ q.iops = c.iops /\ q.app = c.app
        /\ q.prod = c.prod /\ q.ioWoken = c.ioWoken /\ q.rdTask = c.rdTask
        /\ q.wrTask = c.wrTask /\ q.appWoken = c.appWoken /\ q.dspTask = c.dspTask
        /\ q.prodWoken = c.prodWoken /\ q.wrWaiter = c.wrWaiter
    BY DEF ConnType
  <2>3. ReadBytes(c, n) = ProcessReadInput(w, c.rd)
    BY <1>4, ConnFields DEF ReadBytes
  <2> HIDE DEF q
  <2>4. Grows(c, w) /\ w \in ConnType /\ w.rdEof
    BY <2>1, <2>2, InputTold, WakeDispatchTaskOp DEF WakeOnly
  <2> HIDE DEF w
  <2>5. Grows(w, ProcessReadInput(w, c.rd))
    BY <2>4, ProcessReadInputOp
  <2>6. ProcessReadInput(w, c.rd).rdEof
    BY <2>4, <2>5 DEF Grows, Advances
  <2> QED
    BY <2>3, <2>4, <2>5, <2>6, GrowsTwice
<1> QED
  BY <1>1, <1>2, <1>3, <1>4, ConnFields

LEMMA ReadFailedOp ==
  ASSUME NEW c \in ConnType
  PROVE  Grows(c, ReadFailed(c)) /\ (c.phase = Active => IsAborted(ReadFailed(c)))
<1>1. CASE c.phase >= TransportShutdown
  <2> DEFINE q == [c EXCEPT !.rdEof = TRUE]
  <2>1. q \in ConnType
    BY DEF ConnType
  <2>2. Grows(c, q)
    BY <1>1, <2>1, ConnFields DEF ConnType, Grows, Advances, Mild, Live, IsAborted, IsClosed,
       IsTerminating, IsPeerGone,
     SendInv, AppInv, ProdInv, PhaseInv, WriteReady, WrHalf
  <2>3. ReadFailed(c) = q
    BY <1>1 DEF ReadFailed
  <2>4. c.phase # Active
    BY <1>1, ConnFields
  <2> QED
    BY <2>2, <2>3, <2>4
<1>2. CASE c.phase = FiltersStopping
  <2>1. ReadFailed(c) = StopFilters(c, TRUE)
    BY <1>2 DEF ReadFailed
  <2>2. Grows(c, StopFilters(c, TRUE))
    BY StopFiltersOp, Zenon
  <2>3. c.phase # Active
    BY <1>2
  <2> QED
    BY <2>1, <2>2, <2>3, Zenon
<1>3. CASE c.phase = Active
  <2>1. ReadFailed(c) = TerminateConnection(c, TRUE)
    BY <1>3 DEF ReadFailed
  <2> QED
    BY <2>1, TerminateOp
<1> QED
  BY <1>1, <1>2, <1>3, ConnFields

-----------------------------------------------------------------------------
(* Writes *)

\* Like Grows, for a step that may write.
Moves(c, d) ==
  /\ d \in ConnType
  /\ d.cfg = c.cfg /\ d.app = c.app /\ d.prod = c.prod /\ d.dropped = c.dropped
  /\ d.wr <= c.wr
  /\ c.phase <= d.phase /\ (d.phase = Stopped => c.phase = Stopped) /\ c.manner <= d.manner
  /\ (c.err => d.err) /\ (c.rdPaused => d.rdPaused) /\ (c.rdBp => d.rdBp) /\ (c.rdEof => d.rdEof)
  /\ (SendInv(c) => SendInv(d))
  /\ (c.ioWoken => d.ioWoken) /\ (c.rdTask => d.rdTask \/ d.ioWoken)
  /\ (c.wrTask => d.wrTask \/ d.ioWoken)
  /\ (AppInv(c) => AppInv(d)) /\ (ProdInv(c) => ProdInv(d)) /\ (PhaseInv(c) => PhaseInv(d))
  /\ Mild(c, d)

LEMMA GrowsMoves == ASSUME NEW c \in ConnType, NEW d, Grows(c, d) PROVE Moves(c, d)
BY ConnFields DEF Grows, Advances, Moves

LEMMA MovesTwice ==
  ASSUME NEW c \in ConnType, NEW d, NEW e, Moves(c, d), Moves(d, e)
  PROVE  Moves(c, e)
<1>1. d \in ConnType /\ e \in ConnType
  BY DEF Moves
<1>2. /\ c.phase \in 0..3 /\ d.phase \in 0..3 /\ e.phase \in 0..3
      /\ c.manner \in 0..2 /\ d.manner \in 0..2 /\ e.manner \in 0..2
      /\ c.wr \in Nat /\ d.wr \in Nat /\ e.wr \in Nat
  BY <1>1, ConnFields
<1>3. Mild(c, e)
  BY <1>2 DEF Moves, Mild
<1> QED
  BY <1>2, <1>3 DEF Moves

LEMMA MovesLive ==
  ASSUME NEW c \in ConnType, NEW d, Moves(c, d)
  PROVE  /\ Live(d) => Live(c)
         /\ IsAborted(c) => IsAborted(d)
         /\ d.phase = Active => c.phase = Active
         /\ RdReg(c) => RdReg(d)
         /\ WrReg(c) => WrReg(d)
<1>1. /\ c.phase \in 0..3 /\ d.phase \in 0..3 /\ c.manner \in 0..2 /\ d.manner \in 0..2
  BY ConnFields DEF Moves
<1>2. Live(d) => Live(c)
  BY <1>1 DEF Moves, Live, IsAborted, IsClosed, IsTerminating
<1> QED
  BY <1>1, <1>2 DEF Moves, IsAborted, IsClosed, IsTerminating, RdReg, WrReg

\* A write: what it leaves is noted, and who waits for the buffer is told.
Writes(c, d) ==
  /\ Moves(c, d)
  /\ d.phase = c.phase /\ d.manner = c.manner /\ d.err = c.err /\ d.handle = c.handle
  /\ ~IsAborted(c) => (d.wrPaused <=> d.wr = 0)

LEMMA UpdateWriteStatusOp ==
  ASSUME NEW c \in ConnType, NEW m \in Nat, m <= c.wr
  PROVE  /\ Writes(c, UpdateWriteStatus([c EXCEPT !.wr = m]))
         /\ UpdateWriteStatus([c EXCEPT !.wr = m]).wr = m
<1> DEFINE c1 == [c EXCEPT !.wr = m]
           b1 == EnableWrBackpressure(c1)
           dispatch(b) == IF (b.wrFlush /\ b.wr = 0) \/ WrLow(b) THEN WakeDispatchTask(b) ELSE b
           waiters(b) == IF WrLow(b) THEN WakeWriteWaiters(b) ELSE b
           b2 == dispatch(b1)
           b3 == waiters(b2)
           d == WriteTaskStatus(b3)
<1>1. UpdateWriteStatus(c1) = d
  BY DEF UpdateWriteStatus
<1>2. c1 \in ConnType
  BY DEF ConnType

\* What the wakeups do not change, with the buffer at m bytes.
<1> DEFINE Same(x) ==
             /\ x \in ConnType
             /\ x.cfg = c.cfg /\ x.phase = c.phase /\ x.manner = c.manner /\ x.err = c.err
             /\ x.handle = c.handle /\ x.dropped = c.dropped /\ x.rdPaused = c.rdPaused
             /\ x.rdBp = c.rdBp /\ x.rdEof = c.rdEof /\ x.rdReady = c.rdReady
             /\ x.wrFlush = c.wrFlush /\ x.wrSend = c.wrSend /\ x.iops = c.iops
             /\ x.app = c.app /\ x.prod = c.prod /\ x.wr = m /\ (c.wrBp => x.wrBp)
             /\ (c.ioWoken => x.ioWoken) /\ (c.rdTask => x.rdTask \/ x.ioWoken)
             /\ (c.wrTask => x.wrTask \/ x.ioWoken)
             /\ (c.appWoken => x.appWoken) /\ (c.dspTask => x.dspTask \/ x.appWoken)
             /\ (c.prodWoken => x.prodWoken) /\ (c.wrWaiter => x.wrWaiter \/ x.prodWoken)
           Low(x) == x.wrBp /\ m <= WrHalf(c)
<1>3. ASSUME NEW x, NEW y, Same(x), WakeOnly(x, y) PROVE Same(y) /\ Low(x) = Low(y)
  BY <1>3 DEF WakeOnly
<1>4. ASSUME NEW x, Same(x) PROVE WrLow(x) = Low(x)
  BY <1>4 DEF WrLow, WrHalf
<1>5. Same(b1)
  <2>1. Same(c1)
    BY <1>2 DEF ConnType
  <2>2. Same([c1 EXCEPT !.wrBp = TRUE])
    <3>1. [c1 EXCEPT !.wrBp = TRUE] \in ConnType
      <4> HIDE DEF c1
      <4> QED
        BY <1>2 DEF ConnType
    <3> QED
      BY <3>1, <2>1 DEF ConnType
  <2>3. WakeOnly(c1, b1) \/ WakeOnly([c1 EXCEPT !.wrBp = TRUE], b1)
    BY <1>2, EnableWrBackpressureOp
  <2> HIDE DEF c1, b1, Same
  <2> QED
    BY <1>3, <2>1, <2>2, <2>3
<1> HIDE DEF c1, b1
<1>6. /\ Same(b2) /\ Low(b2) = Low(b1)
      /\ (b1.wrFlush /\ m = 0) \/ Low(b1) => (b1.dspTask => b2.appWoken)
  <2>1. b1 \in ConnType /\ WakeOnly(b1, b1) /\ b1.wr = m
    BY <1>5 DEF WakeOnly
  <2>2. WakeOnly(b1, b2)
    BY <2>1, WakeDispatchTaskOp
  <2>3. (b1.wrFlush /\ m = 0) \/ Low(b1) => (b1.dspTask => b2.appWoken)
    <3>1. WrLow(b1) = Low(b1)
      BY <1>4, <1>5
    <3> HIDE DEF Low
    <3> QED
      BY <2>1, <3>1, WakeDispatchTaskOp
  <2> HIDE DEF b2, Same, Low
  <2> QED
    BY <1>3, <1>5, <2>2, <2>3
<1>7. /\ Same(b3) /\ Low(b3) = Low(b2) /\ (b2.appWoken => b3.appWoken)
      /\ Low(b2) => (b2.wrWaiter => b3.prodWoken)
  <2> HIDE DEF b2
  <2>1. b2 \in ConnType /\ WakeOnly(b2, b2)
    BY <1>6 DEF WakeOnly
  <2>2. WakeOnly(b2, b3)
    BY <2>1, WakeWriteWaitersOp
  <2>3. Low(b2) => (b2.wrWaiter => b3.prodWoken)
    <3>1. WrLow(b2) = Low(b2)
      BY <1>4, <1>6
    <3> HIDE DEF Low
    <3> QED
      BY <2>1, <3>1, WakeWriteWaitersOp
  <2>4. b2.appWoken => b3.appWoken
    BY <2>2, SMTT(60) DEF WakeOnly
  <2> HIDE DEF b3, Same, Low
  <2> QED
    BY <1>3, <1>6, <2>2, <2>3, <2>4

\* So far, seen from c.
<1>8. /\ Same(b3)
      /\ (b3.wrFlush /\ m = 0) \/ Low(b3) => (c.dspTask => b3.appWoken)
      /\ Low(b3) => (c.wrWaiter => b3.prodWoken)
  <2>1. (b3.wrFlush /\ m = 0) \/ Low(b3) => (c.dspTask => b3.appWoken)
    <3>1. b3.wrFlush = b1.wrFlush /\ (c.dspTask => b1.dspTask \/ b1.appWoken)
      BY <1>5, <1>7
    <3>2. b1.appWoken => b2.appWoken
      <4> HIDE DEF b2
      <4> QED
        BY <1>5, WakeDispatchTaskOp DEF WakeOnly, b2
    <3> HIDE DEF b2, b3, Low, Same
    <3> QED
      BY <1>6, <1>7, <3>1, <3>2
  <2>2. Low(b3) => (c.wrWaiter => b3.prodWoken)
    <3>1. c.wrWaiter => b2.wrWaiter \/ b2.prodWoken
      BY <1>6
    <3>2. b2.prodWoken => b3.prodWoken
      <4> HIDE DEF b2, b3
      <4> QED
        BY <1>6, WakeWriteWaitersOp DEF WakeOnly, b3
    <3> HIDE DEF b2, b3, Low, Same
    <3> QED
      BY <1>7, <3>1, <3>2
  <2> QED
    BY <1>7, <2>1, <2>2
<1> HIDE DEF b3
<1> DEFINE Told(x) ==
             /\ Same(x)
             /\ (x.wrFlush /\ m = 0) \/ Low(x) => (c.dspTask => x.appWoken)
             /\ Low(x) => (c.wrWaiter => x.prodWoken)
<1>9. ASSUME NEW x, NEW y, Told(x), WakeOnly(x, y) PROVE Told(y) /\ y.wrPaused = x.wrPaused
  <2>1. Same(y) /\ Low(x) = Low(y)
    BY <1>3, <1>9
  <2>2. /\ y.wrFlush = x.wrFlush /\ (x.appWoken => y.appWoken) /\ (x.prodWoken => y.prodWoken)
        /\ y.wrPaused = x.wrPaused
    BY <1>9 DEF WakeOnly
  <2> HIDE DEF Same, Low
  <2> QED
    BY <1>9, <2>1, <2>2
<1>10. Told(d) /\ (~IsAborted(c) => (d.wrPaused <=> m = 0))
  <2> DEFINE z == b3.wr = 0
             b4 == [b3 EXCEPT !.wrPaused = z]
             drained(x, phase) == x.wr = 0 /\ x.phase >= phase
             read(x) == IF drained(x, FiltersStopping) THEN WakeReadTask(x) ELSE x
             write(x) == IF drained(x, TransportShutdown) THEN WakeWriteTask(x) ELSE x
  <2>1. d = IF IsAborted(b3) THEN b3 ELSE write(read(b4))
    BY DEF WriteTaskStatus
  <2>2. IsAborted(b3) = IsAborted(c) /\ b3.wr = m /\ b3 \in ConnType
    BY <1>8 DEF IsAborted, IsClosed, IsTerminating
  <2>3. z \in BOOLEAN /\ (z <=> m = 0)
    BY <2>2
  <2> HIDE DEF z
  <2>4. b4 \in ConnType
    BY <2>2, <2>3 DEF ConnType
  <2>5. Told(b4) /\ b4.wrPaused = z
    <3>1. /\ b4.cfg = b3.cfg /\ b4.phase = b3.phase /\ b4.manner = b3.manner /\ b4.err = b3.err
          /\ b4.handle = b3.handle /\ b4.dropped = b3.dropped /\ b4.rdPaused = b3.rdPaused
          /\ b4.rdBp = b3.rdBp /\ b4.rdEof = b3.rdEof /\ b4.rdReady = b3.rdReady
          /\ b4.wrFlush = b3.wrFlush /\ b4.wrSend = b3.wrSend /\ b4.iops = b3.iops
          /\ b4.app = b3.app /\ b4.prod = b3.prod /\ b4.wr = b3.wr /\ b4.wrBp = b3.wrBp
          /\ b4.ioWoken = b3.ioWoken /\ b4.rdTask = b3.rdTask /\ b4.wrTask = b3.wrTask
          /\ b4.appWoken = b3.appWoken /\ b4.dspTask = b3.dspTask
          /\ b4.prodWoken = b3.prodWoken /\ b4.wrWaiter = b3.wrWaiter /\ b4.wrPaused = z
      BY <2>2 DEF ConnType
    <3> HIDE DEF b4
    <3> QED
      BY <1>8, <2>4, <3>1
  <2>6. ASSUME NEW x, Told(x) PROVE x \in ConnType /\ WakeOnly(x, x)
    BY <2>6 DEF WakeOnly
  <2>7. ASSUME NEW x \in ConnType PROVE
          /\ WakeOnly(x, WakeReadTask(x)) /\ WakeOnly(x, WakeWriteTask(x))
    BY WakeReadTaskOp, WakeWriteTaskOp
  <2> HIDE DEF b4, Told
  <2>8. Told(read(b4)) /\ read(b4).wrPaused = z
    <3>1. WakeOnly(b4, read(b4))
      BY <2>5, <2>6, <2>7
    <3> HIDE DEF read
    <3> QED
      BY <1>9, <2>5, <3>1
  <2> HIDE DEF read
  <2>9. Told(write(read(b4))) /\ write(read(b4)).wrPaused = z
    <3> DEFINE r == read(b4)
    <3> HIDE DEF r
    <3>1. Told(r) /\ r.wrPaused = z
      BY <2>8 DEF r
    <3>2. WakeOnly(r, write(r))
      BY <2>6, <2>7, <3>1
    <3> HIDE DEF write
    <3>3. Told(write(r)) /\ write(r).wrPaused = z
      BY <1>9, <3>1, <3>2
    <3> QED
      BY <3>3 DEF r
  <2>10. Told(b3)
    BY <1>8 DEF Told
  <2> HIDE DEF write, d
  <2> QED
    BY <2>1, <2>2, <2>3, <2>9, <2>10
<1>11. ASSUME NEW x, Told(x) PROVE Moves(c, x)
  <2>1. c.wr \in Nat /\ c.phase \in 0..3 /\ c.manner \in 0..2 /\ WrHalf(c) \in Nat
    BY ConnFields, Half
  <2>2. WrHalf(x) = WrHalf(c) /\ IsPeerGone(x) = IsPeerGone(c) /\ x.wr = m
    BY <1>11 DEF WrHalf, IsPeerGone, IsTerminating
  <2>3. AppInv(c) => AppInv(x)
    <3>1. CASE c.app = "read"
      BY <1>11, <2>2, <3>1 DEF AppInv
    <3>2. CASE c.app = "flush"
      BY <1>11, <2>1, <2>2, <3>2 DEF AppInv
    <3>3. CASE c.app = "fullflush"
      BY <1>11, <2>1, <2>2, <3>3 DEF AppInv
    <3>4. CASE c.app \notin {"read", "flush", "fullflush"}
      BY <1>11, <3>4 DEF AppInv
    <3> QED
      BY <3>1, <3>2, <3>3, <3>4
  <2>4. ProdInv(c) => ProdInv(x)
    BY <1>11, <2>1, <2>2 DEF ProdInv, WriteReady
  <2>5. (PhaseInv(c) => PhaseInv(x)) /\ (SendInv(c) => SendInv(x)) /\ Mild(c, x)
    BY <1>11 DEF PhaseInv, SendInv, Mild
  <2> QED
    BY <1>11, <2>1, <2>2, <2>3, <2>4, <2>5 DEF Moves
<1>12. Writes(c, d) /\ d.wr = m
  <2>1. /\ d.phase = c.phase /\ d.manner = c.manner /\ d.err = c.err /\ d.handle = c.handle
        /\ d.wr = m
    BY <1>10
  <2> HIDE DEF d, Told
  <2> QED
    BY <1>10, <1>11, <2>1 DEF Writes
<1> QED
  BY <1>1, <1>12 DEF c1

-----------------------------------------------------------------------------
(* What holds of the connection with its stream and its socket *)

\* Output that is given up has been reported: what is accepted is written or still
\* buffered, unless the connection is closed by force or has an error.
Ledger(a) ==
  /\ a.io.manner # ForceClosed /\ ~a.io.err => a.total.written + a.io.wr = a.total.accepted
  /\ (a.io.manner = Terminating /\ ~a.io.err) \/ a.io.dropped \/ a.io.phase = Stopped =>
       a.io.wr = 0
  /\ a.sock.closed = "shutdown" => a.io.manner # ForceClosed
  /\ a.sock.closed # "open" => a.io.phase = Stopped

DetachInv(a) == a.st.detached => IsAborted(a.io)

\* The interest that is armed is the one that the flags say.
Sync(s) == ~s.detached => s.evRd = s.rd /\ s.evWr = s.wr
StInv(s) == s.rdPaused => s.rd

HandleInv(c) == Live(c) => c.handle

\* A connection that may read does, or its task is about to run.
RdInv(a) ==
  /\ Live(a.io) /\ a.io.phase = Active /\ ~a.io.ioWoken /\ ~a.sock.err
  /\ ~a.io.rdPaused /\ ~a.io.rdBp /\ ~a.io.rdEof
  => a.st.rd /\ ~a.st.rdPaused

\* The same for the output.
WrInv(a) == Live(a.io) /\ ~a.io.wrPaused => a.io.ioWoken \/ a.st.wr

\* What the last write has left is noted.
Noted(c) == Live(c) => (c.wrPaused <=> c.wr = 0)

\* The connection goes from c to d: the part of Moves that the output depends on.
Goes(c, d) ==
  /\ d \in ConnType /\ d.dropped = c.dropped /\ d.wr <= c.wr
  /\ c.phase <= d.phase /\ (d.phase = Stopped => c.phase = Stopped) /\ c.manner <= d.manner
  /\ (c.err => d.err) /\ Mild(c, d)

\* The connection moves, and the output is accounted for.
Flow(a, b) ==
  /\ b \in AllType /\ Moves(a.io, b.io) /\ (Ledger(a) => Ledger(b))
  /\ b.sock.err = a.sock.err /\ b.sock.closed = a.sock.closed
  /\ b.st.detached = a.st.detached

LEMMA AllFields ==
  ASSUME NEW a \in AllType
  PROVE  /\ a.io \in ConnType /\ a.st \in StreamType /\ a.sock \in SockType
         /\ a.total \in TotalType
BY DEF AllType

LEMMA FlowSame == ASSUME NEW a \in AllType PROVE Flow(a, a)
BY AllFields, GrowsSame, GrowsMoves DEF Flow

LEMMA FlowTwice ==
  ASSUME NEW a \in AllType, NEW b, NEW e, Flow(a, b), Flow(b, e)
  PROVE  Flow(a, e)
BY AllFields, MovesTwice DEF Flow

LEMMA LedgerIo ==
  ASSUME NEW a \in AllType, NEW d, Goes(a.io, d), d.wr = a.io.wr, Ledger(a)
  PROVE  Ledger([a EXCEPT !.io = d])
<1>1. a.io \in ConnType /\ d \in ConnType
  BY AllFields DEF Goes
<1>2. /\ a.io.phase \in 0..3 /\ d.phase \in 0..3 /\ a.io.manner \in 0..2 /\ d.manner \in 0..2
      /\ a.io.wr \in Nat /\ d.wr \in Nat
  BY <1>1, ConnFields
<1> DEFINE b == [a EXCEPT !.io = d]
<1>3. b.io = d /\ b.sock = a.sock /\ b.total = a.total
  BY DEF AllType
<1> HIDE DEF b
<1>4. Ledger(b)
  BY <1>2, <1>3 DEF Ledger, Goes, Mild
<1> QED
  BY <1>4 DEF b

LEMMA FlowIo ==
  ASSUME NEW a \in AllType, NEW d, Moves(a.io, d), d.wr = a.io.wr
  PROVE  Flow(a, [a EXCEPT !.io = d])
<1> DEFINE b == [a EXCEPT !.io = d]
<1>1. d \in ConnType /\ Goes(a.io, d)
  BY DEF Moves, Goes
<1>2. Ledger(a) => Ledger(b)
  BY <1>1, LedgerIo
<1>3. b.io = d /\ b.sock = a.sock /\ b.st = a.st /\ b \in AllType
  BY <1>1 DEF AllType
<1> HIDE DEF b
<1>4. Flow(a, b)
  BY <1>2, <1>3 DEF Flow
<1> QED
  BY <1>4 DEF b

\* read() of the stream
LEMMA StreamReadOp ==
  ASSUME NEW a \in AllType
  PROVE  /\ Flow(a, StreamRead(a)) /\ Grows(a.io, StreamRead(a).io)
         /\ StreamRead(a).st = a.st
         /\ LET c == StreamRead(a).io
            IN Live(c) /\ c.phase = Active /\ StatusOfRead(a) # "Io" =>
                 c.rdPaused \/ c.rdBp \/ c.rdEof
<1> DEFINE n == ReadSize(a)
           b == StreamRead(a)
<1>1. a.io \in ConnType /\ a.sock.in \in Nat /\ a.sock \in SockType
  BY AllFields DEF SockType
<1>2. n \in Nat /\ n <= a.sock.in
  BY <1>1 DEF ReadSize, Smaller
<1>3. /\ Flow(a, b) /\ Grows(a.io, b.io) /\ b.st = a.st
      /\ a.sock.err /\ a.io.phase = Active => IsAborted(b.io)
  <2>1. CASE a.sock.err
    <3>1. b = [a EXCEPT !.io = ReadFailed(a.io)]
      BY <2>1 DEF StreamRead
    <3>2. Grows(a.io, ReadFailed(a.io)) /\ (a.io.phase = Active => IsAborted(ReadFailed(a.io)))
      BY <1>1, ReadFailedOp
    <3> DEFINE d == ReadFailed(a.io)
    <3> HIDE DEF d, b
    <3>3. b = [a EXCEPT !.io = d] /\ Grows(a.io, d) /\ (a.io.phase = Active => IsAborted(d))
      BY <3>1, <3>2 DEF d
    <3>4. Moves(a.io, d) /\ d.wr = a.io.wr
      BY <1>1, <3>3, GrowsMoves DEF Grows, Advances
    <3>5. b.io = d /\ b.st = a.st
      BY <3>3 DEF AllType
    <3> QED
      BY <3>3, <3>4, <3>5, FlowIo
  <2>2. CASE ~a.sock.err /\ (n > 0 \/ a.sock.fin)
    <3> DEFINE d == ReadBytes(a.io, n)
               m == a.sock.in - n
    <3>1. b = [a EXCEPT !.io = d, !.sock.in = m]
      BY <2>2 DEF StreamRead
    <3>2. Grows(a.io, d) /\ m \in Nat
      BY <1>1, <1>2, ReadBytesOp
    <3> HIDE DEF d, m, b
    <3>3. Moves(a.io, d) /\ d.wr = a.io.wr
      BY <1>1, <3>2, GrowsMoves DEF Grows, Advances
    <3> DEFINE e == [a EXCEPT !.io = d]
    <3>4. Flow(a, e) /\ e \in AllType /\ e.io = d /\ e.st = a.st /\ e.sock = a.sock /\ e.total = a.total
      BY <3>3, FlowIo DEF Flow, AllType
    <3>5. /\ b.io = d /\ b.st = a.st /\ b.total = a.total /\ b.sock = [a.sock EXCEPT !.in = m]
          /\ b = [io |-> d, st |-> a.st, sock |-> b.sock, total |-> a.total]
      BY <3>1 DEF AllType
    <3>6. b.sock.err = a.sock.err /\ b.sock.closed = a.sock.closed /\ b.sock \in SockType
      BY <1>1, <3>2, <3>5 DEF SockType
    <3>7. b \in AllType
      BY <3>3, <3>5, <3>6, AllFields DEF AllType, Moves
    <3> HIDE DEF e
    <3>8. Ledger(e) => Ledger(b)
      BY <3>4, <3>5, <3>6 DEF Ledger
    <3>9. Flow(a, b)
      BY <3>3, <3>4, <3>5, <3>6, <3>7, <3>8 DEF Flow
    <3> QED
      BY <2>2, <3>2, <3>5, <3>9
  <2>3. CASE ~a.sock.err /\ ~(n > 0 \/ a.sock.fin)
    <3>1. b = a
      BY <2>3 DEF StreamRead
    <3> QED
      BY <1>1, <2>3, <3>1, FlowSame, GrowsSame
  <2> QED
    BY <2>1, <2>2, <2>3
<1>4. ASSUME Live(b.io), b.io.phase = Active, StatusOfRead(a) # "Io"
      PROVE  b.io.rdPaused \/ b.io.rdBp \/ b.io.rdEof
  <2>1. StatusOfRead(a) = ReadStatus(a.io, b.io, n, a.sock.err)
    BY DEF StatusOfRead
  <2>2. a.io.phase \in 0..3 /\ a.io.phase <= b.io.phase
    BY <1>1, <1>3, ConnFields DEF Grows, Advances
  <2>3. a.io.phase = Active /\ ~IsAborted(b.io)
    BY <1>4, <2>2 DEF Live
  <2>4. ~a.sock.err
    BY <1>3, <2>3
  <2> HIDE DEF b, n
  <2> QED
    BY <1>4, <2>1, <2>3, <2>4 DEF ReadStatus
<1> QED
  BY <1>3, <1>4

\* write() of the stream: it notes what it leaves, or the connection is aborted.
LEMMA StreamWriteOp ==
  ASSUME NEW a \in AllType
  PROVE  /\ Flow(a, StreamWrite(a)) /\ StreamWrite(a).st = a.st
         /\ Noted(StreamWrite(a).io)
         /\ HandleInv(a.io) => HandleInv(StreamWrite(a).io)
<1> DEFINE n == Smaller(Smaller(a.io.wr, a.sock.space), Budget)
           b == StreamWrite(a)
<1>1. /\ a.io \in ConnType /\ a.io.wr \in Nat /\ a.sock.space \in Nat /\ a.sock \in SockType
      /\ a.total \in TotalType /\ a.total.written \in Nat
  BY AllFields, ConnFields DEF SockType, TotalType
<1>2. n \in Nat /\ n <= a.io.wr /\ n <= a.sock.space
  BY <1>1 DEF Smaller
<1>3. CASE a.sock.err
  <2> DEFINE d == TerminateConnection(a.io, TRUE)
  <2>1. b = [a EXCEPT !.io = d]
    BY <1>3 DEF StreamWrite
  <2>2. Grows(a.io, d) /\ IsAborted(d)
    BY <1>1, TerminateOp
  <2> HIDE DEF d, b
  <2>3. Moves(a.io, d) /\ d.wr = a.io.wr
    BY <1>1, <2>2, GrowsMoves DEF Grows, Advances
  <2>4. b.io = d /\ b.st = a.st
    BY <2>1 DEF AllType
  <2>5. Flow(a, b)
    BY <2>1, <2>3, FlowIo
  <2> QED
    BY <2>2, <2>4, <2>5 DEF Noted, HandleInv, Live, b
<1>4. CASE ~a.sock.err
  <2> DEFINE m == a.io.wr - n
             d == UpdateWriteStatus([a.io EXCEPT !.wr = m])
             sp == a.sock.space - n
             w == a.total.written + n
  <2>1. b = [a EXCEPT !.io = d, !.sock.space = sp, !.total.written = w]
    BY <1>4 DEF StreamWrite
  <2>2. m \in Nat /\ m <= a.io.wr /\ sp \in Nat /\ w \in Nat /\ w + m = a.total.written + a.io.wr
    BY <1>1, <1>2
  <2> HIDE DEF m, sp, w, n
  <2>3. Writes(a.io, d) /\ d.wr = m
    BY <1>1, <2>2, UpdateWriteStatusOp
  <2> HIDE DEF d, b
  <2>4. d \in ConnType
    BY <2>3 DEF Writes, Moves
  <2>5. /\ b.io = d /\ b.st = a.st /\ b.sock = [a.sock EXCEPT !.space = sp]
        /\ b.total = [a.total EXCEPT !.written = w]
        /\ b = [io |-> d, st |-> a.st, sock |-> b.sock, total |-> b.total]
    BY <2>1 DEF AllType
  <2>6. b.sock.err = a.sock.err /\ b.sock.closed = a.sock.closed /\ b.sock \in SockType
    BY <1>1, <2>2, <2>5 DEF SockType
  <2>7. b.total.written = w /\ b.total.accepted = a.total.accepted /\ b.total \in TotalType
    BY <1>1, <2>2, <2>5 DEF TotalType
  <2>8. b \in AllType
    BY <2>4, <2>5, <2>6, <2>7, AllFields DEF AllType
  <2>9. /\ d.phase = a.io.phase /\ d.manner = a.io.manner /\ d.err = a.io.err
        /\ d.handle = a.io.handle /\ d.dropped = a.io.dropped /\ d.wr <= a.io.wr /\ d.wr \in Nat
    BY <2>2, <2>3 DEF Writes, Moves
  <2>10. Ledger(a) => Ledger(b)
    <3>1. a.io.wr = 0 => d.wr = 0
      BY <1>1, <2>9
    <3> QED
      BY <2>2, <2>3, <2>5, <2>6, <2>7, <2>9, <3>1 DEF Ledger
  <2>11. Flow(a, b)
    BY <2>3, <2>5, <2>6, <2>8, <2>10 DEF Flow, Writes
  <2>12. IsAborted(d) = IsAborted(a.io)
    BY <2>9 DEF IsAborted, IsClosed, IsTerminating
  <2> QED
    BY <2>3, <2>5, <2>9, <2>11, <2>12 DEF Noted, HandleInv, Live, Writes, b
<1> QED
  BY <1>3, <1>4

LEMMA NotedPaused ==
  ASSUME NEW c \in ConnType, Noted(c)
  PROVE  PausedInv(c)
BY ConnFields DEF Noted, PausedInv

\* A flag of the stream is set, and its interest armed.
LEMMA FlowSt ==
  ASSUME NEW a \in AllType, NEW s \in StreamType, s.detached = a.st.detached
  PROVE  Flow(a, [a EXCEPT !.st = s]) /\ [a EXCEPT !.st = s].io = a.io
<1> DEFINE b == [a EXCEPT !.st = s]
<1>1. b \in AllType /\ b.io = a.io /\ b.sock = a.sock /\ b.total = a.total /\ b.st = s
  BY DEF AllType
<1>2. Moves(a.io, a.io)
  BY AllFields, GrowsSame, GrowsMoves
<1> HIDE DEF b
<1>3. Flow(a, b)
  BY <1>1, <1>2 DEF Flow, Ledger
<1> QED
  BY <1>1, <1>3 DEF b

LEMMA ModifyOp ==
  ASSUME NEW s \in StreamType, NEW rd \in BOOLEAN, NEW wr \in BOOLEAN
  PROVE  /\ Modify(s, rd, wr) \in StreamType
         /\ Modify(s, rd, wr).detached = s.detached /\ Modify(s, rd, wr).rd = s.rd
         /\ Modify(s, rd, wr).rdPaused = s.rdPaused /\ Modify(s, rd, wr).wr = s.wr
         /\ ~s.detached => Modify(s, rd, wr).evRd = rd /\ Modify(s, rd, wr).evWr = wr
<1> DEFINE t == [s EXCEPT !.evRd = rd, !.evWr = wr]
<1>1. t \in StreamType
  BY Zenon DEF StreamType
<1>2. /\ t.detached = s.detached /\ t.rd = s.rd /\ t.rdPaused = s.rdPaused /\ t.wr = s.wr
      /\ t.evRd = rd /\ t.evWr = wr
  BY DEF StreamType
<1> HIDE DEF t
<1>3. Modify(s, rd, wr) = IF s.detached THEN s ELSE t
  BY DEF Modify, t
<1> QED
  BY <1>1, <1>2, <1>3

\* write_item(): what is left has its interest armed.
LEMMA WriteItemOp ==
  ASSUME NEW a \in AllType
  PROVE  /\ Flow(a, WriteItem(a)) /\ Noted(WriteItem(a).io)
         /\ WriteItem(a).st.rd = a.st.rd /\ WriteItem(a).st.rdPaused = a.st.rdPaused
         /\ Sync(a.st) => Sync(WriteItem(a).st)
         /\ Live(WriteItem(a).io) /\ ~WriteItem(a).io.wrPaused => WriteItem(a).st.wr
<1> DEFINE b == StreamWrite(a)
           s == [b.st EXCEPT !.wr = TRUE]
           t == Modify(s, b.st.rd, TRUE)
           e == [b EXCEPT !.st = t]
           io_ == WriteStatus(b.io) = "Io" /\ ~b.st.wr
<1>1. Flow(a, b) /\ b.st = a.st /\ Noted(b.io) /\ b \in AllType
  BY StreamWriteOp DEF Flow
<1>2. WriteItem(a) = IF io_ THEN e ELSE b
  BY DEF WriteItem
<1> HIDE DEF b
<1>3. b.st \in StreamType /\ b.st.rd \in BOOLEAN /\ b.io \in ConnType
  BY <1>1, AllFields DEF StreamType
<1>4. s \in StreamType /\ s.rd = b.st.rd /\ s.rdPaused = b.st.rdPaused /\ s.wr = TRUE
      /\ s.detached = b.st.detached
  BY <1>3 DEF StreamType
<1> HIDE DEF s
<1>5. /\ t \in StreamType /\ t.detached = b.st.detached /\ t.rd = b.st.rd /\ t.wr = TRUE
      /\ t.rdPaused = b.st.rdPaused /\ (~s.detached => t.evRd = b.st.rd /\ t.evWr = TRUE)
  BY <1>3, <1>4, ModifyOp
<1> HIDE DEF t
<1>6. Flow(b, e) /\ e.io = b.io /\ e.st = t
  BY <1>1, <1>5, FlowSt DEF AllType
<1> HIDE DEF e
<1>7. Live(b.io) /\ ~b.io.wrPaused => WriteStatus(b.io) = "Io"
  BY <1>1 DEF Noted, Live, WriteStatus
<1>8. Flow(a, e) /\ Sync(t)
  BY <1>1, <1>4, <1>5, <1>6, FlowTwice DEF Sync
<1>9. CASE io_
  BY <1>1, <1>2, <1>5, <1>6, <1>8, <1>9
<1>10. CASE ~io_
  BY <1>1, <1>2, <1>7, <1>10
<1> QED
  BY <1>9, <1>10

\* The flags of the handle and of a write in progress are nobody else's concern.
LEMMA FlagsOp ==
  ASSUME NEW c \in ConnType, NEW h \in BOOLEAN, NEW p \in BOOLEAN
  PROVE  LET d == [c EXCEPT !.handle = h, !.wrPaused = p]
         IN Moves(c, d) /\ d.wr = c.wr /\ d.handle = h /\ d.wrPaused = p
<1> DEFINE d == [c EXCEPT !.handle = h, !.wrPaused = p]
<1>1. d \in ConnType
  BY Zenon DEF ConnType
<1>2. d.wr = c.wr /\ d.handle = h /\ d.wrPaused = p
  BY DEF ConnType
<1>3. Moves(c, d)
  BY <1>1, ConnFields DEF ConnType, Moves, Mild, IsPeerGone, IsTerminating, SendInv, AppInv,
     ProdInv,
     PhaseInv, WriteReady, WrHalf
<1> QED
  BY <1>2, <1>3

\* call_write(): the handle is back unless the connection is aborted.
LEMMA CallWriteOp ==
  ASSUME NEW a \in AllType, HandleInv(a.io)
  PROVE  /\ Flow(a, CallWrite(a)) /\ Noted(CallWrite(a).io) /\ HandleInv(CallWrite(a).io)
         /\ CallWrite(a).st.rd = a.st.rd /\ CallWrite(a).st.rdPaused = a.st.rdPaused
         /\ Sync(a.st) => Sync(CallWrite(a).st)
         /\ Live(CallWrite(a).io) /\ ~CallWrite(a).io.wrPaused => CallWrite(a).st.wr
<1>1. CASE ~a.io.handle
  <2>1. CallWrite(a) = a /\ ~Live(a.io)
    BY <1>1 DEF CallWrite, HandleInv
  <2> QED
    BY <2>1, FlowSame DEF Noted
<1>2. CASE a.io.handle
  <2> DEFINE c == [a.io EXCEPT !.handle = FALSE, !.wrPaused = FALSE]
             a1 == [a EXCEPT !.io = c]
             b == WriteItem(a1)
             h == ~IsAborted(b.io)
             d == [b.io EXCEPT !.handle = h]
             e == [b EXCEPT !.io = d]
  <2>1. CallWrite(a) = e
    BY <1>2 DEF CallWrite
  <2>2. a.io \in ConnType /\ Moves(a.io, c) /\ c.wr = a.io.wr
    BY AllFields, FlagsOp
  <2>3. Flow(a, a1) /\ a1 \in AllType /\ a1.st = a.st
    <3> HIDE DEF c
    <3> QED
      BY <2>2, FlowIo DEF Flow, AllType
  <2> HIDE DEF a1
  <2>4. /\ Flow(a1, b) /\ Noted(b.io) /\ b.st.rd = a1.st.rd /\ b.st.rdPaused = a1.st.rdPaused
        /\ Sync(a1.st) => Sync(b.st)
        /\ Live(b.io) /\ ~b.io.wrPaused => b.st.wr
    BY <2>3, WriteItemOp
  <2>5. b \in AllType /\ b.io \in ConnType
    BY <2>4, AllFields DEF Flow
  <2> HIDE DEF b
  <2>6. h \in BOOLEAN
    OBVIOUS
  <2>7. /\ Moves(b.io, d) /\ d.wr = b.io.wr /\ d.wrPaused = b.io.wrPaused /\ d.handle = h
        /\ Live(d) = Live(b.io)
    <3> HIDE DEF h
    <3>1. d \in ConnType
      BY <2>5, <2>6 DEF ConnType
    <3>2. d.wr = b.io.wr /\ d.wrPaused = b.io.wrPaused /\ d.handle = h /\ Live(d) = Live(b.io)
      BY <2>5 DEF ConnType, Live, IsAborted, IsClosed, IsTerminating
    <3>3. Moves(b.io, d)
      BY <2>5, <3>1, ConnFields DEF ConnType, Moves, Mild, IsPeerGone, IsTerminating, SendInv,
         AppInv,
         ProdInv, PhaseInv, WriteReady, WrHalf
    <3> QED
      BY <3>2, <3>3
  <2>8. HandleInv(d)
    BY <2>7 DEF HandleInv, Live
  <2> HIDE DEF d
  <2>9. Flow(b, e) /\ e.io = d /\ e.st = b.st
    BY <2>5, <2>7, FlowIo DEF AllType
  <2> HIDE DEF e
  <2>10. Flow(a, e)
    BY <2>3, <2>4, <2>9, FlowTwice
  <2>11. Noted(d) /\ (Live(d) /\ ~d.wrPaused => b.st.wr)
    BY <2>4, <2>7 DEF Noted
  <2> QED
    BY <2>1, <2>3, <2>4, <2>8, <2>9, <2>10, <2>11
<1> QED
  BY <1>1, <1>2

LEMMA FlowLive ==
  ASSUME NEW a \in AllType, NEW b, Flow(a, b)
  PROVE  /\ b.io \in ConnType /\ a.io \in ConnType
         /\ Live(b.io) => Live(a.io)
         /\ DetachInv(a) => DetachInv(b)
         /\ RdReg(a.io) => RdReg(b.io)
         /\ WrReg(a.io) => WrReg(b.io)
         /\ b.st.rd = a.st.rd /\ b.st.rdPaused = a.st.rdPaused /\ RdInv(a) => RdInv(b)
BY AllFields, MovesLive DEF Flow, Moves, DetachInv, RdInv

\* A change that writes nothing keeps the notes about the output.
LEMMA GrowsKeeps ==
  ASSUME NEW c \in ConnType, NEW d, Grows(c, d)
  PROVE  /\ PausedInv(c) => PausedInv(d)
         /\ HandleInv(c) => HandleInv(d)
         /\ Live(d) => Live(c)
         /\ d \in ConnType /\ Moves(c, d) /\ d.wr = c.wr /\ d.wrPaused = c.wrPaused
<1>1. Moves(c, d)
  BY GrowsMoves
<1>2. Live(d) => Live(c)
  BY <1>1, MovesLive
<1> QED
  BY <1>1, <1>2 DEF Grows, Advances, PausedInv, HandleInv

LEMMA GrowsIo ==
  ASSUME NEW a \in AllType, NEW d, Grows(a.io, d)
  PROVE  LET b == [a EXCEPT !.io = d]
         IN /\ Flow(a, b) /\ b.io = d /\ b.st = a.st /\ b \in AllType
            /\ PausedInv(a.io) => PausedInv(d)
            /\ HandleInv(a.io) => HandleInv(d)
            /\ WrInv(a) => WrInv(b)
<1> DEFINE b == [a EXCEPT !.io = d]
<1>1. a.io \in ConnType
  BY AllFields
<1>2. Moves(a.io, d) /\ d.wr = a.io.wr
  BY <1>1, GrowsKeeps
<1>3. Flow(a, b) /\ b.io = d /\ b.st = a.st /\ b \in AllType
  BY <1>2, FlowIo DEF Flow, AllType
<1> HIDE DEF b
<1>4. WrInv(a) => WrInv(b)
  BY <1>1, <1>3, GrowsKeeps DEF WrInv, Moves
<1> QED
  BY <1>1, <1>3, <1>4, GrowsKeeps DEF b

\* What a function keeps that may write.
Keeps(a, b) ==
  /\ Flow(a, b) /\ HandleInv(b.io) /\ PausedInv(b.io)
  /\ b.st.rd = a.st.rd /\ b.st.rdPaused = a.st.rdPaused
  /\ Sync(a.st) => Sync(b.st)
  /\ WrInv(a) => WrInv(b)

LEMMA KeepsGrows ==
  ASSUME NEW a \in AllType, NEW b, Keeps(a, b), NEW d, Grows(b.io, d)
  PROVE  Keeps(a, [b EXCEPT !.io = d]) /\ [b EXCEPT !.io = d].io = d
<1> DEFINE e == [b EXCEPT !.io = d]
<1>1. b \in AllType
  BY DEF Keeps, Flow
<1>2. /\ Flow(b, e) /\ e.io = d /\ e.st = b.st
      /\ PausedInv(b.io) => PausedInv(d)
      /\ HandleInv(b.io) => HandleInv(d)
      /\ WrInv(b) => WrInv(e)
  BY <1>1, GrowsIo
<1> HIDE DEF e
<1>3. Keeps(a, e)
  BY <1>2, FlowTwice DEF Keeps
<1> QED
  BY <1>2, <1>3 DEF e

\* consolidate_write_state(): output is being written or scheduled afterwards.
LEMMA ConsolidateOp ==
  ASSUME NEW a \in AllType, NEW force, HandleInv(a.io)
  PROVE  Keeps(a, Consolidate(a, force))
<1> DEFINE direct == a.io.cfg.wrThreshold > 0 /\ (force \/ a.io.wr >= a.io.cfg.wrThreshold)
           b == CallWrite(a)
           unsent == [b EXCEPT !.io.wrSend = FALSE]
           sched == [b EXCEPT !.io = ScheduleWrite(b.io)]
           w == IF a.io.wr = 0 \/ ~a.io.wrPaused THEN a
                ELSE IF ~direct THEN [a EXCEPT !.io = ScheduleWrite(a.io)]
                ELSE IF b.io.wrPaused THEN unsent ELSE sched
           checked(c) == IF ConsolidateFails(c) THEN c ELSE EnableWrBackpressure(c)
<1>1. Consolidate(a, force) = [w EXCEPT !.io = checked(w.io)]
  BY DEF Consolidate
<1>2. a.io \in ConnType /\ a.io.wr \in Nat
  BY AllFields, ConnFields
<1>3. /\ Flow(a, b) /\ Noted(b.io) /\ HandleInv(b.io)
      /\ b.st.rd = a.st.rd /\ b.st.rdPaused = a.st.rdPaused
      /\ Sync(a.st) => Sync(b.st)
      /\ Live(b.io) /\ ~b.io.wrPaused => b.st.wr
  BY CallWriteOp
<1> HIDE DEF b
<1>4. b \in AllType /\ b.io \in ConnType
  BY <1>3, AllFields DEF Flow
<1>5. ASSUME a.io.wr = 0 \/ ~a.io.wrPaused PROVE Keeps(a, w)
  <2>1. w = a /\ PausedInv(a.io)
    BY <1>5 DEF PausedInv
  <2> QED
    BY <2>1, FlowSame DEF Keeps
<1>6. ASSUME ~(a.io.wr = 0 \/ ~a.io.wrPaused) /\ ~direct PROVE Keeps(a, w)
  <2> DEFINE d == ScheduleWrite(a.io)
             e == [a EXCEPT !.io = d]
  <2>1. Grows(a.io, d) /\ d.wrSend
    BY <1>2, ScheduleWriteOp
  <2>2. w = e
    BY <1>6
  <2> HIDE DEF w, d
  <2>3. /\ Flow(a, e) /\ e.io = d /\ e.st = a.st /\ HandleInv(d) /\ (WrInv(a) => WrInv(e))
        /\ e \in AllType
    BY <2>1, GrowsIo
  <2> HIDE DEF e
  <2>4. Keeps(a, e)
    BY <2>1, <2>3 DEF Keeps, PausedInv
  <2> QED
    BY <2>2, <2>4
<1>7. ASSUME ~(a.io.wr = 0 \/ ~a.io.wrPaused) /\ direct PROVE Keeps(a, w)
  <2>1. CASE ~b.io.wrPaused
    <3> DEFINE d == ScheduleWrite(b.io)
    <3>1. Grows(b.io, d) /\ d.wrSend
      BY <1>4, ScheduleWriteOp
    <3>2. w = sched
      BY <1>7, <2>1
    <3>3. Keeps(a, b)
      BY <1>3, <1>4, NotedPaused DEF Keeps, WrInv
    <3>4. Keeps(a, sched) /\ sched.io = d
      BY <3>1, <3>3, KeepsGrows
    <3> QED
      BY <3>2, <3>4
  <2>2. CASE b.io.wrPaused
    <3> DEFINE d == [b.io EXCEPT !.wrSend = FALSE]
               e == [b EXCEPT !.io = d]
    <3>1. w = e
      BY <1>7, <2>2
    <3>2. d \in ConnType
      BY <1>4 DEF ConnType
    <3>3. /\ Moves(b.io, d) /\ d.wr = b.io.wr /\ d.wrPaused = b.io.wrPaused
          /\ d.handle = b.io.handle /\ Live(d) = Live(b.io) /\ d.ioWoken = b.io.ioWoken
      BY <1>4, <3>2, ConnFields DEF ConnType, Moves, Mild, Live, IsAborted, IsClosed, IsPeerGone,
         IsTerminating, SendInv, AppInv, ProdInv, PhaseInv, WriteReady, WrHalf
    <3> HIDE DEF w, d
    <3>4. Flow(b, e) /\ e.io = d /\ e.st = b.st
      BY <1>4, <3>3, FlowIo DEF AllType
    <3> HIDE DEF e
    <3>5. Noted(d)
      BY <1>3, <3>3 DEF Noted
    <3>6. Keeps(a, e)
      BY <1>3, <2>2, <3>2, <3>3, <3>4, <3>5, FlowTwice, NotedPaused DEF Keeps, WrInv, HandleInv
    <3> QED
      BY <3>1, <3>6
  <2> QED
    BY <2>1, <2>2
<1>8. Keeps(a, w)
  BY <1>5, <1>6, <1>7
<1> HIDE DEF w
<1>9. w.io \in ConnType
  BY <1>8, AllFields DEF Keeps, Flow
<1>10. Grows(w.io, checked(w.io))
  BY <1>9, EnableWrBackpressureOp, GrowsSame
<1> HIDE DEF checked
<1> QED
  BY <1>1, <1>8, <1>10, KeepsGrows

-----------------------------------------------------------------------------
(* The transport task *)

\* The read half of interest(): a stream that is to read does so, or has found a
\* reason not to.
LEMMA InterestRdOp ==
  ASSUME NEW a \in AllType, StInv(a.st), NEW rd \in BOOLEAN
  PROVE  LET b == InterestRd(a, rd)
         IN /\ Flow(a, b) /\ Grows(a.io, b.io) /\ StInv(b.st)
            /\ b.st.wr = a.st.wr /\ b.st.evRd = a.st.evRd /\ b.st.evWr = a.st.evWr
            /\ rd => RdInv(b)
<1> DEFINE b == InterestRd(a, rd)
<1>1. a.io \in ConnType /\ a.st \in StreamType /\ Grows(a.io, a.io)
  BY AllFields, GrowsSame
<1>2. CASE a.st.rd
  <2> DEFINE x == ~rd
             s == [a.st EXCEPT !.rdPaused = x]
             e == [a EXCEPT !.st = s]
  <2>1. b = e
    BY <1>2 DEF InterestRd
  <2>2. x \in BOOLEAN
    OBVIOUS
  <2>3. /\ s \in StreamType /\ s.detached = a.st.detached /\ s.rd = a.st.rd /\ s.rdPaused = x
        /\ s.wr = a.st.wr /\ s.evRd = a.st.evRd /\ s.evWr = a.st.evWr
    <3> HIDE DEF x
    <3> QED
      BY <1>1, <2>2 DEF StreamType
  <2> HIDE DEF s
  <2>4. Flow(a, e) /\ e.io = a.io /\ e.st = s
    BY <2>3, FlowSt DEF AllType
  <2> HIDE DEF e
  <2> QED
    BY <1>1, <1>2, <2>1, <2>3, <2>4 DEF StInv, RdInv
<1>3. CASE ~a.st.rd /\ rd
  <2> DEFINE r == StreamRead(a)
             x == StatusOfRead(a) = "Io"
             s == [r.st EXCEPT !.rd = x]
             e == [r EXCEPT !.st = s]
  <2>1. b = e
    BY <1>3 DEF InterestRd
  <2>2. x \in BOOLEAN
    OBVIOUS
  <2>3. /\ Flow(a, r) /\ Grows(a.io, r.io) /\ r.st = a.st
        /\ Live(r.io) /\ r.io.phase = Active /\ ~x => r.io.rdPaused \/ r.io.rdBp \/ r.io.rdEof
    BY StreamReadOp
  <2> HIDE DEF r, x
  <2>4. r \in AllType
    BY <2>3 DEF Flow
  <2>5. /\ s \in StreamType /\ s.detached = a.st.detached /\ s.rd = x /\ s.rdPaused = a.st.rdPaused
        /\ s.wr = a.st.wr /\ s.evRd = a.st.evRd /\ s.evWr = a.st.evWr
    BY <1>1, <2>2, <2>3 DEF StreamType
  <2> HIDE DEF s
  <2>6. Flow(r, e) /\ e.io = r.io /\ e.st = s
    BY <2>3, <2>4, <2>5, FlowSt DEF AllType
  <2> HIDE DEF e
  <2>7. ~a.st.rdPaused
    BY <1>3 DEF StInv
  <2>8. Flow(a, e)
    BY <2>3, <2>6, FlowTwice
  <2>9. StInv(s) /\ RdInv(e)
    BY <2>3, <2>5, <2>6, <2>7 DEF StInv, RdInv
  <2> QED
    BY <2>1, <2>3, <2>5, <2>6, <2>8, <2>9
<1>4. CASE ~a.st.rd /\ ~rd
  <2>1. b = a
    BY <1>4 DEF InterestRd
  <2> QED
    BY <1>1, <1>4, <2>1, FlowSame
<1> QED
  BY <1>2, <1>3, <1>4

LEMMA InterestWrOp ==
  ASSUME NEW a \in AllType, NEW wr \in BOOLEAN
  PROVE  LET b == InterestWr(a, wr)
         IN /\ Flow(a, b)
            /\ b.st.rd = a.st.rd /\ b.st.rdPaused = a.st.rdPaused
            /\ b.st.evRd = a.st.evRd /\ b.st.evWr = a.st.evWr
            /\ HandleInv(a.io) => HandleInv(b.io)
            /\ PausedInv(a.io) => PausedInv(b.io)
            /\ wr \/ a.io.wrPaused => WrInv(b)
<1> DEFINE b == InterestWr(a, wr)
<1>1. a.io \in ConnType /\ a.st \in StreamType
  BY AllFields
<1>2. CASE ~wr
  <2> DEFINE s == [a.st EXCEPT !.wr = FALSE]
             e == [a EXCEPT !.st = s]
  <2>1. b = e
    BY <1>2 DEF InterestWr
  <2>2. /\ s \in StreamType /\ s.detached = a.st.detached /\ s.rd = a.st.rd
        /\ s.rdPaused = a.st.rdPaused /\ s.evRd = a.st.evRd /\ s.evWr = a.st.evWr
    BY <1>1 DEF StreamType
  <2> HIDE DEF s
  <2>3. Flow(a, e) /\ e.io = a.io /\ e.st = s
    BY <2>2, FlowSt DEF AllType
  <2> HIDE DEF e
  <2> QED
    BY <1>2, <2>1, <2>2, <2>3 DEF WrInv
<1>3. CASE wr /\ a.st.wr
  <2>1. b = a
    BY <1>3 DEF InterestWr
  <2> QED
    BY <1>3, <2>1, FlowSame DEF WrInv
<1>4. CASE wr /\ ~a.st.wr
  <2> DEFINE r == StreamWrite(a)
             x == WriteStatus(r.io) = "Io"
             s == [r.st EXCEPT !.wr = x]
             e == [r EXCEPT !.st = s]
  <2>1. b = e
    BY <1>4 DEF InterestWr
  <2>2. x \in BOOLEAN
    OBVIOUS
  <2>3. Flow(a, r) /\ r.st = a.st /\ Noted(r.io) /\ (HandleInv(a.io) => HandleInv(r.io))
    BY StreamWriteOp
  <2> HIDE DEF r
  <2>4. Live(r.io) /\ ~r.io.wrPaused => x
    BY <2>3 DEF Noted, Live, WriteStatus
  <2> HIDE DEF x
  <2>5. r \in AllType /\ r.io \in ConnType
    BY <2>3, AllFields DEF Flow
  <2>6. /\ s \in StreamType /\ s.detached = a.st.detached /\ s.rd = a.st.rd /\ s.wr = x
        /\ s.rdPaused = a.st.rdPaused /\ s.evRd = a.st.evRd /\ s.evWr = a.st.evWr
    BY <1>1, <2>2, <2>3 DEF StreamType
  <2> HIDE DEF s
  <2>7. Flow(r, e) /\ e.io = r.io /\ e.st = s
    BY <2>3, <2>5, <2>6, FlowSt DEF AllType
  <2> HIDE DEF e
  <2>8. Flow(a, e) /\ WrInv(e) /\ PausedInv(e.io)
    BY <2>3, <2>4, <2>5, <2>6, <2>7, FlowTwice, NotedPaused DEF WrInv
  <2> QED
    BY <2>1, <2>3, <2>6, <2>7, <2>8
<1> QED
  BY <1>2, <1>3, <1>4

\* Interest is armed as the flags say.
LEMMA RearmedOp ==
  ASSUME NEW s \in StreamType
  PROVE  LET t == Modify(s, s.rd, s.wr)
         IN /\ t \in StreamType /\ t.detached = s.detached /\ t.rd = s.rd
            /\ t.rdPaused = s.rdPaused /\ t.wr = s.wr
            /\ ~s.detached => t.evRd = s.rd /\ t.evWr = s.wr
<1> DEFINE x == s.rd
           y == s.wr
<1>1. x \in BOOLEAN /\ y \in BOOLEAN
  BY DEF StreamType
<1> HIDE DEF x, y
<1>2. LET t == Modify(s, x, y)
      IN /\ t \in StreamType /\ t.detached = s.detached /\ t.rd = s.rd
         /\ t.rdPaused = s.rdPaused /\ t.wr = s.wr
         /\ ~s.detached => t.evRd = x /\ t.evWr = y
  BY <1>1, ModifyOp, ZenonT(60)
<1> QED
  BY <1>2, Zenon DEF x, y

LEMMA InterestOp ==
  ASSUME NEW a \in AllType, StInv(a.st), Sync(a.st), HandleInv(a.io), PausedInv(a.io),
         NEW rd \in BOOLEAN, NEW wr \in BOOLEAN
  PROVE  LET b == Interest(a, rd, wr)
         IN /\ Flow(a, b) /\ StInv(b.st) /\ Sync(b.st) /\ HandleInv(b.io) /\ PausedInv(b.io)
            /\ rd => RdInv(b)
            /\ wr \/ a.io.wrPaused => WrInv(b)
<1> DEFINE p == InterestRd(a, rd)
           q == InterestWr(p, wr)
           t == Modify(q.st, q.st.rd, q.st.wr)
           e == [q EXCEPT !.st = t]
           new == a.st.rd # q.st.rd \/ a.st.wr # q.st.wr
<1>1. Interest(a, rd, wr) = IF new THEN e ELSE q
  BY DEF Interest
<1>2. /\ Flow(a, p) /\ Grows(a.io, p.io) /\ StInv(p.st)
      /\ p.st.wr = a.st.wr /\ p.st.evRd = a.st.evRd /\ p.st.evWr = a.st.evWr
      /\ rd => RdInv(p)
  BY InterestRdOp, Zenon
<1>3. p \in AllType /\ a.io \in ConnType
  BY <1>2, AllFields DEF Flow
<1> HIDE DEF p
<1>4. PausedInv(p.io) /\ HandleInv(p.io) /\ p.io.wrPaused = a.io.wrPaused
  BY <1>2, <1>3, GrowsKeeps
<1>5. /\ Flow(p, q)
      /\ q.st.rd = p.st.rd /\ q.st.rdPaused = p.st.rdPaused
      /\ q.st.evRd = p.st.evRd /\ q.st.evWr = p.st.evWr
      /\ HandleInv(p.io) => HandleInv(q.io)
      /\ PausedInv(p.io) => PausedInv(q.io)
      /\ wr \/ p.io.wrPaused => WrInv(q)
  BY <1>3, InterestWrOp, Zenon
<1> HIDE DEF q
<1>6. /\ q \in AllType /\ q.st \in StreamType /\ q.st.rd \in BOOLEAN /\ q.st.wr \in BOOLEAN
      /\ q.st.detached = a.st.detached
  BY <1>2, <1>5, AllFields DEF Flow, StreamType
<1>7. /\ t \in StreamType /\ t.detached = q.st.detached /\ t.rd = q.st.rd
      /\ t.rdPaused = q.st.rdPaused /\ t.wr = q.st.wr
      /\ ~q.st.detached => t.evRd = q.st.rd /\ t.evWr = q.st.wr
  BY <1>6, RearmedOp
<1> HIDE DEF t
<1>8. Flow(q, e) /\ e.io = q.io /\ e.st = t /\ e.sock = q.sock
  BY <1>6, <1>7, FlowSt DEF AllType
<1> HIDE DEF e
<1>9. rd => RdInv(q)
  BY <1>2, <1>3, <1>5, FlowLive
<1>10. /\ Flow(a, q) /\ StInv(q.st) /\ HandleInv(q.io) /\ PausedInv(q.io)
       /\ wr \/ a.io.wrPaused => WrInv(q)
  BY <1>2, <1>4, <1>5, FlowTwice DEF StInv
<1>11. CASE ~new
  <2>1. Sync(q.st)
    BY <1>2, <1>5, <1>6, <1>11 DEF Sync
  <2> QED
    BY <1>1, <1>9, <1>10, <1>11, <2>1
<1>12. CASE new
  <2>1. Flow(a, e) /\ StInv(t) /\ Sync(t)
    BY <1>7, <1>8, <1>10, FlowTwice DEF StInv, Sync
  <2>2. (RdInv(q) => RdInv(e)) /\ (WrInv(q) => WrInv(e))
    BY <1>7, <1>8 DEF RdInv, WrInv
  <2> QED
    BY <1>1, <1>8, <1>9, <1>10, <1>12, <2>1, <2>2
<1> QED
  BY <1>11, <1>12

LEMMA PollFiltersShutdownOp ==
  ASSUME NEW a \in AllType, HandleInv(a.io), PausedInv(a.io)
  PROVE  Keeps(a, PollFiltersShutdown(a))
<1>1. CASE ~IsShuttingDownFilters(a.io)
  <2>1. PollFiltersShutdown(a) = a
    BY <1>1 DEF PollFiltersShutdown
  <2> QED
    BY <2>1, FlowSame DEF Keeps
<1>2. CASE IsShuttingDownFilters(a.io)
  <2> DEFINE b == Consolidate(a, TRUE)
             c == b.io
             blocked == ~c.rdEof /\ (c.rdPaused \/ c.rdBp)
             d == IF ConsolidateFails(c) THEN c
                  ELSE IF c.filterDone /\ c.wrPaused /\ ~c.wrSend THEN StopFilters(c, FALSE)
                  ELSE IF ~c.filterDone /\ (c.rdEof \/ blocked) THEN StopFilters(c, blocked)
                  ELSE IF c.deadline = "elapsed" THEN StopFilters(c, TRUE)
                  ELSE Arm(c)
  <2>1. PollFiltersShutdown(a) = [b EXCEPT !.io = d]
    BY <1>2, Zenon DEF PollFiltersShutdown
  <2>2. Keeps(a, b)
    BY ConsolidateOp, Zenon
  <2> HIDE DEF b
  <2>3. c \in ConnType
    BY <2>2, AllFields DEF Keeps, Flow
  <2>4. blocked \in BOOLEAN
    OBVIOUS
  <2>5. Grows(c, d)
    <3>1. /\ Grows(c, StopFilters(c, FALSE)) /\ Grows(c, StopFilters(c, TRUE))
          /\ Grows(c, StopFilters(c, blocked))
      <4> HIDE DEF c, blocked
      <4> QED
        BY <2>3, <2>4, StopFiltersOp, Zenon
    <3>2. Grows(c, c) /\ Grows(c, Arm(c))
      BY <2>3, GrowsSame, ArmOp
    <3> HIDE DEF c, blocked
    <3> QED
      BY <3>1, <3>2, Zenon
  <2> HIDE DEF d
  <2> QED
    BY <2>1, <2>2, <2>5, KeepsGrows
<1> QED
  BY <1>1, <1>2

\* poll_read_ready() leaves a waker behind unless the direction ends.
LEMMA PollReadReadyOp ==
  ASSUME NEW a \in AllType, HandleInv(a.io), PausedInv(a.io)
  PROVE  LET b == PollReadReady(a)
         IN Keeps(a, b) /\ (ReadReadyResult(b.io) \in Ends \/ b.io.rdTask)
<1> DEFINE b == IF a.io.manner = ForceClosed THEN a ELSE PollFiltersShutdown(a)
           c == [b.io EXCEPT !.rdTask = TRUE]
           d == IF ReadReadyResult(b.io) \in Ends THEN b.io ELSE c
           e == [b EXCEPT !.io = d]
<1>1. PollReadReady(a) = e
  BY DEF PollReadReady
<1>2. Keeps(a, b)
  BY PollFiltersShutdownOp, FlowSame DEF Keeps
<1> HIDE DEF b
<1>3. b.io \in ConnType
  BY <1>2, AllFields DEF Keeps, Flow
<1>4. c \in ConnType
  BY <1>3 DEF ConnType
<1>5. Grows(b.io, c) /\ c.rdTask
  BY <1>3, <1>4, ConnFields DEF ConnType, Grows, Advances, Mild, Live, IsAborted, IsClosed,
     IsTerminating, IsPeerGone, SendInv, AppInv, ProdInv, PhaseInv, WriteReady, WrHalf
<1>6. Grows(b.io, d) /\ (d.rdTask \/ ReadReadyResult(d) \in Ends)
  BY <1>3, <1>5, GrowsSame
<1> HIDE DEF d
<1>7. Keeps(a, e) /\ e.io = d
  BY <1>2, <1>6, KeepsGrows
<1> QED
  BY <1>1, <1>6, <1>7

LEMMA PollWriteReadyOp ==
  ASSUME NEW c \in ConnType
  PROVE  LET d == PollWriteReady(c)
         IN Grows(c, d) /\ (WriteReadyResult(d) \in Ends \/ d.wrTask)
<1> DEFINE b == IF c.manner = ForceClosed THEN c ELSE PollShutdownDeadline(c)
           q == [b EXCEPT !.wrTask = TRUE]
           d == IF WriteReadyResult(b) \in Ends THEN b ELSE q
<1>1. PollWriteReady(c) = d
  BY DEF PollWriteReady
<1>2. Grows(c, b)
  <2>1. Grows(c, c) /\ Grows(c, Arm(c)) /\ Grows(c, TerminateConnection(c, TRUE))
    BY GrowsSame, ArmOp, TerminateOp, Zenon
  <2> QED
    BY <2>1, Zenon DEF PollShutdownDeadline
<1> HIDE DEF b
<1>3. b \in ConnType
  BY <1>2 DEF Grows, Advances
<1>4. q \in ConnType
  BY <1>3, ZenonT(60) DEF ConnType
<1>5. Grows(b, q) /\ q.wrTask
  BY <1>3, <1>4, ConnFields DEF ConnType, Grows, Advances, Mild, Live, IsAborted, IsClosed,
     IsTerminating, IsPeerGone, SendInv, AppInv, ProdInv, PhaseInv, WriteReady, WrHalf
<1>6. Grows(b, d) /\ (d.wrTask \/ WriteReadyResult(d) \in Ends)
  BY <1>3, <1>5, GrowsSame
<1> HIDE DEF d
<1> QED
  BY <1>1, <1>2, <1>6, GrowsTwice

\* The socket is released: everybody is told, and what is left is discarded.
LEMMA StoppedOp ==
  ASSUME NEW c \in ConnType
  PROVE  LET d == StopConnection(TerminateConnection(c, FALSE))
         IN /\ d \in ConnType /\ d.phase = Stopped /\ d.dropped = c.dropped
            /\ d.wr = 0 \/ (c.phase = Stopped /\ d.wr = c.wr)
            /\ (d.manner = ForceClosed <=> c.manner = ForceClosed) /\ d.err = c.err
            /\ AppInv(c) => AppInv(d)
            /\ ProdInv(c) => ProdInv(d)
            /\ PhaseInv(c) => PhaseInv(d)
            /\ SendInv(c) => SendInv(d)
<1> DEFINE t == TerminateConnection(c, FALSE)
           q == [t EXCEPT !.phase = Stopped, !.wr = 0, !.handle = FALSE]
           w == WakeAll(q)
           d == IF IsClosed(t) THEN t ELSE w
<1>1. StopConnection(TerminateConnection(c, FALSE)) = d
  BY Zenon DEF StopConnection
<1>2. /\ Advances(c, t) /\ t.err = c.err
      /\ t.manner = IF IsClosed(c) THEN c.manner ELSE Larger(c.manner, Terminating)
      /\ IsClosed(t) => IsClosed(c)
  <2>1. /\ Advances(c, t) /\ t.err = (c.err \/ FALSE)
        /\ t.manner = IF IsClosed(c) THEN c.manner ELSE Larger(c.manner, Terminating)
    <3>1. ASSUME NEW e \in BOOLEAN
          PROVE  /\ Advances(c, TerminateConnection(c, e))
                 /\ TerminateConnection(c, e).err = (c.err \/ e)
                 /\ TerminateConnection(c, e).manner =
                      IF IsClosed(c) THEN c.manner ELSE Larger(c.manner, Terminating)
      BY BeginTerminateOp DEF TerminateConnection
    <3> QED
      BY <3>1, Zenon
  <2>2. t.err = c.err
    BY <2>1 DEF Advances, ConnType
  <2> QED
    BY <2>1, <2>2 DEF Advances, IsClosed
<1> HIDE DEF t
<1>3. t \in ConnType /\ c.manner \in 0..2
  BY <1>2, ConnFields DEF Advances
<1>4. t.manner = ForceClosed <=> c.manner = ForceClosed
  BY <1>2, <1>3 DEF Larger
<1>5. /\ t.dropped = c.dropped /\ t.wr = c.wr /\ (AppInv(c) => AppInv(t))
      /\ (ProdInv(c) => ProdInv(t)) /\ (PhaseInv(c) => PhaseInv(t)) /\ (SendInv(c) => SendInv(t))
  BY <1>2 DEF Advances
<1>6. CASE IsClosed(t)
  BY <1>1, <1>2, <1>3, <1>4, <1>5, <1>6 DEF IsClosed
<1>7. CASE ~IsClosed(t)
  <2>1. q \in ConnType
    <3>1. 0 \in Nat /\ Stopped \in 0..3
      OBVIOUS
    <3> QED
      BY <1>3, <3>1, ZenonT(60) DEF ConnType
  <2>2. /\ q.phase = Stopped /\ q.wr = 0 /\ q.manner = t.manner /\ q.err = t.err
        /\ q.dropped = t.dropped /\ q.wrSend = t.wrSend /\ q.iops = t.iops
        /\ q.app = t.app /\ q.prod = t.prod /\ q.appWoken = t.appWoken /\ q.dspTask = t.dspTask
        /\ q.prodWoken = t.prodWoken /\ q.wrWaiter = t.wrWaiter
    BY <1>3 DEF ConnType
  <2> HIDE DEF q
  <2>3. /\ WakeOnly(q, w) /\ (q.dspTask => w.appWoken) /\ (q.wrWaiter => w.prodWoken)
    BY <2>1, WakeAllOp
  <2> HIDE DEF w
  <2>4. AppInv(t) => AppInv(w)
    <3>1. w.app = t.app /\ (t.appWoken => w.appWoken) /\ (t.dspTask => w.appWoken)
      BY <2>2, <2>3 DEF WakeOnly
    <3> QED
      BY <3>1, AppTold
  <2>5. ProdInv(t) => ProdInv(w)
    <3>1. w.prod = t.prod /\ (t.prodWoken => w.prodWoken) /\ (t.wrWaiter => w.prodWoken)
      BY <2>2, <2>3 DEF WakeOnly
    <3> QED
      BY <3>1, ProdTold
  <2>6. /\ w \in ConnType /\ w.phase = Stopped /\ w.wr = 0 /\ w.manner = t.manner
        /\ w.err = t.err /\ w.dropped = t.dropped
        /\ (PhaseInv(t) => PhaseInv(w)) /\ (SendInv(t) => SendInv(w))
    BY <2>2, <2>3 DEF WakeOnly, PhaseInv, SendInv
  <2>7. d = w
    BY <1>7
  <2> HIDE DEF d
  <2> QED
    BY <1>1, <1>2, <1>4, <1>5, <2>4, <2>5, <2>6, <2>7
<1> QED
  BY <1>6, <1>7

\* A direction ends when there is nothing to write or what is left is given up.
LEMMA EndsQuiet ==
  ASSUME NEW a \in AllType, Ledger(a),
         ReadReadyResult(a.io) \in Ends \/ WriteReadyResult(a.io) \in Ends
  PROVE  a.io.wr = 0 \/ a.io.err \/ a.io.manner = ForceClosed
<1>1. a.io \in ConnType
  BY AllFields
<1>2. a.io.phase \in 0..3 /\ a.io.manner \in 0..2
  BY <1>1, ConnFields
<1> DEFINE c == a.io
<1>3. ASSUME c.manner # ForceClosed, ~c.err, c.wr # 0 PROVE FALSE
  <2>1. ~c.dropped /\ c.phase # Stopped /\ c.manner = Graceful
    BY <1>2, <1>3 DEF Ledger
  <2>2. ~IsAborted(c)
    BY <2>1 DEF IsAborted, IsClosed, IsTerminating
  <2>3. ReadReadyResult(c) = ReadReadiness(c) /\ WriteReadyResult(c) = WriteReadiness(c)
    BY <2>1 DEF ReadReadyResult, WriteReadyResult
  <2>4. ReadReadiness(c) \in {"Pending", "Ready"}
    <3>1. CASE c.rdEof \/ c.phase >= TransportShutdown
      BY <2>1, <2>2, <3>1 DEF ReadReadiness
    <3>2. CASE ~c.rdEof /\ c.phase = FiltersStopping
      BY <2>1, <2>2, <3>2 DEF ReadReadiness
    <3>3. CASE ~c.rdEof /\ c.phase = Active
      BY <2>1, <2>2, <3>3 DEF ReadReadiness
    <3> QED
      BY <1>2, <3>1, <3>2, <3>3
  <2>5. WriteReadiness(c) \in {"Pending", "Ready"}
    <3>1. CASE c.phase >= TransportShutdown
      BY <1>3, <2>1, <2>2, <3>1 DEF WriteReadiness, IsPeerGone
    <3>2. CASE c.phase < TransportShutdown
      BY <1>2, <2>1, <2>2, <3>2 DEF WriteReadiness, IsPeerGone, IsTerminating
    <3> QED
      BY <1>2, <3>1, <3>2
  <2> QED
    BY <2>3, <2>4, <2>5 DEF Ends
<1> QED
  BY <1>3

-----------------------------------------------------------------------------
(* The invariant *)

CoreInv(a) ==
  /\ a \in AllType
  /\ ProdInv(a.io) /\ PhaseInv(a.io) /\ SendInv(a.io) /\ HandleInv(a.io) /\ PausedInv(a.io)
  /\ RdReg(a.io) /\ WrReg(a.io)
  /\ Ledger(a) /\ DetachInv(a) /\ Sync(a.st) /\ StInv(a.st) /\ RdInv(a) /\ WrInv(a)

Inv == CoreInv(All) /\ AppInv(io)

\* The polls of the transport task, with what they leave behind.
LEMMA TaskReadied ==
  ASSUME Inv
  PROVE  LET a1 == PollReadReady([All EXCEPT !.io.ioWoken = FALSE])
             a2 == [a1 EXCEPT !.io = PollWriteReady(a1.io)]
         IN /\ a2 \in AllType /\ a2.sock.closed = sock.closed /\ a1 \in AllType /\ Grows(a1.io, a2.io)
            /\ AppInv(a2.io) /\ ProdInv(a2.io) /\ PhaseInv(a2.io) /\ SendInv(a2.io)
            /\ PhaseInv(a1.io) /\ Ledger(a1)
            /\ HandleInv(a2.io) /\ PausedInv(a2.io) /\ Ledger(a2)
            /\ DetachInv(a2) /\ Sync(a2.st) /\ StInv(a2.st)
            /\ ReadReadyResult(a1.io) \in Ends \/ a2.io.rdTask \/ a2.io.ioWoken
            /\ WriteReadyResult(a2.io) \in Ends \/ a2.io.wrTask
<1> DEFINE c == [io EXCEPT !.ioWoken = FALSE]
           a0 == [All EXCEPT !.io = c]
           a1 == PollReadReady(a0)
           d == PollWriteReady(a1.io)
           a2 == [a1 EXCEPT !.io = d]
<1>1. [All EXCEPT !.io.ioWoken = FALSE] = a0
  BY DEF All
<1>2. All \in AllType /\ All.io = io /\ All.st = st /\ All.sock = sock /\ All.total = total
  BY DEF Inv, CoreInv, All
<1>3. io \in ConnType
  BY <1>2, AllFields
<1>4. c \in ConnType
  BY <1>3 DEF ConnType
<1>5. /\ AppInv(c) /\ ProdInv(c) /\ PhaseInv(c) /\ SendInv(c) /\ HandleInv(c) /\ PausedInv(c)
      /\ Goes(io, c) /\ c.wr = io.wr /\ IsAborted(c) = IsAborted(io)
  <2>1. c.wr = io.wr /\ IsAborted(c) = IsAborted(io) /\ Goes(io, c)
    BY <1>3, <1>4, ConnFields DEF ConnType, Goes, Mild, IsAborted, IsClosed, IsTerminating
  <2>2. SendInv(c) /\ HandleInv(c) /\ PausedInv(c) /\ PhaseInv(c)
    BY <1>2, <1>3 DEF Inv, CoreInv, ConnType, SendInv, HandleInv, PausedInv, PhaseInv, Live,
       IsAborted,
       IsClosed, IsTerminating
  <2>3. AppInv(c) /\ ProdInv(c)
    BY <1>2, <1>3 DEF Inv, CoreInv, ConnType, AppInv, ProdInv, WriteReady, IsPeerGone,
       IsTerminating,
       WrHalf
  <2> QED
    BY <2>1, <2>2, <2>3
<1> HIDE DEF c
<1>6. a0 \in AllType /\ a0.io = c /\ a0.st = st /\ a0.sock = sock
  BY <1>2, <1>4 DEF AllType
<1>7. Ledger(a0)
  BY <1>2, <1>5, LedgerIo DEF Inv, CoreInv
<1>8. DetachInv(a0) /\ Sync(a0.st) /\ StInv(a0.st)
  BY <1>2, <1>5, <1>6 DEF Inv, CoreInv, DetachInv
<1> HIDE DEF a0
<1>9. Keeps(a0, a1) /\ (ReadReadyResult(a1.io) \in Ends \/ a1.io.rdTask)
  BY <1>5, <1>6, PollReadReadyOp
<1> HIDE DEF a1
<1>10. a1 \in AllType /\ a1.io \in ConnType /\ Flow(a0, a1)
  BY <1>9, AllFields DEF Keeps, Flow
<1>11. Grows(a1.io, d) /\ (WriteReadyResult(d) \in Ends \/ d.wrTask)
  BY <1>10, PollWriteReadyOp
<1> HIDE DEF d
<1>12. Keeps(a0, a2) /\ a2.io = d
  BY <1>6, <1>9, <1>11, KeepsGrows
<1>13. a2.st = a1.st /\ Flow(a0, a2)
  BY <1>10, <1>12 DEF AllType, Keeps
<1> HIDE DEF a2
<1>14. /\ a2 \in AllType /\ a2.sock.closed = sock.closed
       /\ AppInv(d) /\ ProdInv(d) /\ PhaseInv(d) /\ SendInv(d) /\ PhaseInv(a1.io)
       /\ HandleInv(d) /\ PausedInv(d) /\ Ledger(a1) /\ Ledger(a2)
       /\ Sync(a2.st) /\ StInv(a2.st)
  BY <1>5, <1>6, <1>7, <1>8, <1>9, <1>10, <1>12, <1>13 DEF Keeps, Flow, Moves, StInv
<1>15. DetachInv(a2)
  BY <1>6, <1>8, <1>13, FlowLive
<1>16. a1.io.rdTask => d.rdTask \/ d.ioWoken
  BY <1>11 DEF Grows, Advances
<1> QED
  BY <1>1, <1>9, <1>10, <1>11, <1>12, <1>14, <1>15, <1>16 DEF a2, d, a1

\* One poll of the transport task.
LEMMA RunTaskKeeps == ASSUME Inv, RunTask PROVE Inv'
<1> DEFINE a1 == PollReadReady([All EXCEPT !.io.ioWoken = FALSE])
           a2 == [a1 EXCEPT !.io = PollWriteReady(a1.io)]
           rd == ReadReadyResult(a1.io)
           wr == WriteReadyResult(a2.io)
           rdy == rd = "Ready"
           wry == wr = "Ready"
           a3 == IF rd \in Ends /\ wr \in Ends THEN a2 ELSE Interest(a2, rdy, wry)
           c == StopConnection(TerminateConnection(a3.io, FALSE))
           how == IF "Terminate" \in {rd, wr} THEN "aborted" ELSE "shutdown"
           a4 == [a3 EXCEPT !.io = c, !.st.detached = TRUE, !.sock.closed = how]
           b == IF {rd, wr} \cap Ends = {} THEN a3 ELSE a4
<1>1. Become(b) /\ sock.closed = "open"
  <2>1. TaskPolled = b
    BY Zenon DEF TaskPolled
  <2> QED
    BY <2>1, Zenon DEF RunTask, RunReady
<1>2. /\ a2 \in AllType /\ a2.sock.closed = sock.closed /\ a1 \in AllType /\ Grows(a1.io, a2.io)
      /\ AppInv(a2.io) /\ ProdInv(a2.io) /\ PhaseInv(a2.io) /\ SendInv(a2.io)
      /\ PhaseInv(a1.io) /\ Ledger(a1)
      /\ HandleInv(a2.io) /\ PausedInv(a2.io) /\ Ledger(a2)
      /\ DetachInv(a2) /\ Sync(a2.st) /\ StInv(a2.st)
      /\ rd \in Ends \/ a2.io.rdTask \/ a2.io.ioWoken
      /\ wr \in Ends \/ a2.io.wrTask
  BY TaskReadied
<1> HIDE DEF a1, a2
<1>3. a1.io \in ConnType /\ a2.io \in ConnType
  BY <1>2, AllFields
<1>4. rdy \in BOOLEAN /\ wry \in BOOLEAN
  OBVIOUS
<1>5. /\ Flow(a2, a3) /\ StInv(a3.st) /\ Sync(a3.st) /\ HandleInv(a3.io) /\ PausedInv(a3.io)
      /\ rdy /\ ~(rd \in Ends /\ wr \in Ends) => RdInv(a3)
      /\ (wry \/ a2.io.wrPaused) /\ ~(rd \in Ends /\ wr \in Ends) => WrInv(a3)
  <2>1. CASE rd \in Ends /\ wr \in Ends
    BY <1>2, <2>1, FlowSame
  <2>2. CASE ~(rd \in Ends /\ wr \in Ends)
    <3> HIDE DEF rd, wr, rdy, wry
    <3>1. LET i == Interest(a2, rdy, wry)
          IN /\ Flow(a2, i) /\ StInv(i.st) /\ Sync(i.st) /\ HandleInv(i.io) /\ PausedInv(i.io)
             /\ rdy => RdInv(i)
             /\ wry \/ a2.io.wrPaused => WrInv(i)
      BY <1>2, <1>4, InterestOp, Zenon
    <3> QED
      BY <2>2, <3>1, Zenon
  <2> QED
    BY <2>1, <2>2
<1> HIDE DEF a3
<1>6. a3 \in AllType /\ a3.io \in ConnType /\ a2.io \in ConnType /\ Moves(a2.io, a3.io)
  BY <1>2, <1>5, AllFields DEF Flow
<1>7. AppInv(a3.io) /\ ProdInv(a3.io) /\ PhaseInv(a3.io) /\ SendInv(a3.io) /\ Ledger(a3)
  BY <1>2, <1>5, <1>6 DEF Moves, Flow

\* The task waits again, with its interest as the readiness asks.
<1>8. ASSUME {rd, wr} \cap Ends = {} PROVE CoreInv(a3)
  <2>1. rd \notin Ends /\ wr \notin Ends
    BY <1>8
  <2>2. RdReg(a2.io) /\ WrReg(a2.io)
    BY <1>2, <2>1 DEF RdReg, WrReg
  <2>3. RdReg(a3.io) /\ WrReg(a3.io) /\ DetachInv(a3)
    BY <1>2, <1>5, <2>2, FlowLive
  <2>4. RdInv(a3)
    <3>1. ASSUME Live(a3.io), a3.io.phase = Active, ~a3.io.rdPaused, ~a3.io.rdBp, ~a3.io.rdEof
          PROVE  rdy
      <4>1. Moves(a1.io, a3.io)
        BY <1>2, <1>3, <1>6, GrowsMoves, MovesTwice
      <4>2. Live(a1.io) /\ a1.io.phase = Active /\ ~a1.io.rdPaused /\ ~a1.io.rdBp /\ ~a1.io.rdEof
        BY <1>3, <3>1, <4>1, MovesLive DEF Moves
      <4>3. a1.io.manner = Graceful
        BY <1>2, <4>2 DEF PhaseInv
      <4>4. ReadReadiness(a1.io) = "Ready"
        BY <4>2, <4>3 DEF ReadReadiness, Live
      <4> QED
        BY <4>2, <4>4 DEF ReadReadyResult, Live
    <3>2. CASE rdy
      BY <1>5, <2>1, <3>2
    <3>3. CASE ~rdy
      BY <3>1, <3>3 DEF RdInv
    <3> QED
      BY <3>2, <3>3
  <2>5. WrInv(a3)
    <3>1. ASSUME ~wry PROVE a2.io.wrPaused
      <4> DEFINE q == a2.io
      <4>1. q.phase \in 0..3 /\ q.manner \in 0..2 /\ q.wr \in Nat
        BY <1>3, ConnFields
      <4>2. q.manner # ForceClosed
        BY <2>1 DEF WriteReadyResult, WriteReadiness, Ends, IsAborted, IsPeerGone, IsTerminating
      <4>3. wr = WriteReadiness(q)
        BY <2>1, <4>2 DEF WriteReadyResult, Ends
      <4>4. ~IsAborted(q)
        BY <2>1, <4>2, <4>3 DEF WriteReadiness, Ends, IsAborted, IsClosed, IsPeerGone, IsTerminating
      <4>5. q.phase < TransportShutdown
        BY <2>1, <3>1, <4>1, <4>2, <4>3, <4>4 DEF WriteReadiness, Ends, IsPeerGone
      <4>6. ~IsPeerGone(q)
        BY <4>1, <4>4, <4>5 DEF IsPeerGone, IsAborted
      <4> QED
        BY <3>1, <4>2, <4>3, <4>4, <4>5, <4>6 DEF WriteReadiness
    <3> QED
      BY <1>5, <2>1, <3>1
  <2> QED
    BY <1>5, <1>6, <1>7, <2>3, <2>4, <2>5 DEF CoreInv

\* The socket is shut down or aborted.
<1>9. ASSUME {rd, wr} \cap Ends # {} PROVE CoreInv(a4) /\ AppInv(a4.io)
  <2>1. /\ c \in ConnType /\ c.phase = Stopped /\ c.dropped = a3.io.dropped
        /\ c.wr = 0 \/ (a3.io.phase = Stopped /\ c.wr = a3.io.wr)
        /\ (c.manner = ForceClosed <=> a3.io.manner = ForceClosed) /\ c.err = a3.io.err
        /\ AppInv(c) /\ ProdInv(c) /\ PhaseInv(c) /\ SendInv(c)
    BY <1>6, <1>7, StoppedOp
  <2> HIDE DEF c
  <2>2. how \in {"aborted", "shutdown"}
    OBVIOUS
  <2>3. /\ a4.io = c /\ a4.total = a3.total /\ a4.st = [a3.st EXCEPT !.detached = TRUE]
        /\ a4.sock = [a3.sock EXCEPT !.closed = how]
        /\ a4 = [io |-> c, st |-> a4.st, sock |-> a4.sock, total |-> a3.total]
    <3> HIDE DEF how
    <3>1. /\ a4.io = c /\ a4.total = a3.total /\ a4.st = [a3.st EXCEPT !.detached = TRUE]
          /\ a4.sock = [a3.sock EXCEPT !.closed = how]
      BY <1>6 DEF AllType
    <3>2. DOMAIN a4 = {"io", "st", "sock", "total"} /\ a4 = [x \in DOMAIN a4 |-> a4[x]]
      BY <1>6 DEF AllType
    <3> HIDE DEF a4
    <3> QED
      BY <3>1, <3>2
  <2>4. a3.st \in StreamType /\ a3.sock \in SockType /\ a3.total \in TotalType
    BY <1>6, AllFields
  <2>5. /\ a4.st \in StreamType /\ a4.st.detached /\ a4.st.rd = a3.st.rd
        /\ a4.st.rdPaused = a3.st.rdPaused
    BY <2>3, <2>4 DEF StreamType
  <2>6. a4.sock \in SockType /\ a4.sock.closed = how
    <3> HIDE DEF how
    <3> QED
      BY <2>2, <2>3, <2>4 DEF SockType
  <2> HIDE DEF a4
  <2>7. a4 \in AllType
    BY <2>1, <2>3, <2>4, <2>5, <2>6 DEF AllType
  <2>8. a3.io.wr = 0 \/ a3.io.err \/ a3.io.manner = ForceClosed
    <3> DEFINE Quiet(q) == q.wr = 0 \/ q.err \/ q.manner = ForceClosed
    <3>1. ASSUME NEW p \in ConnType, NEW q, Moves(p, q), Quiet(p) PROVE Quiet(q)
      <4>1. p.wr \in Nat /\ q.wr \in Nat /\ p.manner \in 0..2 /\ q.manner \in 0..2
        BY <3>1, ConnFields DEF Moves
      <4> QED
        BY <3>1, <4>1 DEF Moves
    <3>2. CASE rd \in Ends
      <4>1. Quiet(a1.io)
        BY <1>2, <3>2, EndsQuiet
      <4>2. Quiet(a2.io)
        BY <1>2, <1>3, <3>1, <4>1, GrowsMoves
      <4> QED
        BY <1>6, <3>1, <4>2
    <3>3. CASE wr \in Ends
      <4>1. Quiet(a2.io)
        BY <1>2, <3>3, EndsQuiet
      <4> QED
        BY <1>6, <3>1, <4>1
    <3> QED
      BY <1>9, <3>2, <3>3
  <2>9. how = "shutdown" => c.manner # ForceClosed
    <3>1. ASSUME a3.io.manner = ForceClosed PROVE wr = "Terminate"
      <4>1. a2.io.manner = ForceClosed
        BY <1>6, <3>1 DEF Moves, Mild
      <4> QED
        BY <4>1 DEF WriteReadyResult, WriteReadiness, IsAborted, IsPeerGone, IsTerminating
    <3> QED
      BY <2>1, <3>1
  <2>10. Ledger(a4)
    <3>1. a3.io.wr \in Nat /\ a3.total.written \in Nat /\ a3.total.accepted \in Nat
      BY <1>6, <2>4, ConnFields DEF TotalType
    <3>2. c.wr = 0
      BY <1>7, <2>1 DEF Ledger
    <3>3. c.manner # ForceClosed /\ ~c.err => a3.total.written = a3.total.accepted
      BY <1>7, <2>1, <2>8, <3>1 DEF Ledger
    <3> HIDE DEF how
    <3> QED
      BY <2>1, <2>3, <2>6, <2>9, <3>1, <3>2, <3>3 DEF Ledger
  <2>11. ~Live(c) /\ IsAborted(c)
    BY <2>1 DEF Live, IsAborted, IsClosed
  <2> QED
    BY <1>5, <2>1, <2>3, <2>5, <2>7, <2>10, <2>11
       DEF CoreInv, HandleInv, PausedInv, RdReg, WrReg, DetachInv, Sync, StInv, RdInv, WrInv
<1>10. CoreInv(b) /\ AppInv(b.io)
  BY <1>7, <1>8, <1>9
<1>11. b = [io |-> b.io, st |-> b.st, sock |-> b.sock, total |-> b.total]
  BY <1>10 DEF CoreInv, AllType
<1> HIDE DEF b
<1>12. All' = b /\ io' = b.io
  BY <1>1, <1>11 DEF Become, All
<1> QED
  BY <1>10, <1>12 DEF Inv

-----------------------------------------------------------------------------
(* Events and scheduled writes *)

\* What the two halves of event() keep; the interest is armed after them.
EventInv(a) ==
  /\ a \in AllType /\ HandleInv(a.io) /\ PausedInv(a.io) /\ StInv(a.st) /\ RdInv(a) /\ WrInv(a)

LEMMA EventRdOp ==
  ASSUME NEW a, EventInv(a)
  PROVE  Flow(a, EventRd(a)) /\ EventInv(EventRd(a))
<1>1. a \in AllType /\ a.io \in ConnType /\ a.st \in StreamType
  BY AllFields DEF EventInv
<1>2. CASE a.st.rdPaused
  <2> DEFINE s == [a.st EXCEPT !.rd = FALSE, !.rdPaused = FALSE]
             e == [a EXCEPT !.st = s]
  <2>1. EventRd(a) = e
    BY <1>2 DEF EventRd
  <2>2. s \in StreamType
    BY <1>1, Zenon DEF StreamType
  <2>3. ~s.rd /\ ~s.rdPaused /\ s.wr = a.st.wr /\ s.detached = a.st.detached
    BY <1>1 DEF StreamType
  <2> HIDE DEF s
  <2>4. Flow(a, e) /\ e.io = a.io /\ e.st = s /\ e.sock = a.sock /\ e \in AllType
    BY <1>1, <2>2, <2>3, FlowSt DEF AllType
  <2> HIDE DEF e
  <2>5. EventInv(e)
    BY <1>2, <2>3, <2>4 DEF EventInv, StInv, RdInv, WrInv
  <2> QED
    BY <2>1, <2>4, <2>5
<1>3. CASE ~a.st.rdPaused
  <2> DEFINE r == StreamRead(a)
             x == StatusOfRead(a) = "Io"
             held == StatusOfRead(a) = "Pause" /\ ReadSize(a) < Budget
             s1 == [r.st EXCEPT !.rd = TRUE, !.rdPaused = TRUE]
             s2 == [r.st EXCEPT !.rd = x]
             s == IF held THEN s1 ELSE s2
             e == [r EXCEPT !.st = s]
  <2>1. EventRd(a) = e
    BY <1>3 DEF EventRd
  <2>2. x \in BOOLEAN /\ (held => ~x)
    OBVIOUS
  <2>3. /\ Flow(a, r) /\ Grows(a.io, r.io) /\ r.st = a.st
        /\ Live(r.io) /\ r.io.phase = Active /\ ~x => r.io.rdPaused \/ r.io.rdBp \/ r.io.rdEof
    BY <1>1, StreamReadOp
  <2> HIDE DEF r, x, held
  <2>4. r \in AllType
    BY <2>3 DEF Flow
  <2>5. s1 \in StreamType
    BY <1>1, <2>3, Zenon DEF StreamType
  <2>6. s2 \in StreamType
    BY <1>1, <2>2, <2>3 DEF StreamType
  <2>7. /\ s1.rd /\ s1.wr = a.st.wr /\ s1.detached = a.st.detached
        /\ s2.rd = x /\ s2.rdPaused = a.st.rdPaused /\ s2.wr = a.st.wr
        /\ s2.detached = a.st.detached
    BY <1>1, <2>3 DEF StreamType
  <2> HIDE DEF s1, s2
  <2>8. /\ s \in StreamType /\ s.detached = a.st.detached /\ s.wr = a.st.wr
        /\ StInv(s) /\ (x => s.rd /\ ~s.rdPaused)
    BY <1>3, <2>2, <2>5, <2>6, <2>7 DEF StInv
  <2> HIDE DEF s
  <2>9. Flow(r, e) /\ e.io = r.io /\ e.st = s /\ e \in AllType
    BY <2>3, <2>4, <2>8, FlowSt DEF AllType
  <2> HIDE DEF e
  <2>10. RdInv(e)
    BY <2>3, <2>8, <2>9 DEF RdInv
  <2>11. /\ HandleInv(r.io) /\ PausedInv(r.io) /\ r.io.wrPaused = a.io.wrPaused
         /\ (Live(r.io) => Live(a.io)) /\ (a.io.ioWoken => r.io.ioWoken)
    BY <1>1, <2>3, GrowsKeeps DEF EventInv, Moves
  <2>12. WrInv(e)
    BY <2>8, <2>9, <2>11 DEF WrInv, EventInv
  <2>13. Flow(a, e)
    BY <1>1, <2>3, <2>9, FlowTwice
  <2> QED
    BY <2>1, <2>8, <2>9, <2>10, <2>11, <2>12, <2>13 DEF EventInv
<1> QED
  BY <1>2, <1>3

LEMMA EventWrOp ==
  ASSUME NEW a, EventInv(a)
  PROVE  Flow(a, EventWr(a)) /\ EventInv(EventWr(a))
<1> DEFINE r == StreamWrite(a)
           x == WriteStatus(r.io) = "Io"
           s == [r.st EXCEPT !.wr = x]
           e == [r EXCEPT !.st = s]
<1>1. a \in AllType /\ a.io \in ConnType /\ a.st \in StreamType
  BY AllFields DEF EventInv
<1>2. EventWr(a) = e
  BY DEF EventWr
<1>3. x \in BOOLEAN
  OBVIOUS
<1>4. Flow(a, r) /\ r.st = a.st /\ Noted(r.io) /\ HandleInv(r.io)
  BY <1>1, StreamWriteOp DEF EventInv
<1> HIDE DEF r
<1>5. Live(r.io) /\ ~r.io.wrPaused => x
  BY <1>4 DEF Noted, Live, WriteStatus
<1> HIDE DEF x
<1>6. r \in AllType /\ r.io \in ConnType /\ RdInv(r)
  BY <1>1, <1>4, AllFields, FlowLive DEF Flow, EventInv
<1>7. /\ s \in StreamType /\ s.detached = a.st.detached /\ s.rd = a.st.rd /\ s.wr = x
      /\ s.rdPaused = a.st.rdPaused
  BY <1>1, <1>3, <1>4 DEF StreamType
<1> HIDE DEF s
<1>8. Flow(r, e) /\ e.io = r.io /\ e.st = s /\ e.sock = r.sock /\ e \in AllType
  BY <1>4, <1>6, <1>7, FlowSt DEF AllType
<1> HIDE DEF e
<1>9. Flow(a, e) /\ WrInv(e) /\ PausedInv(e.io)
  BY <1>1, <1>4, <1>5, <1>6, <1>7, <1>8, FlowTwice, NotedPaused DEF WrInv
<1>10. RdInv(e) /\ StInv(s)
  BY <1>4, <1>6, <1>7, <1>8 DEF RdInv, StInv, EventInv
<1> QED
  BY <1>2, <1>4, <1>8, <1>9, <1>10 DEF EventInv

\* The invariant after a step to b, which is of the type of All.
LEMMA Becomes ==
  ASSUME NEW b, CoreInv(b), AppInv(b.io), Become(b)
  PROVE  Inv'
<1>1. b = [io |-> b.io, st |-> b.st, sock |-> b.sock, total |-> b.total]
  BY DEF CoreInv, AllType
<1>2. All' = b /\ io' = b.io
  BY <1>1 DEF Become, All
<1> QED
  BY <1>2 DEF Inv

LEMMA AllParts ==
  ASSUME Inv
  PROVE  /\ All \in AllType /\ All.io = io /\ All.st = st /\ All.sock = sock /\ All.total = total
         /\ io \in ConnType /\ st \in StreamType /\ sock \in SockType /\ total \in TotalType
<1>1. All \in AllType /\ All.io = io /\ All.st = st /\ All.sock = sock /\ All.total = total
  BY DEF Inv, CoreInv, All
<1> QED
  BY <1>1, AllFields

LEMMA EventKeeps == ASSUME Inv, Event PROVE Inv'
<1> DEFINE a1 == IF Readable THEN EventRd(All) ELSE All
           a2 == IF Writable THEN EventWr(a1) ELSE a1
           d == TerminateConnection(a2.io, TRUE)
           b1 == [a2 EXCEPT !.io = d, !.st.detached = TRUE]
           t == Modify(a2.st, a2.st.rd, a2.st.wr)
           b2 == [a2 EXCEPT !.st = t]
           b == IF sock.err THEN b1 ELSE b2
<1>1. Become(b) /\ ~st.detached
  <2>1. EventHandled = b
    BY Zenon DEF EventHandled
  <2> QED
    BY <2>1, Zenon DEF Event, EventReady
<1>2. /\ All \in AllType /\ All.io = io /\ All.st = st /\ All.sock = sock
      /\ io \in ConnType
  BY AllParts
<1>3. EventInv(All)
  BY DEF Inv, CoreInv, EventInv
<1>4. Flow(All, a1) /\ EventInv(a1)
  BY <1>2, <1>3, EventRdOp, FlowSame
<1> HIDE DEF a1
<1>5. Flow(All, a2) /\ EventInv(a2)
  <2>1. Flow(a1, a2) /\ EventInv(a2)
    BY <1>4, EventWrOp, FlowSame DEF EventInv
  <2> QED
    BY <1>2, <1>4, <2>1, FlowTwice
<1> HIDE DEF a2
<1>6. /\ AppInv(a2.io) /\ ProdInv(a2.io) /\ PhaseInv(a2.io) /\ SendInv(a2.io) /\ Ledger(a2)
      /\ a2.st.detached = st.detached /\ a2.sock.err = sock.err
  BY <1>2, <1>5 DEF Flow, Moves, Inv, CoreInv
<1>7. RdReg(a2.io) /\ WrReg(a2.io) /\ DetachInv(a2)
  BY <1>2, <1>5, FlowLive DEF Inv, CoreInv
<1>8. /\ a2 \in AllType /\ a2.io \in ConnType /\ a2.st \in StreamType /\ a2.sock \in SockType
      /\ a2.total \in TotalType
  BY <1>5, AllFields DEF EventInv
<1>9. ASSUME sock.err PROVE CoreInv(b1) /\ AppInv(b1.io)
  <2>1. Grows(a2.io, d) /\ IsAborted(d)
    BY <1>8, TerminateOp
  <2> HIDE DEF d
  <2> DEFINE e == [a2 EXCEPT !.io = d]
             s == [a2.st EXCEPT !.detached = TRUE]
  <2>2. Flow(a2, e) /\ e.io = d /\ e.st = a2.st /\ e.sock = a2.sock /\ e.total = a2.total
    BY <1>8, <2>1, GrowsIo DEF AllType
  <2>3. s \in StreamType /\ s.rdPaused = a2.st.rdPaused /\ s.rd = a2.st.rd /\ s.detached
    BY <1>8 DEF StreamType
  <2>4. b1.io = d /\ b1.st = s /\ b1.sock = a2.sock /\ b1.total = a2.total /\ b1 \in AllType
    <3>1. d \in ConnType
      BY <2>1 DEF Grows, Advances
    <3>2. b1.io = d /\ b1.st = s /\ b1.sock = a2.sock /\ b1.total = a2.total
      BY <1>8 DEF AllType
    <3>3. DOMAIN b1 = {"io", "st", "sock", "total"} /\ b1 = [x \in DOMAIN b1 |-> b1[x]]
      BY <1>8 DEF AllType
    <3> HIDE DEF b1, s
    <3> QED
      BY <1>8, <2>3, <3>1, <3>2, <3>3 DEF AllType
  <2> HIDE DEF b1, s, e
  <2>5. /\ AppInv(d) /\ ProdInv(d) /\ PhaseInv(d) /\ SendInv(d) /\ Ledger(e)
    BY <1>6, <2>2 DEF Flow, Moves
  <2>6. Ledger(b1)
    BY <2>2, <2>4, <2>5 DEF Ledger
  <2>7. ~Live(d)
    BY <2>1 DEF Live
  <2>8. StInv(s)
    BY <1>5, <2>3 DEF StInv, EventInv
  <2> QED
    BY <2>1, <2>3, <2>4, <2>5, <2>6, <2>7, <2>8
       DEF CoreInv, HandleInv, PausedInv, RdReg, WrReg, DetachInv, Sync, RdInv, WrInv
<1>10. ASSUME ~sock.err PROVE CoreInv(b2) /\ AppInv(b2.io)
  <2>1. /\ t \in StreamType /\ t.detached = a2.st.detached /\ t.rd = a2.st.rd
        /\ t.rdPaused = a2.st.rdPaused /\ t.wr = a2.st.wr
        /\ ~a2.st.detached => t.evRd = a2.st.rd /\ t.evWr = a2.st.wr
    BY <1>8, RearmedOp
  <2> HIDE DEF t
  <2>2. Flow(a2, b2) /\ b2.io = a2.io /\ b2.st = t /\ b2.sock = a2.sock /\ b2 \in AllType
    BY <1>8, <2>1, FlowSt DEF AllType
  <2> HIDE DEF b2
  <2>3. StInv(t) /\ RdInv(b2) /\ WrInv(b2) /\ Sync(t) /\ DetachInv(b2) /\ Ledger(b2)
    BY <1>5, <1>6, <1>7, <2>1, <2>2 DEF StInv, RdInv, WrInv, Sync, DetachInv, EventInv, Flow
  <2> QED
    BY <1>5, <1>6, <1>7, <2>2, <2>3 DEF CoreInv, EventInv
<1>11. CoreInv(b) /\ AppInv(b.io)
  BY <1>9, <1>10
<1> HIDE DEF b
<1> QED
  BY <1>1, <1>11, Becomes

LEMMA KeepsCore ==
  ASSUME NEW a, NEW b, CoreInv(a), Keeps(a, b)
  PROVE  CoreInv(b) /\ (AppInv(a.io) => AppInv(b.io))
<1>1. a \in AllType /\ Flow(a, b)
  BY DEF CoreInv, Keeps
<1>2. RdReg(b.io) /\ WrReg(b.io) /\ DetachInv(b) /\ RdInv(b)
  BY <1>1, FlowLive DEF CoreInv, Keeps
<1> QED
  BY <1>1, <1>2 DEF CoreInv, Keeps, Flow, Moves, StInv

\* Nothing but the flags of the scheduled writes, and what nothing depends on, changes.
SendOnly(c, d) ==
  /\ d \in ConnType
  /\ d.cfg = c.cfg /\ d.phase = c.phase /\ d.manner = c.manner /\ d.err = c.err
  /\ d.handle = c.handle /\ d.dropped = c.dropped /\ d.rdPaused = c.rdPaused /\ d.rdBp = c.rdBp
  /\ d.rdEof = c.rdEof /\ d.rdReady = c.rdReady /\ d.wrPaused = c.wrPaused
  /\ d.wrFlush = c.wrFlush /\ d.wrBp = c.wrBp /\ d.wr = c.wr /\ d.ioWoken = c.ioWoken
  /\ d.rdTask = c.rdTask /\ d.wrTask = c.wrTask /\ d.app = c.app /\ d.appWoken = c.appWoken
  /\ d.dspTask = c.dspTask /\ d.prod = c.prod /\ d.prodWoken = c.prodWoken
  /\ d.wrWaiter = c.wrWaiter

LEMMA SendOnlyMoves ==
  ASSUME NEW c \in ConnType, NEW d, SendOnly(c, d), d.dropped \/ ~d.wrSend
  PROVE  Moves(c, d) /\ Live(d) = Live(c)
<1>1. c.phase \in 0..3 /\ c.manner \in 0..2 /\ c.wr \in Nat
  BY ConnFields
<1>2. (AppInv(c) => AppInv(d)) /\ (ProdInv(c) => ProdInv(d)) /\ Live(d) = Live(c)
  BY DEF SendOnly, AppInv, ProdInv, WriteReady, IsPeerGone, IsTerminating, WrHalf, Live, IsAborted,
     IsClosed
<1>3. (PhaseInv(c) => PhaseInv(d)) /\ SendInv(d) /\ Mild(c, d)
  BY DEF SendOnly, PhaseInv, SendInv, Mild
<1> QED
  BY <1>1, <1>2, <1>3 DEF SendOnly, Moves

\* A run of the scheduled writes takes the connection off the queue.
LEMMA UnqueuedOp ==
  ASSUME NEW c \in ConnType
  PROVE  LET d == [c EXCEPT !.iops = FALSE]
             e == [d EXCEPT !.wrSend = FALSE]
         IN SendOnly(c, d) /\ d.wrSend = c.wrSend /\ SendOnly(c, e) /\ ~e.wrSend
<1> DEFINE d == [c EXCEPT !.iops = FALSE]
           e == [d EXCEPT !.wrSend = FALSE]
<1>1. d \in ConnType
  BY DEF ConnType
<1>2. SendOnly(c, d) /\ d.wrSend = c.wrSend
  BY <1>1 DEF ConnType, SendOnly
<1> HIDE DEF d
<1>3. e \in ConnType
  BY <1>1, ZenonT(60) DEF ConnType
<1>4. SendOnly(d, e) /\ ~e.wrSend
  BY <1>1, <1>3 DEF ConnType, SendOnly
<1> HIDE DEF e
<1>5. SendOnly(c, e)
  BY <1>2, <1>4 DEF SendOnly
<1> QED
  BY <1>2, <1>4, <1>5 DEF d, e

LEMMA IopsRunKeeps == ASSUME Inv, IopsRun PROVE Inv'
<1> DEFINE c == [io EXCEPT !.iops = FALSE]
           a == [All EXCEPT !.io = c]
           b == IF io.dropped \/ ~io.wrSend THEN a ELSE OpsSendBuf(a)
           q == [c EXCEPT !.wrSend = FALSE]
<1>1. Become(b)
  <2>1. [All EXCEPT !.io.iops = FALSE] = a
    BY DEF All
  <2> QED
    BY <2>1, Zenon DEF IopsRun
<1>2. All \in AllType /\ All.io = io /\ All.st = st /\ All.sock = sock /\ io \in ConnType
  BY AllParts
<1>3. SendOnly(io, c) /\ c.wrSend = io.wrSend /\ SendOnly(io, q) /\ ~q.wrSend
  BY <1>2, UnqueuedOp
<1> HIDE DEF q
<1>4. CoreInv(All) /\ AppInv(io)
  BY DEF Inv
<1>5. HandleInv(io) /\ PausedInv(io) /\ WrInv(All) /\ Sync(st) /\ RdReg(io) /\ WrReg(io)
  BY <1>2, <1>4 DEF CoreInv
<1>6. CASE io.dropped \/ ~io.wrSend
  <2>1. /\ Moves(io, c) /\ c.wr = io.wr /\ c.wrPaused = io.wrPaused /\ c.handle = io.handle
        /\ Live(c) = Live(io) /\ c.ioWoken = io.ioWoken /\ PausedInv(c)
    <3> HIDE DEF c
    <3>1. Moves(io, c) /\ Live(c) = Live(io)
      BY <1>2, <1>3, <1>6, SendOnlyMoves DEF SendOnly
    <3> QED
      BY <1>3, <1>5, <1>6, <3>1 DEF SendOnly, PausedInv
  <2>2. b = a
    BY <1>6
  <2> HIDE DEF c, b
  <2>3. Flow(All, a) /\ a.io = c /\ a.st = st
    BY <1>2, <2>1, FlowIo DEF AllType
  <2> HIDE DEF a
  <2>4. Keeps(All, a)
    BY <1>2, <1>5, <2>1, <2>3 DEF Keeps, HandleInv, WrInv
  <2> QED
    BY <1>1, <1>2, <1>4, <2>2, <2>4, KeepsCore, Becomes
<1>7. CASE ~(io.dropped \/ ~io.wrSend)
  <2> DEFINE e == [a EXCEPT !.io = q]
             w == CallWrite(e)
             f == IF ~io.wrPaused THEN [a EXCEPT !.io = WakeWriteTask(q)]
                  ELSE IF w.io.wrPaused THEN w ELSE [w EXCEPT !.io = WakeWriteTask(w.io)]
  <2>1. b = f
    <3>1. a.io = c /\ c.wrPaused = io.wrPaused
      <4> HIDE DEF c
      <4> QED
        BY <1>2, <1>3 DEF AllType, SendOnly
    <3>2. /\ [a EXCEPT !.io.wrSend = FALSE] = e
          /\ [a EXCEPT !.io = WakeWriteTask([a.io EXCEPT !.wrSend = FALSE])]
               = [a EXCEPT !.io = WakeWriteTask(q)]
      <4> HIDE DEF a, c
      <4> QED
        BY <3>1, Zenon DEF q
    <3>3. OpsSendBuf(a) = f
      <4> HIDE DEF a, c, e, q
      <4> QED
        BY <3>1, <3>2, Zenon DEF OpsSendBuf
    <3> QED
      BY <1>7, <3>3
  <2>2. q \in ConnType
    BY <1>3 DEF SendOnly
  <2>3. /\ Moves(io, q) /\ q.wr = io.wr /\ q.wrPaused = io.wrPaused /\ q.handle = io.handle
        /\ Live(q) = Live(io) /\ q.ioWoken = io.ioWoken
    <3> HIDE DEF c
    <3> QED
      BY <1>2, <1>3, SendOnlyMoves DEF SendOnly
  <2> HIDE DEF b, c
  <2>4. /\ Flow(All, e) /\ e.io = q /\ e.st = st /\ e \in AllType
        /\ [a EXCEPT !.io = WakeWriteTask(q)] = [e EXCEPT !.io = WakeWriteTask(q)]
    <3>1. e = [All EXCEPT !.io = q]
      BY <1>2 DEF AllType
    <3>2. [a EXCEPT !.io = WakeWriteTask(q)] = [e EXCEPT !.io = WakeWriteTask(q)]
      BY <1>2 DEF AllType
    <3>3. Flow(All, e) /\ e.io = q /\ e.st = st
      BY <1>2, <2>3, <3>1, FlowIo DEF AllType
    <3> HIDE DEF e
    <3> QED
      BY <3>2, <3>3 DEF Flow
  <2> HIDE DEF e, a
  <2>5. HandleInv(q)
    BY <1>5, <2>3 DEF HandleInv
  <2>6. CASE ~io.wrPaused
    <3>1. f = [e EXCEPT !.io = WakeWriteTask(q)]
      BY <2>4, <2>6
    <3>2. Grows(q, WakeWriteTask(q))
      BY <2>2, WakeWriteTaskOp, WakeGrows
    <3>3. PausedInv(q) /\ WrInv(e)
      BY <1>2, <1>5, <2>3, <2>4, <2>6 DEF PausedInv, WrInv
    <3>4. Keeps(All, e)
      BY <1>2, <2>3, <2>4, <2>5, <3>3 DEF Keeps
    <3> HIDE DEF f
    <3>5. Keeps(All, f)
      BY <1>2, <2>4, <3>1, <3>2, <3>4, KeepsGrows
    <3> QED
      BY <1>1, <1>2, <1>4, <2>1, <3>5, KeepsCore, Becomes
  <2>7. CASE io.wrPaused
    <3>1. /\ Flow(e, w) /\ Noted(w.io) /\ HandleInv(w.io)
          /\ w.st.rd = st.rd /\ w.st.rdPaused = st.rdPaused
          /\ Sync(st) => Sync(w.st)
          /\ Live(w.io) /\ ~w.io.wrPaused => w.st.wr
      BY <2>4, <2>5, CallWriteOp
    <3> HIDE DEF w
    <3>2. w.io \in ConnType /\ Flow(All, w)
      BY <1>2, <2>4, <3>1, FlowTwice, AllFields DEF Flow
    <3>3. Keeps(All, w)
      BY <1>2, <3>1, <3>2, NotedPaused DEF Keeps, WrInv
    <3>4. Grows(w.io, WakeWriteTask(w.io))
      BY <3>2, WakeWriteTaskOp, WakeGrows
    <3>5. Keeps(All, f)
      BY <1>2, <2>7, <3>3, <3>4, KeepsGrows
    <3> HIDE DEF f
    <3> QED
      BY <1>1, <1>2, <1>4, <2>1, <3>5, KeepsCore, Becomes
  <2> QED
    BY <2>6, <2>7
<1> QED
  BY <1>6, <1>7

-----------------------------------------------------------------------------
(* The owner of the Io *)

\* Pauses are lifted only where the read task is told.
Lifts(c, d) ==
  /\ d.rdBp => d.rdPaused
  /\ (c.rdTask \/ c.ioWoken) /\ ~d.ioWoken =>
       (c.rdPaused => d.rdPaused) /\ (c.rdBp => d.rdBp)

\* What a call of the owner may change apart from what it waits for: it reads,
\* pauses and resumes, closes, and notes that output is awaited.
Turns(c, d) ==
  /\ d \in ConnType
  /\ d.cfg = c.cfg /\ d.prod = c.prod /\ d.dropped = c.dropped
  /\ d.wr = c.wr /\ d.wrPaused = c.wrPaused
  /\ c.phase <= d.phase /\ (d.phase = Stopped => c.phase = Stopped) /\ c.manner <= d.manner
  /\ (Live(d) => d.handle = c.handle) /\ (c.err => d.err) /\ (c.rdEof => d.rdEof)
  /\ (c.wrSend => d.wrSend) /\ (SendInv(c) => SendInv(d))
  /\ (c.ioWoken => d.ioWoken) /\ (c.rdTask => d.rdTask \/ d.ioWoken)
  /\ (c.wrTask => d.wrTask \/ d.ioWoken)
  /\ (ProdInv(c) => ProdInv(d)) /\ (c.app # "gone" => d.app # "gone")
  /\ (PhaseInv(c) /\ c.app # "gone" => PhaseInv(d) /\ (d.phase = Active => Lifts(c, d)))
  /\ Mild(c, d)

\* The part of it that leaves the phase and the output alone.
Owns(c, d) ==
  /\ d \in ConnType
  /\ d.cfg = c.cfg /\ d.phase = c.phase /\ d.manner = c.manner /\ d.err = c.err
  /\ d.handle = c.handle /\ d.dropped = c.dropped /\ d.rdEof = c.rdEof
  /\ d.wrPaused = c.wrPaused /\ d.wrSend = c.wrSend /\ d.wrBp = c.wrBp /\ d.wr = c.wr
  /\ d.iops = c.iops /\ d.prod = c.prod
  /\ (c.prodWoken => d.prodWoken) /\ (c.wrWaiter => d.wrWaiter \/ d.prodWoken)
  /\ (c.ioWoken => d.ioWoken) /\ (c.rdTask => d.rdTask \/ d.ioWoken)
  /\ (c.wrTask => d.wrTask \/ d.ioWoken)
  /\ (c.app # "gone" => d.app # "gone")
  /\ (c.phase = Active /\ (c.rdBp => c.rdPaused) => Lifts(c, d))

LEMMA OwnsTurns ==
  ASSUME NEW c \in ConnType, NEW d, Owns(c, d)
  PROVE  Turns(c, d)
<1>1. c.phase \in 0..3 /\ c.manner \in 0..2
  BY ConnFields
<1>2. ProdInv(c) => ProdInv(d)
  BY DEF Owns, ProdInv, WriteReady, IsPeerGone, IsTerminating, WrHalf
<1>3. PhaseInv(c) /\ c.app # "gone" => PhaseInv(d) /\ (d.phase = Active => Lifts(c, d))
  BY DEF Owns, PhaseInv, Lifts
<1> QED
  BY <1>1, <1>2, <1>3 DEF Owns, Turns, Mild, SendInv

LEMMA TurnsTwice ==
  ASSUME NEW c \in ConnType, NEW d, NEW e, Turns(c, d), Turns(d, e)
  PROVE  Turns(c, e)
<1>1. d \in ConnType /\ e \in ConnType
  BY DEF Turns
<1>2. /\ c.phase \in 0..3 /\ d.phase \in 0..3 /\ e.phase \in 0..3
      /\ c.manner \in 0..2 /\ d.manner \in 0..2 /\ e.manner \in 0..2
  BY <1>1, ConnFields
<1>3. (Live(e) => Live(d)) /\ (e.phase = Active => d.phase = Active)
  BY <1>2 DEF Turns, Live, IsAborted, IsClosed, IsTerminating
<1>4. Mild(c, e)
  BY DEF Turns, Mild
<1>5. PhaseInv(c) /\ c.app # "gone" => PhaseInv(e) /\ (e.phase = Active => Lifts(c, e))
  BY <1>3 DEF Turns, Lifts
<1> QED
  BY <1>2, <1>3, <1>4, <1>5 DEF Turns

LEMMA GrowsTurns ==
  ASSUME NEW c \in ConnType, NEW d, Grows(c, d)
  PROVE  Turns(c, d)
<1>1. PhaseInv(c) /\ c.app # "gone" => PhaseInv(d) /\ (d.phase = Active => Lifts(c, d))
  BY DEF Grows, Advances, PhaseInv, Lifts
<1> QED
  BY <1>1 DEF Grows, Advances, Turns

\* All of the invariant but the part about what the owner waits for.
LEMMA TurnsCore ==
  ASSUME NEW a, CoreInv(a), NEW d, Turns(a.io, d), a.io.app # "gone"
  PROVE  CoreInv([a EXCEPT !.io = d]) /\ [a EXCEPT !.io = d].io = d
<1> DEFINE b == [a EXCEPT !.io = d]
           c == a.io
<1>1. a \in AllType /\ c \in ConnType /\ d \in ConnType
  BY AllFields DEF CoreInv, Turns
<1>2. /\ b \in AllType /\ b.io = d /\ b.st = a.st /\ b.sock = a.sock
  BY <1>1 DEF AllType
<1>3. /\ c.phase \in 0..3 /\ d.phase \in 0..3 /\ c.manner \in 0..2 /\ d.manner \in 0..2
      /\ c.wr \in Nat
  BY <1>1, ConnFields
<1>4. Ledger(b)
  <2>1. Goes(a.io, d) /\ d.wr = a.io.wr
    BY <1>3 DEF Turns, Goes
  <2> QED
    BY <1>1, <2>1, LedgerIo DEF CoreInv
<1> HIDE DEF b
<1>5. (Live(d) => Live(c)) /\ (IsAborted(c) => IsAborted(d))
  BY <1>3 DEF Turns, Live, IsAborted, IsClosed, IsTerminating
<1>6. HandleInv(d) /\ PausedInv(d) /\ RdReg(d) /\ WrReg(d)
  BY <1>5 DEF CoreInv, Turns, HandleInv, PausedInv, RdReg, WrReg
<1>7. DetachInv(b) /\ WrInv(b)
  BY <1>2, <1>5 DEF CoreInv, Turns, DetachInv, WrInv
<1>8. RdInv(b)
  <2>1. ASSUME Live(d), d.phase = Active, ~d.ioWoken, ~b.sock.err, ~d.rdPaused, ~d.rdBp, ~d.rdEof
        PROVE  b.st.rd /\ ~b.st.rdPaused
    <3>1. Live(c) /\ c.phase = Active /\ ~c.ioWoken /\ ~c.rdEof
      BY <1>3, <1>5, <2>1 DEF Turns
    <3>2. c.rdTask
      BY <3>1 DEF CoreInv, RdReg
    <3>3. ~c.rdPaused /\ ~c.rdBp
      BY <2>1, <3>2 DEF CoreInv, Turns, Lifts
    <3> QED
      BY <1>2, <2>1, <3>1, <3>3 DEF CoreInv, RdInv
  <2> QED
    BY <1>2, <2>1 DEF RdInv
<1>9. ProdInv(d) /\ PhaseInv(d) /\ SendInv(d)
  BY DEF CoreInv, Turns
<1>10. CoreInv(b)
  BY <1>2, <1>4, <1>6, <1>7, <1>8, <1>9 DEF CoreInv
<1> QED
  BY <1>2, <1>10 DEF b

LEMMA ResolveOp ==
  ASSUME NEW c \in ConnType
  PROVE  Owns(c, Resolve(c)) /\ AppInv(Resolve(c))
<1> DEFINE d == [c EXCEPT !.app = "idle"]
<1>1. d \in ConnType
  BY DEF ConnType
<1>2. Owns(c, d) /\ d.app = "idle"
  BY <1>1 DEF ConnType, Owns, Lifts
<1> HIDE DEF d
<1>3. Resolve(c) = d
  BY DEF Resolve, d
<1> QED
  BY <1>2, <1>3 DEF AppInv

LEMMA AwaitOp ==
  ASSUME NEW c \in ConnType, NEW what \in Waits
  PROVE  LET d == Await(c, what)
         IN /\ Owns(c, d) /\ d.app = what /\ d.dspTask /\ d.rdReady = c.rdReady
            /\ d.rdPaused = c.rdPaused /\ d.rdBp = c.rdBp /\ d.wrFlush = c.wrFlush
<1> DEFINE d == [c EXCEPT !.app = what, !.dspTask = TRUE]
<1>1. what \in Waits \cup {"idle", "gone"} /\ what # "gone"
  BY DEF Waits
<1>2. d \in ConnType
  BY <1>1, Zenon DEF ConnType
<1>3. /\ Owns(c, d) /\ d.app = what /\ d.dspTask /\ d.rdReady = c.rdReady
      /\ d.rdPaused = c.rdPaused /\ d.rdBp = c.rdBp /\ d.wrFlush = c.wrFlush
  BY <1>1, <1>2 DEF ConnType, Owns, Lifts
<1> HIDE DEF d
<1>4. Await(c, what) = d
  BY DEF Await, d
<1> QED
  BY <1>3, <1>4

LEMMA AskMoreOp ==
  ASSUME NEW c \in ConnType
  PROVE  LET d == AskMore(c)
         IN /\ Owns(c, d) /\ d.app = c.app /\ ~d.rdPaused /\ ~d.rdBp
            /\ d.rdReady => c.rdReady
<1>1. CASE ~(c.rdPaused \/ c.rdBp)
  <2>1. AskMore(c) = c
    BY <1>1 DEF AskMore
  <2> QED
    BY <1>1, <2>1 DEF Owns, Lifts
<1>2. CASE c.rdPaused \/ c.rdBp
  <2> DEFINE q == [c EXCEPT !.rdReady = FALSE, !.rdBp = FALSE, !.rdPaused = FALSE]
             w == WakeReadTask(q)
  <2>1. q \in ConnType
    BY ZenonT(60) DEF ConnType
  <2>2. /\ q.cfg = c.cfg /\ q.phase = c.phase /\ q.manner = c.manner /\ q.err = c.err
        /\ q.handle = c.handle /\ q.dropped = c.dropped /\ q.rdEof = c.rdEof
        /\ q.wrPaused = c.wrPaused /\ q.wrSend = c.wrSend /\ q.wrBp = c.wrBp /\ q.wr = c.wr
        /\ q.iops = c.iops /\ q.prod = c.prod /\ q.prodWoken = c.prodWoken
        /\ q.wrWaiter = c.wrWaiter /\ q.ioWoken = c.ioWoken /\ q.rdTask = c.rdTask
        /\ q.wrTask = c.wrTask /\ q.app = c.app /\ ~q.rdReady /\ ~q.rdBp /\ ~q.rdPaused
    BY DEF ConnType
  <2> HIDE DEF q
  <2>3. WakeOnly(q, w) /\ (q.rdTask => w.ioWoken)
    BY <2>1, WakeReadTaskOp
  <2>4. AskMore(c) = w
    BY <1>2 DEF AskMore, q
  <2> HIDE DEF w
  <2> QED
    BY <2>2, <2>3, <2>4 DEF WakeOnly, Owns, Lifts
<1> QED
  BY <1>1, <1>2

LEMMA ResumeReadTaskOp ==
  ASSUME NEW c \in ConnType, c.phase = Active => ~c.rdBp
  PROVE  /\ Owns(c, ResumeReadTask(c)) /\ ResumeReadTask(c).app = c.app
         /\ c.rdTask \/ c.ioWoken => ResumeReadTask(c).ioWoken
<1> DEFINE q == [c EXCEPT !.rdPaused = FALSE]
           w == WakeReadTask(q)
<1>1. q \in ConnType
  BY DEF ConnType
<1>2. /\ q.cfg = c.cfg /\ q.phase = c.phase /\ q.manner = c.manner /\ q.err = c.err
      /\ q.handle = c.handle /\ q.dropped = c.dropped /\ q.rdEof = c.rdEof
      /\ q.wrPaused = c.wrPaused /\ q.wrSend = c.wrSend /\ q.wrBp = c.wrBp /\ q.wr = c.wr
      /\ q.iops = c.iops /\ q.prod = c.prod /\ q.prodWoken = c.prodWoken
      /\ q.wrWaiter = c.wrWaiter /\ q.ioWoken = c.ioWoken /\ q.rdTask = c.rdTask
      /\ q.wrTask = c.wrTask /\ q.app = c.app /\ q.rdBp = c.rdBp
  BY DEF ConnType
<1> HIDE DEF q
<1>3. WakeOnly(q, w) /\ (q.rdTask => w.ioWoken)
  BY <1>1, WakeReadTaskOp
<1>4. ResumeReadTask(c) = w
  BY DEF ResumeReadTask, q
<1> HIDE DEF w
<1> QED
  BY <1>2, <1>3, <1>4 DEF WakeOnly, Owns, Lifts

LEMMA OwnsTwice ==
  ASSUME NEW c, NEW d, NEW e, Owns(c, d), Owns(d, e)
  PROVE  Owns(c, e)
BY DEF Owns, Lifts

\* What a poll of the owner does: all but AppInv is kept, and AppInv holds after it.
Polls(c, d) == Turns(c, d) /\ AppInv(d)

LEMMA PollReadMoreOp == ASSUME NEW c \in ConnType PROVE Polls(c, PollReadMore(c))
<1> DEFINE m == AskMore(c)
<1>1. /\ Owns(c, m) /\ ~m.rdPaused /\ ~m.rdBp /\ (m.rdReady => c.rdReady)
  BY AskMoreOp
<1>2. m \in ConnType
  BY <1>1 DEF Owns
<1> HIDE DEF m
<1>3. CASE IsPeerGone(c) \/ (c.rdEof /\ ~c.rdReady)
  BY <1>3, ResolveOp, OwnsTurns DEF PollReadMore, Polls
<1>4. CASE ~(IsPeerGone(c) \/ (c.rdEof /\ ~c.rdReady)) /\ c.rdReady
  <2>1. PollReadMore(c) = Resolve(m)
    BY <1>4 DEF PollReadMore, m
  <2> QED
    BY <1>1, <1>2, <2>1, ResolveOp, OwnsTwice, OwnsTurns DEF Polls
<1>5. CASE ~(IsPeerGone(c) \/ (c.rdEof /\ ~c.rdReady)) /\ ~c.rdReady
  <2> DEFINE d == Await(m, "read")
  <2>1. PollReadMore(c) = d
    BY <1>5 DEF PollReadMore, m
  <2>2. /\ Owns(m, d) /\ d.app = "read" /\ d.dspTask /\ d.rdReady = m.rdReady
        /\ d.rdPaused = m.rdPaused /\ d.rdBp = m.rdBp
    BY <1>2, AwaitOp DEF Waits
  <2> HIDE DEF d
  <2>3. Owns(c, d)
    BY <1>1, <2>2, OwnsTwice
  <2>4. ~IsPeerGone(d) /\ ~d.rdEof
    BY <1>5, <2>3 DEF Owns, IsPeerGone, IsTerminating
  <2>5. AppInv(d)
    BY <1>1, <1>5, <2>2, <2>4 DEF AppInv
  <2> QED
    BY <2>1, <2>3, <2>5, OwnsTurns DEF Polls
<1> QED
  BY <1>3, <1>4, <1>5

LEMMA PollReadNotifyOp == ASSUME NEW c \in ConnType PROVE Polls(c, PollReadNotify(c))
<1> DEFINE x == c.rdNotify /\ ~c.rdNotified
           q == [c EXCEPT !.rdNotify = x, !.rdNotified = FALSE]
           n == [c EXCEPT !.rdNotify = TRUE]
           m == AskMore(n)
<1>1. PollReadNotify(c) = IF IsPeerGone(c) THEN Resolve(c)
                          ELSE IF c.rdEof \/ c.rdNotified THEN Resolve(q)
                          ELSE Await(m, "notify")
  BY DEF PollReadNotify
<1>2. x \in BOOLEAN
  OBVIOUS
<1> HIDE DEF x
<1>3. q \in ConnType
  BY <1>2, Zenon DEF ConnType
<1>4. Owns(c, q)
  BY <1>3 DEF ConnType, Owns, Lifts
<1>5. n \in ConnType
  BY DEF ConnType
<1>6. Owns(c, n)
  BY <1>5 DEF ConnType, Owns, Lifts
<1> HIDE DEF q, n
<1>7. Owns(c, m) /\ m \in ConnType
  BY <1>5, <1>6, AskMoreOp, OwnsTwice DEF Owns
<1> HIDE DEF m
<1>8. Owns(m, Await(m, "notify")) /\ Await(m, "notify").app = "notify"
  BY <1>7, AwaitOp DEF Waits
<1>9. Owns(c, Await(m, "notify")) /\ AppInv(Await(m, "notify"))
  BY <1>7, <1>8, OwnsTwice DEF AppInv
<1>10. Owns(c, Resolve(c)) /\ AppInv(Resolve(c))
  BY ResolveOp
<1>11. Owns(c, Resolve(q)) /\ AppInv(Resolve(q))
  BY <1>3, <1>4, ResolveOp, OwnsTwice
<1> QED
  BY <1>1, <1>9, <1>10, <1>11, OwnsTurns DEF Polls

\* Write backpressure is released only if nobody waits for it.
LEMMA ReleasedOp ==
  ASSUME NEW c \in ConnType, NEW x \in BOOLEAN, WriteReady(c)
  PROVE  LET d == [c EXCEPT !.wrBp = FALSE, !.wrFlush = x]
         IN Turns(c, d) /\ d.app = c.app
<1> DEFINE d == [c EXCEPT !.wrBp = FALSE, !.wrFlush = x]
<1>1. d \in ConnType
  BY Zenon DEF ConnType
<1>2. /\ d.cfg = c.cfg /\ d.phase = c.phase /\ d.manner = c.manner /\ d.err = c.err
      /\ d.handle = c.handle /\ d.dropped = c.dropped /\ d.rdEof = c.rdEof
      /\ d.wrPaused = c.wrPaused /\ d.wrSend = c.wrSend /\ d.wr = c.wr
      /\ d.iops = c.iops /\ d.prod = c.prod /\ d.prodWoken = c.prodWoken
      /\ d.wrWaiter = c.wrWaiter /\ d.ioWoken = c.ioWoken /\ d.rdTask = c.rdTask
      /\ d.wrTask = c.wrTask /\ d.app = c.app /\ d.rdBp = c.rdBp /\ d.rdPaused = c.rdPaused
  BY DEF ConnType
<1> HIDE DEF d
<1>3. ProdInv(c) => ProdInv(d)
  BY <1>2 DEF ProdInv
<1>4. PhaseInv(c) /\ c.app # "gone" => PhaseInv(d) /\ (d.phase = Active => Lifts(c, d))
  BY <1>2 DEF PhaseInv, Lifts
<1>5. c.phase \in 0..3 /\ c.manner \in 0..2
  BY ConnFields
<1>6. Turns(c, d) /\ d.app = c.app
  BY <1>1, <1>2, <1>3, <1>4, <1>5 DEF Turns, Mild, SendInv
<1> QED
  BY <1>6 DEF d

LEMMA PollReadPauseOp == ASSUME NEW c \in ConnType PROVE Polls(c, PollReadPause(c))
<1> DEFINE w == WakeReadTask(c)
           q == [w EXCEPT !.rdPaused = TRUE]
           p == IF c.rdPaused THEN c ELSE q
           r == Await(p, "pause")
           idle == [r EXCEPT !.app = "idle"]
           rel == [r EXCEPT !.wrBp = FALSE]
           full == IsPeerGone(c) \/ (c.wrBp /\ c.wr > WrHalf(c))
<1>1. PollReadPause(c) = IF full THEN idle ELSE rel
  BY DEF PollReadPause
<1>2. WakeOnly(c, w) /\ w \in ConnType
  BY WakeReadTaskOp DEF WakeOnly
<1> HIDE DEF w
<1>3. q \in ConnType
  BY <1>2 DEF ConnType
<1>4. Owns(w, q)
  BY <1>2, <1>3 DEF ConnType, Owns, Lifts
<1> HIDE DEF q
<1>5. Owns(c, w) /\ Owns(c, c)
  BY <1>2 DEF WakeOnly, Owns, Lifts
<1>6. Owns(c, p) /\ p \in ConnType
  BY <1>4, <1>5, OwnsTwice DEF Owns
<1> HIDE DEF p
<1>7. Owns(p, r) /\ r.app = "pause"
  BY <1>6, AwaitOp DEF Waits
<1> HIDE DEF r
<1>8. Owns(c, r) /\ r \in ConnType
  BY <1>6, <1>7, OwnsTwice DEF Owns
<1>9. Owns(c, idle) /\ AppInv(idle)
  <2>1. idle = Resolve(r)
    BY DEF Resolve
  <2> QED
    BY <1>8, <2>1, ResolveOp, OwnsTwice
<1>10. ASSUME ~full PROVE Turns(c, rel) /\ AppInv(rel)
  <2>1. c.wr \in Nat /\ WrHalf(c) \in Nat
    BY ConnFields, Half
  <2>2. r.cfg = c.cfg /\ r.wr = c.wr /\ r.wrBp = c.wrBp
    BY <1>8 DEF Owns
  <2>3. WriteReady(r)
    BY <1>10, <2>1, <2>2 DEF WriteReady, WrHalf
  <2>4. rel = [r EXCEPT !.wrBp = FALSE, !.wrFlush = r.wrFlush] /\ r.wrFlush \in BOOLEAN
    BY <1>8 DEF ConnType
  <2>5. Turns(r, rel) /\ rel.app = "pause"
    <3> DEFINE x == r.wrFlush
    <3> HIDE DEF x, rel
    <3>1. Turns(r, [r EXCEPT !.wrBp = FALSE, !.wrFlush = x])
          /\ [r EXCEPT !.wrBp = FALSE, !.wrFlush = x].app = r.app
      BY <1>8, <2>3, <2>4, ReleasedOp, Zenon DEF x
    <3> QED
      BY <1>7, <2>4, <3>1 DEF x
  <2> HIDE DEF rel
  <2>6. Turns(c, r)
    BY <1>8, OwnsTurns
  <2> QED
    BY <2>5, <2>6, TurnsTwice DEF AppInv
<1> QED
  BY <1>1, <1>9, <1>10, OwnsTurns DEF Polls

LEMMA PollShutdownOp == ASSUME NEW c \in ConnType PROVE Polls(c, PollShutdown(c))
<1> DEFINE s == StartShutdown(c)
           r == IF s.rdPaused THEN ResumeReadTask(s) ELSE s
           d == Await(r, "shutdown")
<1>1. PollShutdown(c) = IF IsClosed(c) THEN Resolve(c) ELSE d
  BY DEF PollShutdown
<1>2. Grows(c, s) /\ s.phase # Active /\ s \in ConnType
  BY StartShutdownOp DEF Grows, Advances
<1> HIDE DEF s
<1>3. Turns(c, s)
  BY <1>2, GrowsTurns
<1>4. Owns(s, s)
  BY <1>2 DEF Owns
<1>5. Owns(s, r) /\ r \in ConnType
  BY <1>2, <1>4, ResumeReadTaskOp DEF Owns
<1> HIDE DEF r
<1>6. Owns(r, d) /\ d.app = "shutdown"
  BY <1>5, AwaitOp DEF Waits
<1> HIDE DEF d
<1>7. Turns(s, d)
  BY <1>2, <1>5, <1>6, OwnsTwice, OwnsTurns
<1>8. Turns(c, d) /\ AppInv(d)
  BY <1>3, <1>6, <1>7, TurnsTwice DEF AppInv
<1>9. Turns(c, Resolve(c)) /\ AppInv(Resolve(c))
  BY ResolveOp, OwnsTurns
<1> QED
  BY <1>1, <1>8, <1>9 DEF Polls

\* poll_flush(): the output that is left is written or scheduled, and the owner
\* waits only for output.
LEMMA PollFlushOp ==
  ASSUME NEW a, CoreInv(a), a.io.app # "gone", NEW full \in BOOLEAN
  PROVE  CoreInv(PollFlush(a, full)) /\ AppInv(PollFlush(a, full).io)
<1> DEFINE b == Consolidate(a, FALSE)
           c == b.io
           what == IF full THEN "fullflush" ELSE "flush"
           off == [c EXCEPT !.wrBp = FALSE, !.wrFlush = FALSE]
           done == Resolve(off)
           fl == [c EXCEPT !.wrFlush = TRUE]
           bp == [c EXCEPT !.wrBp = TRUE]
           high == (c.wrBp /\ c.wr > WrHalf(c)) \/ (~c.wrBp /\ c.wr >= c.cfg.wrHigh)
           d == IF ConsolidateFails(c) THEN Resolve(c)
                ELSE IF IsPeerGone(c) THEN IF c.wr = 0 /\ c.wrFlush THEN done ELSE Resolve(c)
                ELSE IF c.wr > 0 /\ full THEN Await(fl, what)
                ELSE IF high THEN Await(bp, what)
                ELSE done
<1>1. PollFlush(a, full) = [b EXCEPT !.io = d]
  BY Zenon DEF PollFlush
<1>2. a \in AllType /\ HandleInv(a.io)
  BY DEF CoreInv
<1>3. Keeps(a, b)
  BY <1>2, ConsolidateOp, Zenon
<1>4. CoreInv(b)
  BY <1>3, KeepsCore
<1> HIDE DEF b
<1>5. b.io \in ConnType /\ b.io.app # "gone"
  BY <1>3, <1>4, AllFields DEF CoreInv, Keeps, Flow, Moves
<1>6. c \in ConnType
  BY <1>5
<1> HIDE DEF c
<1>7. c.wr \in Nat /\ WrHalf(c) \in Nat /\ c.cfg.wrHigh \in Nat \ {0} /\ WrHalf(c) < c.cfg.wrHigh
  BY <1>6, ConnFields, Half
<1>8. Polls(c, Resolve(c))
  BY <1>6, ResolveOp, OwnsTurns DEF Polls
<1>9. ASSUME WriteReady(c) PROVE Polls(c, done)
  <2>1. Turns(c, off)
    BY <1>6, <1>9, ReleasedOp, Zenon
  <2> HIDE DEF off
  <2>2. off \in ConnType
    BY <2>1 DEF Turns
  <2>3. Turns(off, done) /\ AppInv(done)
    BY <2>2, ResolveOp, OwnsTurns
  <2> HIDE DEF done
  <2> QED
    BY <1>6, <2>1, <2>3, TurnsTwice DEF Polls
<1>10. ASSUME ~IsPeerGone(c), c.wr > 0, full PROVE Polls(c, Await(fl, what))
  <2>1. fl \in ConnType
    BY <1>6 DEF ConnType
  <2>2. Owns(c, fl) /\ fl.wrFlush
    BY <1>6, <2>1 DEF ConnType, Owns, Lifts
  <2> HIDE DEF fl
  <2> DEFINE e == Await(fl, "fullflush")
  <2>3. Owns(fl, e) /\ e.app = "fullflush" /\ e.dspTask /\ e.wrFlush = fl.wrFlush
    BY <2>1, AwaitOp DEF Waits
  <2> HIDE DEF e
  <2>4. Owns(c, e)
    BY <2>2, <2>3, OwnsTwice
  <2>5. AppInv(e)
    BY <1>10, <2>2, <2>3, <2>4 DEF AppInv, Owns, IsPeerGone, IsTerminating
  <2> QED
    BY <1>6, <1>10, <2>4, <2>5, OwnsTurns DEF Polls, e
<1>11. ASSUME ~IsPeerGone(c), ~(c.wr > 0 /\ full), high PROVE Polls(c, Await(bp, what))
  <2>1. bp \in ConnType
    BY <1>6 DEF ConnType
  <2>2. Grows(c, bp) /\ bp.wrBp /\ bp.wr = c.wr /\ bp.cfg = c.cfg
    BY <1>6, <2>1, ConnFields DEF ConnType, Grows, Advances, Mild, Live, IsAborted, IsClosed,
       IsTerminating, IsPeerGone, SendInv, AppInv, ProdInv, PhaseInv, WriteReady, WrHalf
  <2>3. bp.phase = c.phase /\ bp.manner = c.manner
    BY <1>6 DEF ConnType
  <2> HIDE DEF bp
  <2>4. ~full /\ c.wr > WrHalf(c)
    BY <1>7, <1>11
  <2> DEFINE e == Await(bp, "flush")
  <2>5. Owns(bp, e) /\ e.app = "flush" /\ e.dspTask
    BY <2>1, AwaitOp DEF Waits
  <2> HIDE DEF e
  <2>6. Turns(c, e)
    BY <1>6, <2>1, <2>2, <2>5, GrowsTurns, OwnsTurns, TurnsTwice
  <2>7. e.wrBp /\ e.wr = c.wr /\ e.cfg = c.cfg /\ ~IsPeerGone(e)
    BY <1>11, <2>2, <2>3, <2>5 DEF Owns, IsPeerGone, IsTerminating
  <2>8. AppInv(e)
    BY <2>4, <2>5, <2>7 DEF AppInv, WrHalf
  <2> QED
    BY <2>4, <2>6, <2>8 DEF Polls, e
<1>12. ~high => WriteReady(c)
  BY <1>7 DEF WriteReady
<1>13. IsPeerGone(c) => WriteReady(c)
  BY DEF WriteReady
<1>14. Polls(c, d)
  <2> HIDE DEF done, high, what, fl, bp
  <2>1. CASE IsPeerGone(c)
    BY <1>8, <1>9, <1>13, <2>1, Zenon
  <2>2. CASE ~IsPeerGone(c) /\ c.wr > 0 /\ full
    BY <1>8, <1>10, <2>2, Zenon
  <2>3. CASE ~IsPeerGone(c) /\ ~(c.wr > 0 /\ full)
    BY <1>8, <1>9, <1>11, <1>12, <2>3, Zenon
  <2> QED
    BY <2>1, <2>2, <2>3
<1> HIDE DEF d
<1>15. Turns(b.io, d) /\ AppInv(d)
  BY <1>14 DEF Polls, c
<1>16. CoreInv([b EXCEPT !.io = d]) /\ [b EXCEPT !.io = d].io = d
  BY <1>4, <1>5, <1>15, TurnsCore
<1> QED
  BY <1>1, <1>15, <1>16

\* A poll of the owner, whatever it awaits.
LEMMA OperationOp ==
  ASSUME NEW a, CoreInv(a), a.io.app # "gone", NEW what \in Waits
  PROVE  CoreInv(Operation(a, what)) /\ AppInv(Operation(a, what).io)
<1>1. a.io \in ConnType
  BY AllFields DEF CoreInv
<1>2. ASSUME NEW d, Polls(a.io, d)
      PROVE  CoreInv([a EXCEPT !.io = d]) /\ AppInv([a EXCEPT !.io = d].io)
  BY <1>2, TurnsCore DEF Polls
<1>3. CASE what = "read"
  BY <1>1, <1>2, <1>3, PollReadMoreOp DEF Operation
<1>4. CASE what = "notify"
  BY <1>1, <1>2, <1>4, PollReadNotifyOp DEF Operation
<1>5. CASE what = "pause"
  BY <1>1, <1>2, <1>5, PollReadPauseOp DEF Operation
<1>6. CASE what = "shutdown"
  BY <1>1, <1>2, <1>6, PollShutdownOp DEF Operation
<1>7. /\ CoreInv(PollFlush(a, FALSE)) /\ AppInv(PollFlush(a, FALSE).io)
      /\ CoreInv(PollFlush(a, TRUE)) /\ AppInv(PollFlush(a, TRUE).io)
  BY PollFlushOp, Zenon
<1>8. CASE what = "flush"
  <2>1. Operation(a, what) = PollFlush(a, FALSE)
    BY <1>8 DEF Operation
  <2> QED
    BY <1>7, <2>1, Zenon
<1>9. CASE what = "fullflush"
  <2>1. Operation(a, what) = PollFlush(a, TRUE)
    BY <1>9 DEF Operation
  <2> QED
    BY <1>7, <2>1, Zenon
<1> QED
  BY <1>3, <1>4, <1>5, <1>6, <1>8, <1>9 DEF Waits

LEMMA BeginKeeps == ASSUME Inv, NEW what \in use.ops, use \in Uses, Begin(what) PROVE Inv'
<1>1. what \in Waits /\ io.app # "gone" /\ All.io = io
  BY AllParts DEF Begin
<1>2. CoreInv(Operation(All, what)) /\ AppInv(Operation(All, what).io)
  BY <1>1, OperationOp DEF Inv
<1> QED
  BY <1>2, Becomes DEF Begin

LEMMA AppPollKeeps == ASSUME Inv, AppPoll PROVE Inv'
<1> DEFINE d == [io EXCEPT !.appWoken = FALSE]
           a == [All EXCEPT !.io = d]
<1>1. All.io = io /\ io \in ConnType /\ CoreInv(All)
  BY AllParts DEF Inv
<1>2. io.app \in Waits /\ io.app # "gone"
  BY DEF AppPoll, Waits
<1>3. [All EXCEPT !.io.appWoken = FALSE] = a
  BY DEF All
<1>4. ASSUME NEW c \in ConnType
      PROVE  Owns(c, [c EXCEPT !.appWoken = FALSE]) /\ [c EXCEPT !.appWoken = FALSE].app = c.app
  <2>1. [c EXCEPT !.appWoken = FALSE] \in ConnType
    BY DEF ConnType
  <2> QED
    BY <2>1 DEF ConnType, Owns, Lifts
<1>5. Turns(All.io, d) /\ d.app = io.app
  BY <1>1, <1>4, OwnsTurns
<1> HIDE DEF d
<1>6. CoreInv(a) /\ a.io.app # "gone"
  BY <1>1, <1>2, <1>5, TurnsCore
<1> HIDE DEF a
<1>7. CoreInv(Operation(a, io.app)) /\ AppInv(Operation(a, io.app).io)
  BY <1>2, <1>6, OperationOp
<1> QED
  BY <1>3, <1>7, Becomes DEF AppPoll

\* A step that changes the connection alone.
LEMMA IoStep ==
  ASSUME Inv, NEW d, io' = d, UNCHANGED <<st, sock, total>>, CoreInv([All EXCEPT !.io = d]), AppInv(d)
  PROVE  Inv'
<1>1. All' = [All EXCEPT !.io = d]
  BY DEF All
<1> QED
  BY <1>1 DEF Inv

LEMMA TurnsStep ==
  ASSUME Inv, NEW d, io' = d, UNCHANGED <<st, sock, total>>, Turns(io, d), AppInv(d), io.app # "gone"
  PROVE  Inv'
<1>1. All.io = io /\ CoreInv(All)
  BY AllParts DEF Inv
<1>2. CoreInv([All EXCEPT !.io = d])
  BY <1>1, TurnsCore
<1> QED
  BY <1>2, IoStep

LEMMA GrowsStep ==
  ASSUME Inv, NEW d, io' = d, UNCHANGED <<st, sock, total>>, Grows(io, d)
  PROVE  Inv'
<1>1. All.io = io /\ CoreInv(All) /\ All \in AllType /\ All.st = st
  BY AllParts DEF Inv
<1> DEFINE b == [All EXCEPT !.io = d]
<1>2. /\ Flow(All, b) /\ b.io = d /\ b.st = All.st
      /\ PausedInv(All.io) => PausedInv(d)
      /\ HandleInv(All.io) => HandleInv(d)
      /\ WrInv(All) => WrInv(b)
  BY <1>1, GrowsIo
<1> HIDE DEF b
<1>3. Keeps(All, b)
  BY <1>1, <1>2 DEF Keeps, CoreInv
<1>4. CoreInv(b) /\ AppInv(d)
  BY <1>1, <1>2, <1>3, KeepsCore DEF Inv
<1> QED
  BY <1>4, IoStep DEF b

LEMMA AppCancelKeeps == ASSUME Inv, AppCancel PROVE Inv'
<1>1. io \in ConnType /\ io.app # "gone"
  BY AllParts DEF AppCancel, Waits
<1>2. Turns(io, Resolve(io)) /\ AppInv(Resolve(io))
  BY <1>1, ResolveOp, OwnsTurns
<1> QED
  BY <1>1, <1>2, TurnsStep DEF AppCancel

LEMMA CloseKeeps == ASSUME Inv, Close PROVE Inv'
BY AllParts, StartShutdownOp, GrowsStep DEF Close

LEMMA ElapseKeeps == ASSUME Inv, Elapse PROVE Inv'
<1>1. ASSUME NEW c \in ConnType
      PROVE  Grows(c, [c EXCEPT !.deadline = "elapsed", !.ioWoken = TRUE])
  <2> DEFINE d == [c EXCEPT !.deadline = "elapsed", !.ioWoken = TRUE]
  <2>1. d \in ConnType
    <3>1. "elapsed" \in {"none", "armed", "elapsed"}
      OBVIOUS
    <3> QED
      BY <3>1, Zenon DEF ConnType
  <2>2. Grows(c, d)
    BY <2>1, ConnFields DEF ConnType, Grows, Advances, Mild, Live, IsAborted, IsClosed,
       IsTerminating, IsPeerGone, SendInv, AppInv, ProdInv, PhaseInv, WriteReady, WrHalf
  <2> QED
    BY <2>2
<1> QED
  BY <1>1, AllParts, GrowsStep DEF Elapse

LEMMA ProdPollKeeps == ASSUME Inv, ProdPoll PROVE Inv'
<1>1. All.io = io /\ CoreInv(All) /\ io \in ConnType /\ AppInv(io) /\ All \in AllType
  BY AllParts DEF Inv
<1> DEFINE c == io
           rdy == WriteReady(c)
           p == IF rdy THEN "idle" ELSE "wait"
           n == ~rdy
           d == [c EXCEPT !.prodWoken = FALSE, !.prod = p, !.wrWaiter = n]
<1>2. io' = d /\ UNCHANGED <<st, sock, total>>
  BY Zenon DEF ProdPoll
<1>3. c \in ConnType
  BY <1>1
<1> HIDE DEF c
<1>4. p \in {"idle", "wait"} /\ n \in BOOLEAN /\ (p = "wait" => ~WriteReady(c) /\ n)
  OBVIOUS
<1> HIDE DEF p, n
<1>5. d \in ConnType
  BY <1>3, <1>4, ZenonT(60) DEF ConnType
<1>6. /\ d.cfg = c.cfg /\ d.phase = c.phase /\ d.manner = c.manner /\ d.err = c.err
      /\ d.handle = c.handle /\ d.dropped = c.dropped /\ d.rdPaused = c.rdPaused
      /\ d.rdBp = c.rdBp /\ d.rdEof = c.rdEof /\ d.rdReady = c.rdReady
      /\ d.wrPaused = c.wrPaused /\ d.wrFlush = c.wrFlush /\ d.wrSend = c.wrSend
      /\ d.wrBp = c.wrBp /\ d.wr = c.wr /\ d.iops = c.iops /\ d.ioWoken = c.ioWoken
      /\ d.rdTask = c.rdTask /\ d.wrTask = c.wrTask /\ d.app = c.app
      /\ d.appWoken = c.appWoken /\ d.dspTask = c.dspTask /\ d.prod = p /\ d.wrWaiter = n
  BY <1>3 DEF ConnType
<1> HIDE DEF d
<1>7. ProdInv(d)
  BY <1>4, <1>6 DEF ProdInv, WriteReady, IsPeerGone, IsTerminating, WrHalf
<1>8. Live(d) = Live(c) /\ IsAborted(d) = IsAborted(c)
  BY <1>6 DEF Live, IsAborted, IsClosed, IsTerminating
<1>9. AppInv(d)
  BY <1>1, <1>6 DEF AppInv, IsPeerGone, IsTerminating, WrHalf, c
<1> DEFINE b == [All EXCEPT !.io = d]
<1>10. b \in AllType /\ b.io = d /\ b.st = All.st /\ b.sock = All.sock /\ b.total = All.total
  BY <1>1, <1>5 DEF AllType
<1> HIDE DEF b
<1>11. PhaseInv(d) /\ SendInv(d) /\ HandleInv(d) /\ PausedInv(d) /\ RdReg(d) /\ WrReg(d)
  BY <1>1, <1>6, <1>8 DEF CoreInv, PhaseInv, SendInv, HandleInv, PausedInv, RdReg, WrReg, c
<1>12. Ledger(b) /\ DetachInv(b) /\ RdInv(b) /\ WrInv(b)
  BY <1>1, <1>6, <1>8, <1>10 DEF CoreInv, Ledger, DetachInv, RdInv, WrInv, c
<1>13. CoreInv(b)
  BY <1>1, <1>7, <1>10, <1>11, <1>12 DEF CoreInv
<1> QED
  BY <1>2, <1>9, <1>13, IoStep DEF b

\* Input is taken, and the readiness is cleared or left.
LEMMA TakesKeeps ==
  ASSUME Inv, NEW n \in Nat, io.app = "idle", n <= io.rd, NEW b \in BOOLEAN,
         io' = UpdateReadDestination([io EXCEPT !.rd = io.rd - n, !.rdReady = b]),
         UNCHANGED <<st, sock, total>>
  PROVE  Inv'
<1>1. io \in ConnType /\ io.app = "idle" /\ n <= io.rd
  BY AllParts
<1> DEFINE m == io.rd - n
           c == [io EXCEPT !.rd = m, !.rdReady = b]
           d == [c EXCEPT !.rdReady = FALSE, !.rdBp = FALSE]
           r == ResumeReadTask(d)
<1>2. ASSUME NEW x \in ConnType, NEW y \in Nat
      PROVE  /\ Owns(x, [x EXCEPT !.rd = y, !.rdReady = b])
             /\ [x EXCEPT !.rd = y, !.rdReady = b].app = x.app
  <2>1. [x EXCEPT !.rd = y, !.rdReady = b] \in ConnType
    BY DEF ConnType
  <2> QED
    BY <2>1 DEF ConnType, Owns, Lifts
<1>3. m \in Nat
  BY <1>1, ConnFields
<1>4. \/ UpdateReadDestination(c) \in {c, r}
      \/ UpdateReadDestination(c) = d /\ ~c.rdPaused
  BY DEF UpdateReadDestination
<1> HIDE DEF m
<1>5. Owns(io, c) /\ c.app = "idle" /\ c \in ConnType
  BY <1>1, <1>2, <1>3 DEF Owns
<1>6. io' = UpdateReadDestination(c) /\ UNCHANGED <<st, sock, total>>
  BY DEF m
<1> HIDE DEF c
<1>7. d \in ConnType
  BY <1>5, Zenon DEF ConnType
<1>8. /\ d.cfg = c.cfg /\ d.phase = c.phase /\ d.manner = c.manner /\ d.err = c.err
      /\ d.handle = c.handle /\ d.dropped = c.dropped /\ d.rdEof = c.rdEof
      /\ d.wrPaused = c.wrPaused /\ d.wrSend = c.wrSend /\ d.wrBp = c.wrBp /\ d.wr = c.wr
      /\ d.iops = c.iops /\ d.prod = c.prod /\ d.prodWoken = c.prodWoken
      /\ d.wrWaiter = c.wrWaiter /\ d.ioWoken = c.ioWoken /\ d.rdTask = c.rdTask
      /\ d.wrTask = c.wrTask /\ d.app = c.app /\ ~d.rdBp /\ d.rdPaused = c.rdPaused
  BY <1>5 DEF ConnType
<1> HIDE DEF d
<1>9. ~c.rdPaused => Owns(c, d)
  BY <1>7, <1>8 DEF Owns, Lifts
<1>10. Owns(c, r) /\ r.app = d.app
  <2>1. Owns(d, r) /\ r.app = d.app /\ (d.rdTask \/ d.ioWoken => r.ioWoken)
    BY <1>7, <1>8, ResumeReadTaskOp
  <2>2. c.phase = Active /\ (c.rdBp => c.rdPaused) => Lifts(c, r)
    BY <1>8, <2>1 DEF Owns, Lifts
  <2> HIDE DEF r
  <2> QED
    BY <1>8, <2>1, <2>2 DEF Owns
<1> HIDE DEF r
<1> DEFINE e == UpdateReadDestination(c)
<1>11. Owns(c, c)
  BY <1>5 DEF Owns, Lifts
<1>12. Owns(io, e) /\ e.app = "idle"
  BY <1>4, <1>5, <1>8, <1>9, <1>10, <1>11, OwnsTwice
<1> HIDE DEF e
<1>13. Turns(io, e) /\ AppInv(e) /\ io.app # "gone"
  BY <1>1, <1>12, OwnsTurns DEF AppInv
<1> QED
  BY <1>6, <1>13, TurnsStep DEF e

LEMMA DecodeKeeps == ASSUME Inv, NEW n \in Nat, Decode(n) PROVE Inv'
BY TakesKeeps DEF Decode

LEMMA WithReadDstKeeps == ASSUME Inv, NEW n \in Nat, WithReadDst(n) PROVE Inv'
<1>1. io \in ConnType /\ io.rdReady \in BOOLEAN
  BY AllParts DEF ConnType
<1>2. [io EXCEPT !.rd = io.rd - n] = [io EXCEPT !.rd = io.rd - n, !.rdReady = io.rdReady]
  BY <1>1 DEF ConnType
<1> QED
  BY <1>1, <1>2, TakesKeeps DEF WithReadDst

-----------------------------------------------------------------------------
(* The ends of a connection *)

\* What a teardown leaves: nothing is alive and nobody waits.
LEMMA GoneCore ==
  ASSUME NEW a, CoreInv(a), NEW d \in ConnType, IsAborted(d), ProdInv(d), PhaseInv(d), SendInv(d),
         d.wr = 0, d.manner = ForceClosed \/ (a.io.wr = 0 /\ (a.io.err => d.err)),
         d.manner # ForceClosed => a.io.manner # ForceClosed,
         d.manner = ForceClosed => a.io.manner = ForceClosed \/ a.io.phase # Stopped,
         a.io.phase = Stopped => d.phase = Stopped
  PROVE  CoreInv([a EXCEPT !.io = d])
<1> DEFINE b == [a EXCEPT !.io = d]
<1>1. a \in AllType
  BY DEF CoreInv
<1>2. b \in AllType /\ b.io = d /\ b.st = a.st /\ b.sock = a.sock /\ b.total = a.total
  BY <1>1 DEF AllType
<1> HIDE DEF b
<1>3. Ledger(b)
  BY <1>2 DEF Ledger, CoreInv
<1>4. ~Live(d) /\ DetachInv(b)
  BY <1>2 DEF Live, DetachInv
<1>5. CoreInv(b)
  BY <1>2, <1>3, <1>4 DEF CoreInv, HandleInv, PausedInv, RdReg, WrReg, RdInv, WrInv
<1> QED
  BY <1>5 DEF b

\* force_close_connection()
LEMMA ForceCloseOp ==
  ASSUME NEW c \in ConnType, ~IsClosed(c)
  PROVE  LET d == ForceCloseConnection(c)
         IN /\ d \in ConnType /\ IsAborted(d) /\ d.wr = 0 /\ d.manner = ForceClosed
            /\ d.dropped = c.dropped
            /\ (AppInv(c) => AppInv(d)) /\ (ProdInv(c) => ProdInv(d))
            /\ (PhaseInv(c) => PhaseInv(d)) /\ (SendInv(c) => SendInv(d))
<1> DEFINE t == BeginTerminate(c, FALSE, ForceClosed)
           d == [t EXCEPT !.wr = 0]
<1>1. ForceCloseConnection(c) = d
  BY Zenon DEF ForceCloseConnection
<1>2. Advances(c, t) /\ t.manner = Larger(c.manner, ForceClosed)
  <2>1. ASSUME NEW e \in BOOLEAN
        PROVE  /\ Advances(c, BeginTerminate(c, e, ForceClosed))
               /\ BeginTerminate(c, e, ForceClosed).manner = Larger(c.manner, ForceClosed)
    BY BeginTerminateOp
  <2> QED
    BY <2>1, Zenon
<1> HIDE DEF t
<1>3. t \in ConnType /\ c.manner \in 0..2
  BY <1>2, ConnFields DEF Advances
<1>4. t.manner = ForceClosed
  BY <1>2, <1>3 DEF Larger
<1>5. d \in ConnType
  BY <1>3 DEF ConnType
<1>6. /\ d.manner = t.manner /\ d.phase = t.phase /\ d.dropped = t.dropped /\ d.wr = 0
      /\ d.wrSend = t.wrSend /\ d.iops = t.iops /\ d.app = t.app /\ d.appWoken = t.appWoken
      /\ d.prod = t.prod /\ d.prodWoken = t.prodWoken /\ d.rdBp = t.rdBp /\ d.rdPaused = t.rdPaused
  BY <1>3 DEF ConnType
<1> HIDE DEF d
<1>7. IsPeerGone(t) /\ IsAborted(d)
  BY <1>4, <1>6 DEF IsPeerGone, IsAborted, IsTerminating
<1>8. (AppInv(t) => AppInv(d)) /\ (ProdInv(t) => ProdInv(d))
  BY <1>6, <1>7 DEF AppInv, ProdInv, WriteReady
<1>9. (PhaseInv(t) => PhaseInv(d)) /\ (SendInv(t) => SendInv(d))
  BY <1>6 DEF PhaseInv, SendInv
<1>10. /\ d \in ConnType /\ IsAborted(d) /\ d.wr = 0 /\ d.manner = ForceClosed
       /\ d.dropped = c.dropped
       /\ (AppInv(c) => AppInv(d)) /\ (ProdInv(c) => ProdInv(d))
       /\ (PhaseInv(c) => PhaseInv(d)) /\ (SendInv(c) => SendInv(d))
  BY <1>2, <1>4, <1>5, <1>6, <1>7, <1>8, <1>9 DEF Advances
<1> QED
  BY <1>1, <1>10

LEMMA TerminateKeeps == ASSUME Inv, Terminate PROVE Inv'
<1> DEFINE d == ForceCloseConnection(io)
<1>1. /\ All.io = io /\ CoreInv(All) /\ io \in ConnType /\ AppInv(io)
      /\ ~IsClosed(io) /\ io.phase # Stopped
  BY AllParts DEF Inv, Terminate, IsClosed
<1>2. /\ d \in ConnType /\ IsAborted(d) /\ d.wr = 0 /\ d.manner = ForceClosed
      /\ (AppInv(io) => AppInv(d)) /\ (ProdInv(io) => ProdInv(d))
      /\ (PhaseInv(io) => PhaseInv(d)) /\ (SendInv(io) => SendInv(d))
  BY <1>1, ForceCloseOp
<1>3. io' = d /\ UNCHANGED <<st, sock, total>>
  BY DEF Terminate
<1> HIDE DEF d
<1>4. AppInv(d) /\ ProdInv(d) /\ PhaseInv(d) /\ SendInv(d)
  BY <1>1, <1>2 DEF CoreInv
<1>5. CoreInv([All EXCEPT !.io = d])
  BY <1>1, <1>2, <1>4, GoneCore
<1> QED
  BY <1>3, <1>4, <1>5, IoStep

LEMMA DropIoKeeps == ASSUME Inv, DropIo PROVE Inv'
<1> DEFINE c == IF io.wr = 0 THEN TerminateConnection(io, FALSE) ELSE ForceCloseConnection(io)
           d == [c EXCEPT !.app = "gone", !.dropped = TRUE, !.rd = 0, !.wr = 0]
<1>1. All.io = io /\ CoreInv(All) /\ io \in ConnType /\ AppInv(io) /\ All.sock = sock
  BY AllParts DEF Inv
<1>2. io' = d /\ UNCHANGED <<st, sock, total>>
  BY Zenon DEF DropIo
<1>3. ProdInv(io) /\ PhaseInv(io) /\ SendInv(io) /\ Ledger(All)
  BY <1>1 DEF CoreInv
<1>4. /\ c \in ConnType /\ IsAborted(c) /\ ProdInv(c) /\ PhaseInv(c)
      /\ c.manner = ForceClosed \/ (io.wr = 0 /\ (io.err => c.err))
      /\ c.manner # ForceClosed => io.manner # ForceClosed
      /\ c.manner = ForceClosed => io.manner = ForceClosed \/ io.phase # Stopped
      /\ io.phase = Stopped => c.phase = Stopped
  <2>1. CASE io.wr = 0
    <3> DEFINE t == TerminateConnection(io, FALSE)
    <3>1. Grows(io, t) /\ IsAborted(t)
      <4>1. ASSUME NEW e \in BOOLEAN
            PROVE  Grows(io, TerminateConnection(io, e)) /\ IsAborted(TerminateConnection(io, e))
        BY <1>1, <2>1, TerminateOp
      <4> QED
        BY <4>1, Zenon
    <3> HIDE DEF t
    <3>2. t \in ConnType
      BY <3>1 DEF Grows, Advances
    <3>3. /\ io.phase \in 0..3 /\ t.phase \in 0..3 /\ io.manner \in 0..2 /\ t.manner \in 0..2
      BY <1>1, <3>2, ConnFields
    <3>4. c = t
      BY <2>1, Zenon DEF t
    <3> HIDE DEF c
    <3> QED
      BY <1>3, <2>1, <3>1, <3>2, <3>3, <3>4 DEF Grows, Advances, Mild
  <2>2. CASE io.wr # 0
    <3> DEFINE t == ForceCloseConnection(io)
    <3>1. ~IsClosed(io) /\ io.phase # Stopped
      BY <1>1, <1>3, <2>2 DEF IsClosed, Ledger
    <3>2. /\ t \in ConnType /\ IsAborted(t) /\ t.manner = ForceClosed
          /\ ProdInv(t) /\ PhaseInv(t)
      BY <1>1, <1>3, <3>1, ForceCloseOp
    <3>3. c = t
      BY <2>2
    <3> HIDE DEF t, c
    <3> QED
      BY <3>1, <3>2, <3>3
  <2> QED
    BY <2>1, <2>2
<1> HIDE DEF c
<1>5. d \in ConnType
  <2>1. 0 \in Nat /\ "gone" \in Waits \cup {"idle", "gone"}
    OBVIOUS
  <2> QED
    BY <1>4, <2>1, Zenon DEF ConnType
<1>6. /\ d.app = "gone" /\ d.dropped /\ d.wr = 0 /\ d.phase = c.phase /\ d.manner = c.manner
      /\ d.err = c.err /\ d.prod = c.prod /\ d.prodWoken = c.prodWoken /\ d.rdBp = c.rdBp
      /\ d.rdPaused = c.rdPaused
  BY <1>4 DEF ConnType
<1> HIDE DEF d
<1>7. IsAborted(d) /\ AppInv(d) /\ SendInv(d) /\ PhaseInv(d)
  BY <1>4, <1>6 DEF IsAborted, IsClosed, IsTerminating, AppInv, SendInv, PhaseInv
<1>8. ProdInv(d)
  <2>1. IsPeerGone(c)
    BY <1>4 DEF IsAborted, IsClosed, IsPeerGone, IsTerminating
  <2> QED
    BY <1>4, <1>6, <2>1 DEF ProdInv, WriteReady
<1>9. CoreInv([All EXCEPT !.io = d])
  BY <1>1, <1>4, <1>5, <1>6, <1>7, <1>8, GoneCore
<1> QED
  BY <1>2, <1>7, <1>9, IoStep

-----------------------------------------------------------------------------
(* New output, and the peer *)

LEMMA EncodeKeeps == ASSUME Inv, NEW n \in Nat \ {0}, Encode(n) PROVE Inv'
<1> DEFINE m == io.wr + n
           k == total.accepted + n
           c == [io EXCEPT !.wr = m]
           t == [total EXCEPT !.accepted = k]
           a == [All EXCEPT !.io = c, !.total = t]
           b == Consolidate(a, FALSE)
<1>1. /\ All.io = io /\ All.st = st /\ All.sock = sock /\ All.total = total /\ All \in AllType
      /\ CoreInv(All) /\ AppInv(io) /\ io \in ConnType /\ total \in TotalType
      /\ st \in StreamType /\ sock \in SockType
  BY AllParts DEF Inv
<1>2. io.phase = Active /\ ~io.dropped
  BY DEF Encode
<1>3. Become(b)
  <2>1. [All EXCEPT !.io.wr = io.wr + n, !.total.accepted = total.accepted + n] = a
    BY DEF All
  <2>2. Become(Consolidate([All EXCEPT !.io.wr = io.wr + n, !.total.accepted = total.accepted + n], FALSE))
    BY <1>1, Zenon DEF Encode
  <2> QED
    BY <2>1, <2>2, Zenon
<1>4. io.wr \in Nat /\ total.accepted \in Nat /\ total.written \in Nat /\ io.manner = Graceful
  BY <1>1, <1>2, ConnFields DEF TotalType, CoreInv, PhaseInv
<1>5. m \in Nat /\ k \in Nat /\ m > io.wr
  BY <1>4
<1>6. c \in ConnType
  <2>1. ASSUME NEW x \in ConnType, NEW y \in Nat PROVE [x EXCEPT !.wr = y] \in ConnType
    BY DEF ConnType
  <2> HIDE DEF m
  <2> QED
    BY <1>1, <1>5, <2>1
<1>7. /\ c.cfg = io.cfg /\ c.phase = io.phase /\ c.manner = io.manner /\ c.err = io.err
      /\ c.handle = io.handle /\ c.dropped = io.dropped /\ c.rdPaused = io.rdPaused
      /\ c.rdBp = io.rdBp /\ c.rdEof = io.rdEof /\ c.rdReady = io.rdReady
      /\ c.wrPaused = io.wrPaused /\ c.wrFlush = io.wrFlush /\ c.wrSend = io.wrSend
      /\ c.wrBp = io.wrBp /\ c.wr = m /\ c.iops = io.iops /\ c.ioWoken = io.ioWoken
      /\ c.rdTask = io.rdTask /\ c.wrTask = io.wrTask /\ c.app = io.app
      /\ c.appWoken = io.appWoken /\ c.dspTask = io.dspTask /\ c.prod = io.prod
      /\ c.prodWoken = io.prodWoken /\ c.wrWaiter = io.wrWaiter
  BY <1>1 DEF ConnType
<1>8. t \in TotalType /\ t.written = total.written /\ t.accepted = k
  <2> HIDE DEF k
  <2> QED
    BY <1>1, <1>5 DEF TotalType
<1> HIDE DEF c, t
<1>9. a \in AllType /\ a.io = c /\ a.st = st /\ a.sock = sock /\ a.total = t
  BY <1>1, <1>6, <1>8 DEF AllType
<1> HIDE DEF a
<1>10. Live(c) = Live(io) /\ IsAborted(c) = IsAborted(io) /\ WrHalf(io) \in Nat
       /\ IsPeerGone(c) = IsPeerGone(io) /\ WrHalf(c) = WrHalf(io)
  BY <1>1, <1>7, Half DEF Live, IsAborted, IsClosed, IsTerminating, IsPeerGone, WrHalf
<1>11. AppInv(c)
  BY <1>1, <1>4, <1>5, <1>7, <1>10 DEF AppInv
<1>12. ProdInv(c) /\ PhaseInv(c) /\ SendInv(c) /\ HandleInv(c) /\ RdReg(c) /\ WrReg(c)
  <2>1. ProdInv(io) /\ PhaseInv(io) /\ SendInv(io) /\ HandleInv(io) /\ RdReg(io) /\ WrReg(io)
    BY <1>1 DEF CoreInv
  <2>2. ProdInv(c)
    BY <1>4, <1>5, <1>7, <1>10, <2>1 DEF ProdInv, WriteReady
  <2> QED
    BY <1>7, <1>10, <2>1, <2>2 DEF PhaseInv, SendInv, HandleInv, RdReg, WrReg
<1>13. Ledger(a)
  <2>1. Ledger(All) /\ c.manner = Graceful /\ c.phase = Active /\ ~c.dropped
    BY <1>1, <1>2, <1>4, <1>7 DEF CoreInv
  <2> QED
    BY <1>1, <1>2, <1>4, <1>7, <1>8, <1>9, <2>1 DEF Ledger
<1>14. DetachInv(a) /\ Sync(a.st) /\ StInv(a.st) /\ RdInv(a) /\ WrInv(a)
  BY <1>1, <1>7, <1>9, <1>10 DEF CoreInv, DetachInv, RdInv, WrInv
<1>15. Keeps(a, b)
  BY <1>9, <1>12, ConsolidateOp, Zenon
<1> HIDE DEF b
<1>16. CoreInv(b) /\ AppInv(b.io)
  <2>1. Flow(a, b) /\ HandleInv(b.io) /\ PausedInv(b.io) /\ StInv(b.st) /\ Sync(b.st) /\ WrInv(b)
    BY <1>14, <1>15 DEF Keeps, StInv
  <2>2. RdReg(b.io) /\ WrReg(b.io) /\ DetachInv(b) /\ RdInv(b)
    BY <1>9, <1>12, <1>14, <1>15, FlowLive DEF Keeps
  <2>3. AppInv(b.io) /\ ProdInv(b.io) /\ PhaseInv(b.io) /\ SendInv(b.io) /\ Ledger(b) /\ b \in AllType
    BY <1>9, <1>11, <1>12, <1>13, <2>1 DEF Flow, Moves
  <2> QED
    BY <2>1, <2>2, <2>3 DEF CoreInv
<1> QED
  BY <1>3, <1>16, Becomes

\* A step of the peer or the network changes neither how the socket was closed
\* nor the count of the output.
LEMMA PeerKeeps ==
  ASSUME Inv, PeerSends \/ PeerCloses \/ PeerResets \/ PeerReads
  PROVE  Inv'
<1>1. /\ All.io = io /\ All.st = st /\ All.sock = sock /\ All.total = total /\ All \in AllType
      /\ CoreInv(All) /\ AppInv(io) /\ io \in ConnType /\ total \in TotalType
      /\ st \in StreamType /\ sock \in SockType
  BY AllParts DEF Inv
<1>2. PICK s \in SockType : sock' = s /\ s.closed = sock.closed /\ (sock.err => s.err)
  <2>1. sock \in SockType
    BY <1>1
  <2>2. sock' \in SockType /\ sock'.closed = sock.closed /\ (sock.err => sock'.err)
    <3>1. CASE PeerSends
      BY <2>1, <3>1 DEF PeerSends, SockType
    <3>2. CASE PeerCloses
      BY <2>1, <3>2 DEF PeerCloses, SockType
    <3>3. CASE PeerResets
      BY <2>1, <3>3 DEF PeerResets, SockType
    <3>4. CASE PeerReads
      BY <2>1, <3>4 DEF PeerReads, SockType
    <3> QED
      BY <3>1, <3>2, <3>3, <3>4
  <2> QED
    BY <2>2
<1>3. PICK t \in TotalType : total' = t /\ t.written = total.written /\ t.accepted = total.accepted
  BY <1>1 DEF PeerSends, PeerCloses, PeerResets, PeerReads, TotalType
<1>4. io' = io /\ st' = st
  BY DEF PeerSends, PeerCloses, PeerResets, PeerReads
<1> DEFINE b == [io |-> io, st |-> st, sock |-> s, total |-> t]
<1>5. All' = b
  BY <1>2, <1>3, <1>4 DEF All
<1>6. b \in AllType /\ b.io = io /\ b.st = st /\ b.sock = s /\ b.total = t
  BY <1>1 DEF AllType
<1> HIDE DEF b
<1>7. Ledger(b) /\ DetachInv(b) /\ RdInv(b) /\ WrInv(b)
  BY <1>1, <1>2, <1>3, <1>6 DEF CoreInv, Ledger, DetachInv, RdInv, WrInv
<1>8. CoreInv(b)
  BY <1>1, <1>6, <1>7 DEF CoreInv
<1> QED
  BY <1>1, <1>4, <1>5, <1>8 DEF Inv

-----------------------------------------------------------------------------
(* The theorems *)

LEMMA InitInv == Init => Inv /\ use \in Uses
<1> SUFFICES ASSUME Init PROVE Inv /\ use \in Uses
  OBVIOUS
<1>1. use \in Uses /\ use.cfg \in ConfigType /\ io = NewConn(use.cfg)
  BY DEF Init
<1>2. ASSUME NEW f \in ConfigType
      PROVE  /\ NewConn(f) \in ConnType
             /\ AppInv(NewConn(f)) /\ ProdInv(NewConn(f)) /\ PhaseInv(NewConn(f))
             /\ SendInv(NewConn(f)) /\ HandleInv(NewConn(f)) /\ PausedInv(NewConn(f))
             /\ NewConn(f).ioWoken /\ NewConn(f).wr = 0 /\ NewConn(f).manner = Graceful
             /\ NewConn(f).phase = Active
  <2>1. (~f.handshake) \in BOOLEAN
    OBVIOUS
  <2>2. NewConn(f) \in ConnType
    BY <2>1 DEF NewConn, ConnType
  <2> QED
    BY <2>2 DEF NewConn, AppInv, ProdInv, PhaseInv, SendInv, HandleInv, PausedInv
<1> DEFINE c == NewConn(use.cfg)
<1>3. /\ c \in ConnType /\ AppInv(c) /\ ProdInv(c) /\ PhaseInv(c) /\ SendInv(c) /\ HandleInv(c)
      /\ PausedInv(c) /\ c.ioWoken /\ c.wr = 0 /\ c.manner = Graceful /\ c.phase = Active
  BY <1>1, <1>2
<1>4. io = c
  BY <1>1
<1> HIDE DEF c
<1>5. /\ st \in StreamType /\ Sync(st) /\ StInv(st) /\ ~st.detached
      /\ sock \in SockType /\ sock.closed = "open"
      /\ total \in TotalType /\ total.written = 0 /\ total.accepted = 0
  BY DEF Init, StreamType, SockType, TotalType, Sync, StInv
<1>6. All \in AllType /\ All.io = c /\ All.st = st /\ All.sock = sock /\ All.total = total
  BY <1>3, <1>4, <1>5 DEF All, AllType
<1>7. Ledger(All)
  <2>1. ~c.dropped
    BY <1>1, <1>4 DEF NewConn
  <2> QED
    BY <1>3, <1>5, <1>6, <2>1 DEF Ledger
<1>8. DetachInv(All) /\ RdInv(All) /\ WrInv(All) /\ RdReg(c) /\ WrReg(c)
  BY <1>3, <1>5, <1>6 DEF DetachInv, RdInv, WrInv, RdReg, WrReg
<1> QED
  BY <1>1, <1>3, <1>4, <1>5, <1>6, <1>7, <1>8 DEF Inv, CoreInv

LEMMA NextKeeps == Inv /\ use \in Uses /\ [Next]_vars => Inv' /\ (use \in Uses)'
<1> SUFFICES ASSUME Inv, use \in Uses, [Next]_vars PROVE Inv' /\ use' \in Uses
  OBVIOUS
<1>1. use' = use
  BY DEF Next, Callers, RunTask, Event, IopsRun, Elapse, Encode, Decode, WithReadDst, Begin,
     AppPoll, AppCancel, ProdPoll, Close, Terminate, DropIo, PeerSends, PeerCloses, PeerResets, PeerReads, Become, vars
<1>2. CASE RunTask
  BY <1>1, <1>2, RunTaskKeeps
<1>3. CASE Event
  BY <1>1, <1>3, EventKeeps
<1>4. CASE IopsRun
  BY <1>1, <1>4, IopsRunKeeps
<1>5. CASE Elapse
  BY <1>1, <1>5, ElapseKeeps
<1>6. CASE Callers
  <2>1. ASSUME NEW n \in {1, 2}, Encode(n) PROVE Inv'
    BY <2>1, EncodeKeeps
  <2>2. ASSUME NEW n \in 0..2, Decode(n) \/ WithReadDst(n) PROVE Inv'
    BY <2>2, DecodeKeeps, WithReadDstKeeps
  <2>3. ASSUME NEW what \in use.ops, Begin(what) PROVE Inv'
    BY <2>3, BeginKeeps
  <2> QED
    BY <1>1, <1>6, <2>1, <2>2, <2>3, AppPollKeeps, AppCancelKeeps, ProdPollKeeps, CloseKeeps,
       TerminateKeeps, DropIoKeeps DEF Callers
<1>7. CASE PeerSends \/ PeerCloses \/ PeerResets \/ PeerReads
  BY <1>1, <1>7, PeerKeeps
<1>8. CASE UNCHANGED vars
  BY <1>8 DEF vars, Inv, All
<1> QED
  BY <1>1, <1>2, <1>3, <1>4, <1>5, <1>6, <1>7, <1>8 DEF Next

LEMMA InvHolds == Spec => []Inv
BY InitInv, NextKeeps, PTL DEF Spec

\* A socket that is shut down rather than aborted has taken everything that was
\* accepted for it, or the connection has an error to report: run() of the
\* transport shuts down only after write_readiness() has found nothing left.
THEOREM ShutdownIsComplete == Spec => []NoSilentTruncation
<1>1. Inv => NoSilentTruncation
  <2> SUFFICES ASSUME Inv, sock.closed = "shutdown", ~io.err PROVE total.written = total.accepted
    BY DEF NoSilentTruncation
  <2>1. /\ All.io = io /\ All.sock = sock /\ All.total = total /\ Ledger(All)
        /\ total.written \in Nat /\ total.accepted \in Nat
    BY AllParts DEF Inv, CoreInv, TotalType
  <2> QED
    BY <2>1 DEF Ledger
<1> QED
  BY <1>1, InvHolds, PTL

\* A task that awaits input misses none, and the transport reads on for it: every
\* pause that a call lifts wakes the transport task or leaves interest armed.
THEOREM InputIsRead == Spec => []ReaderServed
<1>1. Inv => ReaderServed
  <2> SUFFICES ASSUME Inv, io.app = "read", ~io.appWoken
               PROVE  /\ ~IsPeerGone(io) /\ ~io.rdReady /\ ~io.rdEof /\ io.dspTask
                      /\ io.phase = Active => Reading
    BY DEF ReaderServed
  <2>1. /\ ~IsPeerGone(io) /\ ~io.rdReady /\ ~io.rdEof /\ io.dspTask /\ ~io.rdPaused /\ ~io.rdBp
    BY DEF Inv, AppInv
  <2>2. /\ All.io = io /\ All.sock = sock /\ All.st = st /\ PhaseInv(io) /\ RdInv(All)
        /\ DetachInv(All) /\ Sync(st)
    BY AllParts DEF Inv, CoreInv
  <2>3. ASSUME io.phase = Active PROVE Reading
    <3>1. Live(io) /\ ~IsAborted(io)
      BY <2>1, <2>2, <2>3 DEF Live, IsAborted, IsClosed, IsPeerGone, PhaseInv
    <3>2. ~st.detached /\ st.evRd = st.rd
      BY <2>2, <3>1 DEF DetachInv, Sync
    <3> QED
      BY <2>1, <2>2, <2>3, <3>1, <3>2 DEF RdInv, Reading
  <2> QED
    BY <2>1, <2>3
<1> QED
  BY <1>1, InvHolds, PTL

\* Output always has somebody to write it, and nobody waits for output in vain:
\* whether it is written in place, by a scheduled write or by the write task.
THEOREM OutputIsWritten == Spec => []OutputServed
<1>1. Inv => OutputServed
  <2> SUFFICES ASSUME Inv PROVE OutputServed
    OBVIOUS
  <2>1. /\ All.io = io /\ All.st = st /\ AppInv(io) /\ ProdInv(io) /\ SendInv(io) /\ PausedInv(io)
        /\ DetachInv(All) /\ Sync(st) /\ WrInv(All)
    BY AllParts DEF Inv, CoreInv
  <2>2. OutputScheduled
    <3> SUFFICES ASSUME io.wr > 0, ~IsAborted(io), ~io.dropped
                 PROVE  (io.wrSend /\ io.iops) \/ io.ioWoken \/ (st.wr /\ st.evWr)
      BY DEF OutputScheduled
    <3>1. Live(io) /\ ~st.detached /\ st.evWr = st.wr
      BY <2>1 DEF Live, DetachInv, Sync
    <3>2. CASE io.wrPaused
      BY <2>1, <3>1, <3>2 DEF PausedInv, SendInv
    <3>3. CASE ~io.wrPaused
      BY <2>1, <3>1, <3>3 DEF WrInv
    <3> QED
      BY <3>2, <3>3
  <2>3. io.app \in {"flush", "fullflush"} /\ ~io.appWoken =>
          ~IsPeerGone(io) /\ io.dspTask /\ io.wr > (IF io.app = "flush" THEN WrHalf(io) ELSE 0)
    BY <2>1 DEF AppInv
  <2>4. io.prod = "wait" /\ ~io.prodWoken => ~WriteReady(io)
    BY <2>1 DEF ProdInv
  <2> QED
    BY <2>2, <2>3, <2>4 DEF OutputServed
<1> QED
  BY <1>1, InvHolds, PTL

-----------------------------------------------------------------------------
(* Nothing spins *)

\* What never goes back, and some of it has changed: a phase, the way the connection
\* ends, the end of the input, bytes that are read or written.
Further(a, b) ==
  \/ a.io.phase < b.io.phase \/ a.io.manner < b.io.manner \/ (~a.io.rdEof /\ b.io.rdEof)
  \/ a.total.written < b.total.written \/ b.sock.in < a.sock.in

\* The transport task is woken only by what gets it further.
Earns(a, b) ==
  /\ a \in AllType /\ b \in AllType
  /\ a.io.phase <= b.io.phase /\ a.io.manner <= b.io.manner /\ (a.io.rdEof => b.io.rdEof)
  /\ a.total.written <= b.total.written /\ b.sock.in <= a.sock.in
  /\ b.io.ioWoken => a.io.ioWoken \/ Further(a, b)

LEMMA EarnTypes ==
  ASSUME NEW a \in AllType
  PROVE  /\ a.io.phase \in 0..3 /\ a.io.manner \in 0..2 /\ a.io.wr \in Nat
         /\ a.total.written \in Nat /\ a.sock.in \in Nat /\ a.sock.space \in Nat
BY AllFields, ConnFields DEF SockType, TotalType

LEMMA EarnsSame == ASSUME NEW a \in AllType PROVE Earns(a, a)
BY EarnTypes DEF Earns

LEMMA EarnsTwice ==
  ASSUME NEW a, NEW b, NEW e, Earns(a, b), Earns(b, e)
  PROVE  Earns(a, e) /\ (Further(a, b) \/ Further(b, e) => Further(a, e))
<1>1. a \in AllType /\ b \in AllType /\ e \in AllType
  BY DEF Earns
<1>2. /\ a.io.phase \in 0..3 /\ b.io.phase \in 0..3 /\ e.io.phase \in 0..3
      /\ a.io.manner \in 0..2 /\ b.io.manner \in 0..2 /\ e.io.manner \in 0..2
      /\ a.total.written \in Nat /\ b.total.written \in Nat /\ e.total.written \in Nat
      /\ a.sock.in \in Nat /\ b.sock.in \in Nat /\ e.sock.in \in Nat
  BY <1>1, EarnTypes
<1>3. Further(a, b) \/ Further(b, e) => Further(a, e)
  BY <1>2 DEF Earns, Further
<1> QED
  BY <1>1, <1>2, <1>3 DEF Earns

\* The step of a connection alone.
LEMMA EarnsIo ==
  ASSUME NEW a \in AllType, NEW d, Grows(a.io, d),
         d.ioWoken => a.io.ioWoken \/ a.io.phase < d.phase \/ a.io.manner < d.manner
  PROVE  Earns(a, [a EXCEPT !.io = d])
<1> DEFINE b == [a EXCEPT !.io = d]
<1>1. d \in ConnType /\ a.io.phase <= d.phase /\ a.io.manner <= d.manner /\ (a.io.rdEof => d.rdEof)
  BY DEF Grows, Advances
<1>2. b \in AllType /\ b.io = d /\ b.sock = a.sock /\ b.total = a.total
  BY <1>1 DEF AllType
<1> HIDE DEF b
<1>3. Earns(a, b)
  BY <1>1, <1>2, EarnTypes DEF Earns, Further
<1> QED
  BY <1>3 DEF b

\* The same for the stream.
LEMMA EarnsSt ==
  ASSUME NEW a \in AllType, NEW s \in StreamType
  PROVE  Earns(a, [a EXCEPT !.st = s])
<1> DEFINE b == [a EXCEPT !.st = s]
<1>1. b \in AllType /\ b.io = a.io /\ b.sock = a.sock /\ b.total = a.total
  BY DEF AllType
<1> HIDE DEF b
<1>2. Earns(a, b)
  BY <1>1, EarnTypes DEF Earns
<1> QED
  BY <1>2 DEF b

LEMMA WakesKeep ==
  ASSUME NEW c \in ConnType
  PROVE  /\ WakeDispatchTask(c).ioWoken = c.ioWoken /\ WakeDispatchTask(c).wr = c.wr
         /\ WakeDispatchTask(c).phase = c.phase
         /\ WakeWriteWaiters(c).ioWoken = c.ioWoken /\ WakeWriteWaiters(c).wr = c.wr
         /\ WakeWriteWaiters(c).phase = c.phase
         /\ EnableWrBackpressure(c).ioWoken = c.ioWoken /\ EnableWrBackpressure(c).wr = c.wr
         /\ EnableWrBackpressure(c).phase = c.phase
         /\ ScheduleWrite(c).ioWoken = c.ioWoken /\ Arm(c).ioWoken = c.ioWoken
BY DEF ConnType, WakeDispatchTask, WakeWriteWaiters, EnableWrBackpressure, ScheduleWrite, Arm

\* A write that leaves something wakes no transport task.
LEMMA WriteLeaves ==
  ASSUME NEW c \in ConnType, c.wr > 0
  PROVE  UpdateWriteStatus(c).ioWoken = c.ioWoken
<1> DEFINE d == EnableWrBackpressure(c)
           e == IF (d.wrFlush /\ d.wr = 0) \/ WrLow(d) THEN WakeDispatchTask(d) ELSE d
           f == IF WrLow(e) THEN WakeWriteWaiters(e) ELSE e
<1>1. d \in ConnType /\ d.ioWoken = c.ioWoken /\ d.wr = c.wr
  BY EnableWrBackpressureOp, WakesKeep DEF Grows, Advances
<1> HIDE DEF d
<1>2. e \in ConnType /\ e.ioWoken = c.ioWoken /\ e.wr = c.wr
  BY <1>1, WakeDispatchTaskOp, WakesKeep DEF WakeOnly
<1> HIDE DEF e
<1>3. f \in ConnType /\ f.ioWoken = c.ioWoken /\ f.wr = c.wr
  BY <1>2, WakeWriteWaitersOp, WakesKeep DEF WakeOnly
<1>4. UpdateWriteStatus(c) = WriteTaskStatus(f)
  BY DEF UpdateWriteStatus, f, e, d
<1> HIDE DEF f
<1> DEFINE x == f.wr = 0
           p == [f EXCEPT !.wrPaused = x]
<1>5. p.wr = c.wr /\ p.wr # 0 /\ p.ioWoken = c.ioWoken
  BY <1>3, ConnFields DEF ConnType
<1>6. WriteTaskStatus(f) \in {f, p}
  BY <1>5 DEF WriteTaskStatus
<1> QED
  BY <1>3, <1>4, <1>5, <1>6

\* A connection that is terminated ends in another manner.
LEMMA TerminateFurther ==
  ASSUME NEW c \in ConnType
  PROVE  LET d == TerminateConnection(c, TRUE)
         IN Grows(c, d) /\ (d.ioWoken => c.ioWoken \/ c.manner < d.manner)
            /\ (~IsAborted(c) => c.manner < d.manner)
<1> DEFINE d == TerminateConnection(c, TRUE)
<1>1. Grows(c, d) /\ IsAborted(d)
  BY TerminateOp
<1>2. c.phase \in 0..3 /\ c.manner \in 0..2 /\ d.manner \in 0..2 /\ d.phase \in 0..3
  BY <1>1, ConnFields DEF Grows, Advances
<1>3. CASE ~IsAborted(c)
  <2>1. d.phase # Stopped
    BY <1>1, <1>3 DEF Grows, Advances, IsAborted, IsClosed
  <2> HIDE DEF d
  <2>2. c.manner < d.manner
    BY <1>1, <1>2, <1>3, <2>1 DEF IsAborted, IsClosed, IsTerminating
  <2> QED
    BY <1>1, <2>2 DEF d
<1>4. CASE IsAborted(c)
  <2> DEFINE x == c.err \/ TRUE
             e == [c EXCEPT !.err = x]
             ph == Larger(e.phase, FiltersStopping)
             mn == Larger(e.manner, Terminating)
             t == [e EXCEPT !.phase = ph, !.manner = mn]
  <2>1. d \in {e, t}
    BY <1>4 DEF TerminateConnection, BeginTerminate, SetError, IsAborted
  <2>2. e.ioWoken = c.ioWoken /\ t.ioWoken = c.ioWoken
    BY DEF ConnType
  <2> HIDE DEF d, e, t
  <2> QED
    BY <1>1, <1>4, <2>1, <2>2 DEF d
<1> QED
  BY <1>3, <1>4

LEMMA StreamWriteEarns ==
  ASSUME NEW a \in AllType, a.io.wr > 0
  PROVE  Earns(a, StreamWrite(a))
<1> DEFINE n == Smaller(Smaller(a.io.wr, a.sock.space), Budget)
           b == StreamWrite(a)
<1>1. /\ a.io \in ConnType /\ a.io.wr \in Nat /\ a.sock.space \in Nat /\ a.sock \in SockType
      /\ a.total \in TotalType /\ a.total.written \in Nat /\ a.sock.in \in Nat
  BY AllFields, EarnTypes
<1>2. n \in Nat /\ n <= a.io.wr
  BY <1>1 DEF Smaller
<1>3. CASE a.sock.err
  <2>1. b = [a EXCEPT !.io = TerminateConnection(a.io, TRUE)]
    BY <1>3 DEF StreamWrite
  <2> QED
    BY <1>1, <2>1, TerminateFurther, EarnsIo
<1>4. CASE ~a.sock.err
  <2> DEFINE m == a.io.wr - n
             d == UpdateWriteStatus([a.io EXCEPT !.wr = m])
             sp == a.sock.space - n
             w == a.total.written + n
  <2>1. b = [a EXCEPT !.io = d, !.sock.space = sp, !.total.written = w]
    BY <1>4 DEF StreamWrite
  <2>2. m \in Nat /\ m <= a.io.wr /\ w \in Nat /\ (n > 0 => a.total.written < w)
        /\ (n = 0 => m = a.io.wr) /\ a.total.written <= w
    BY <1>1, <1>2
  <2>3. n = 0 => d.ioWoken = a.io.ioWoken
    <3>1. n = 0 => [a.io EXCEPT !.wr = m] = a.io
      BY <1>1, <2>2 DEF ConnType
    <3> QED
      BY <1>1, <3>1, WriteLeaves
  <2> HIDE DEF m, sp, w, n
  <2>4. Writes(a.io, d)
    BY <1>1, <2>2, UpdateWriteStatusOp
  <2>5. b \in AllType
    BY StreamWriteOp DEF Flow
  <2> HIDE DEF d, b
  <2>6. b.io = d /\ b.sock.in = a.sock.in /\ b.total.written = w
    BY <1>1, <2>1 DEF AllType, SockType, TotalType
  <2>7. a.io.phase = d.phase /\ a.io.manner = d.manner /\ (a.io.rdEof => d.rdEof)
    BY <2>4 DEF Writes, Moves
  <2>8. Earns(a, b)
    BY <1>1, <1>2, <2>2, <2>3, <2>5, <2>6, <2>7, EarnTypes DEF Earns, Further
  <2> QED
    BY <2>8 DEF b
<1> QED
  BY <1>3, <1>4

LEMMA StopFiltersEarns ==
  ASSUME NEW a \in AllType, NEW e \in BOOLEAN, a.io.phase = FiltersStopping
  PROVE  Earns(a, [a EXCEPT !.io = StopFilters(a.io, e)])
<1> DEFINE f == SetError(a.io, e)
           ph == Larger(f.phase, TransportShutdown)
           q == [f EXCEPT !.phase = ph]
           d == StopFilters(a.io, e)
<1>1. a.io \in ConnType
  BY AllFields
<1>2. f \in ConnType /\ f.phase = a.io.phase
  BY <1>1, SetErrorOp DEF SetError, ConnType, Grows, Advances
<1>3. ph = TransportShutdown
  BY <1>2 DEF Larger
<1>4. q \in ConnType /\ q.phase = TransportShutdown
  <2> HIDE DEF f, ph
  <2> QED
    BY <1>2, <1>3 DEF ConnType
<1>5. d.phase = TransportShutdown
  <2>1. d = WakeAll(q)
    BY DEF StopFilters
  <2> HIDE DEF q
  <2> QED
    BY <1>4, <2>1, WakeAllOp DEF WakeOnly
<1>6. Grows(a.io, d)
  BY <1>1, StopFiltersOp
<1> HIDE DEF d
<1>7. Earns(a, [a EXCEPT !.io = d])
  BY <1>5, <1>6, EarnsIo
<1> QED
  BY <1>7 DEF d

\* A read that is asked for brings bytes, the end of the stream or an error.
LEMMA StreamReadEarns ==
  ASSUME NEW a \in AllType, a.io.phase < TransportShutdown, ~a.io.rdEof, ~IsAborted(a.io)
  PROVE  Earns(a, StreamRead(a))
<1> DEFINE n == ReadSize(a)
           b == StreamRead(a)
<1>1. a.io \in ConnType /\ a.sock.in \in Nat /\ a.sock \in SockType /\ a.io.phase \in 0..3
  BY AllFields, EarnTypes
<1>2. n \in Nat /\ n <= a.sock.in
  BY <1>1 DEF ReadSize, Smaller
<1>3. b \in AllType /\ Grows(a.io, b.io)
  BY StreamReadOp DEF Flow
<1>4. a.io.phase <= b.io.phase /\ a.io.manner <= b.io.manner
  BY <1>3 DEF Grows, Advances
<1>5. CASE a.sock.err
  <2> DEFINE d == ReadFailed(a.io)
  <2>1. b = [a EXCEPT !.io = d]
    BY <1>5 DEF StreamRead
  <2>2. CASE a.io.phase = Active
    <3>1. d = TerminateConnection(a.io, TRUE)
      BY <2>2 DEF ReadFailed
    <3>2. Grows(a.io, d) /\ (d.ioWoken => a.io.ioWoken \/ a.io.manner < d.manner)
      BY <1>1, <3>1, TerminateFurther
    <3> HIDE DEF d
    <3> QED
      BY <2>1, <3>2, EarnsIo
  <2>3. CASE a.io.phase = FiltersStopping
    <3>1. d = StopFilters(a.io, TRUE)
      BY <2>3 DEF ReadFailed
    <3>2. Earns(a, [a EXCEPT !.io = StopFilters(a.io, TRUE)])
      BY <2>3, StopFiltersEarns, Zenon
    <3> QED
      BY <2>1, <3>1, <3>2
  <2> QED
    BY <1>1, <2>2, <2>3
<1>6. CASE ~a.sock.err /\ (n > 0 \/ a.sock.fin)
  <2> DEFINE d == ReadBytes(a.io, n)
             m == a.sock.in - n
  <2>1. b = [a EXCEPT !.io = d, !.sock.in = m]
    BY <1>6 DEF StreamRead
  <2>2. n = 0 => d.rdEof
    BY <1>1, <1>2, ReadBytesOp
  <2> HIDE DEF d, b
  <2>3. b.io = d /\ b.sock.in = m /\ b.total = a.total
    BY <1>1, <2>1 DEF AllType, SockType
  <2>4. m <= a.sock.in /\ (n > 0 => m < a.sock.in)
    BY <1>1, <1>2
  <2>5. Earns(a, b)
    BY <1>2, <1>3, <1>4, <2>2, <2>3, <2>4, EarnTypes DEF Earns, Further
  <2> QED
    BY <2>5 DEF b
<1>7. CASE ~a.sock.err /\ ~(n > 0 \/ a.sock.fin)
  <2>1. b = a
    BY <1>7 DEF StreamRead
  <2> QED
    BY <2>1, EarnsSame
<1> QED
  BY <1>5, <1>6, <1>7

\* The flags of a write in place.
LEMMA CallWriteEarns ==
  ASSUME NEW a \in AllType, a.io.wr > 0
  PROVE  Earns(a, CallWrite(a))
<1>1. CASE ~a.io.handle
  BY <1>1, EarnsSame DEF CallWrite
<1>2. CASE a.io.handle
  <2> DEFINE c == [a.io EXCEPT !.handle = FALSE, !.wrPaused = FALSE]
             a1 == [a EXCEPT !.io = c]
             b == StreamWrite(a1)
             s == Modify([b.st EXCEPT !.wr = TRUE], b.st.rd, TRUE)
             e == [b EXCEPT !.st = s]
             w == IF WriteStatus(b.io) = "Io" /\ ~b.st.wr THEN e ELSE b
             h == ~IsAborted(w.io)
             d == [w.io EXCEPT !.handle = h]
             f == [w EXCEPT !.io = d]
  <2>1. CallWrite(a) = f
    <3>1. WriteItem(a1) = w
      BY DEF WriteItem
    <3> HIDE DEF a1, w
    <3> QED
      BY <1>2, <3>1 DEF CallWrite, a1, w
  <2>2. a.io \in ConnType
    BY AllFields
  <2>3. /\ c \in ConnType /\ c.phase = a.io.phase /\ c.manner = a.io.manner
        /\ c.rdEof = a.io.rdEof /\ c.ioWoken = a.io.ioWoken /\ c.wr = a.io.wr
    <3>1. c \in ConnType
      BY <2>2, FlagsOp DEF Moves
    <3> QED
      BY <2>2, <3>1 DEF ConnType
  <2> HIDE DEF c
  <2>4. a1 \in AllType /\ a1.io = c /\ a1.sock = a.sock /\ a1.total = a.total
    BY <2>3 DEF AllType
  <2> HIDE DEF a1
  <2>5. Earns(a, a1) /\ a1.io.wr > 0
    BY <2>3, <2>4, EarnTypes DEF Earns
  <2>6. Earns(a1, b) /\ b \in AllType
    BY <2>4, <2>5, StreamWriteEarns DEF Earns
  <2> HIDE DEF b
  <2>7. s \in StreamType
    <3> DEFINE t == [b.st EXCEPT !.wr = TRUE]
    <3>1. b.st.rd \in BOOLEAN /\ t \in StreamType
      BY <2>6, AllFields DEF StreamType
    <3> HIDE DEF t
    <3>2. Modify(t, b.st.rd, TRUE) \in StreamType
      BY <3>1, ModifyOp
    <3> QED
      BY <3>2 DEF t
  <2> HIDE DEF s
  <2>8. Earns(b, w) /\ w \in AllType
    BY <2>6, <2>7, EarnsSt, EarnsSame DEF Earns
  <2> HIDE DEF w
  <2>9. /\ d \in ConnType /\ d.phase = w.io.phase /\ d.manner = w.io.manner
        /\ d.rdEof = w.io.rdEof /\ d.ioWoken = w.io.ioWoken
    <3>1. w.io \in ConnType /\ h \in BOOLEAN
      BY <2>8, AllFields
    <3> HIDE DEF h
    <3> QED
      BY <3>1 DEF ConnType
  <2> HIDE DEF d
  <2>10. f \in AllType /\ f.io = d /\ f.sock = w.sock /\ f.total = w.total
    BY <2>8, <2>9 DEF AllType
  <2> HIDE DEF f
  <2>11. Earns(w, f)
    BY <2>8, <2>9, <2>10, EarnTypes DEF Earns
  <2>12. Earns(a, w)
    BY <2>5, <2>6, <2>8, EarnsTwice
  <2> QED
    BY <2>1, <2>11, <2>12, EarnsTwice
<1> QED
  BY <1>1, <1>2

LEMMA ConsolidateEarns ==
  ASSUME NEW a \in AllType, NEW force, HandleInv(a.io)
  PROVE  LET b == Consolidate(a, force)
         IN Earns(a, b) /\ (b.io.wrPaused = a.io.wrPaused \/ Noted(b.io))
<1> DEFINE direct == a.io.cfg.wrThreshold > 0 /\ (force \/ a.io.wr >= a.io.cfg.wrThreshold)
           b == CallWrite(a)
           unsent == [b EXCEPT !.io.wrSend = FALSE]
           sched == [b EXCEPT !.io = ScheduleWrite(b.io)]
           w == IF a.io.wr = 0 \/ ~a.io.wrPaused THEN a
                ELSE IF ~direct THEN [a EXCEPT !.io = ScheduleWrite(a.io)]
                ELSE IF b.io.wrPaused THEN unsent ELSE sched
           checked(c) == IF ConsolidateFails(c) THEN c ELSE EnableWrBackpressure(c)
<1>1. Consolidate(a, force) = [w EXCEPT !.io = checked(w.io)]
  BY DEF Consolidate
<1>2. a.io \in ConnType /\ a.io.wr \in Nat
  BY AllFields, ConnFields
<1>3. Noted(b.io) /\ b \in AllType /\ b.io \in ConnType
  BY CallWriteOp, AllFields DEF Flow
<1>4. a.io.wr # 0 => Earns(a, b)
  BY <1>2, CallWriteEarns
<1> HIDE DEF b
<1>5. Earns(a, w) /\ (w.io.wrPaused = a.io.wrPaused \/ Noted(w.io))
  <2>1. CASE a.io.wr = 0 \/ ~a.io.wrPaused
    BY <2>1, EarnsSame
  <2>2. CASE ~(a.io.wr = 0 \/ ~a.io.wrPaused) /\ ~direct
    <3> DEFINE d == ScheduleWrite(a.io)
               e == [a EXCEPT !.io = d]
    <3>1. Grows(a.io, d) /\ d.ioWoken = a.io.ioWoken /\ d.wrPaused = a.io.wrPaused
      BY <1>2, ScheduleWriteOp, WakesKeep, GrowsKeeps
    <3>2. w = e
      BY <2>2
    <3> HIDE DEF d
    <3>3. Earns(a, e) /\ e.io = d
      BY <3>1, EarnsIo DEF AllType
    <3> QED
      BY <3>1, <3>2, <3>3
  <2>3. CASE ~(a.io.wr = 0 \/ ~a.io.wrPaused) /\ direct /\ ~b.io.wrPaused
    <3> DEFINE d == ScheduleWrite(b.io)
               e == [b EXCEPT !.io = d]
    <3>1. Grows(b.io, d) /\ d.ioWoken = b.io.ioWoken
      BY <1>3, ScheduleWriteOp, WakesKeep
    <3>2. w = e
      BY <2>3
    <3>3. Noted(d)
      <4>1. (Live(d) => Live(b.io)) /\ d.wr = b.io.wr /\ d.wrPaused = b.io.wrPaused
        BY <1>3, <3>1, GrowsKeeps
      <4> QED
        BY <1>3, <4>1 DEF Noted
    <3> HIDE DEF d
    <3>4. Earns(b, e) /\ e.io = d
      BY <1>3, <3>1, EarnsIo DEF AllType
    <3> QED
      BY <1>4, <2>3, <3>2, <3>3, <3>4, EarnsTwice
  <2>4. CASE ~(a.io.wr = 0 \/ ~a.io.wrPaused) /\ direct /\ b.io.wrPaused
    <3> DEFINE d == [b.io EXCEPT !.wrSend = FALSE]
               e == [b EXCEPT !.io = d]
    <3>1. w = e
      BY <2>4
    <3>2. /\ d \in ConnType /\ d.phase = b.io.phase /\ d.manner = b.io.manner
          /\ d.rdEof = b.io.rdEof /\ d.ioWoken = b.io.ioWoken /\ d.wr = b.io.wr
          /\ d.wrPaused = b.io.wrPaused
      BY <1>3 DEF ConnType
    <3> HIDE DEF d
    <3>3. e \in AllType /\ e.io = d /\ e.sock = b.sock /\ e.total = b.total
      BY <1>3, <3>2 DEF AllType
    <3> HIDE DEF e
    <3>4. Earns(b, e)
      BY <1>3, <3>2, <3>3, EarnTypes DEF Earns
    <3> QED
      BY <1>4, <2>4, <3>1, <3>2, <3>3, <3>4, EarnsTwice
  <2> QED
    BY <2>1, <2>2, <2>3, <2>4
<1> HIDE DEF w
<1>6. w \in AllType /\ w.io \in ConnType
  BY <1>5, AllFields DEF Earns
<1> DEFINE d == checked(w.io)
           e == [w EXCEPT !.io = d]
<1>7. Grows(w.io, d) /\ d.ioWoken = w.io.ioWoken
  BY <1>6, EnableWrBackpressureOp, WakesKeep, GrowsSame
<1>8. (Live(d) => Live(w.io)) /\ d.wr = w.io.wr /\ d.wrPaused = w.io.wrPaused
  BY <1>6, <1>7, GrowsKeeps
<1> HIDE DEF d
<1>9. Earns(w, e) /\ e.io = d
  BY <1>6, <1>7, EarnsIo DEF AllType
<1>10. d.wrPaused = a.io.wrPaused \/ Noted(d)
  BY <1>5, <1>8 DEF Noted
<1>11. Earns(a, e)
  BY <1>5, <1>9, EarnsTwice
<1> QED
  BY <1>1, <1>9, <1>10, <1>11 DEF d

LEMMA PollFiltersShutdownEarns ==
  ASSUME NEW a \in AllType, HandleInv(a.io)
  PROVE  LET b == PollFiltersShutdown(a)
         IN Earns(a, b) /\ (b.io.wrPaused = a.io.wrPaused \/ Noted(b.io))
<1>1. CASE ~IsShuttingDownFilters(a.io)
  BY <1>1, EarnsSame DEF PollFiltersShutdown
<1>2. CASE IsShuttingDownFilters(a.io)
  <2> DEFINE b == Consolidate(a, TRUE)
             c == b.io
             blocked == ~c.rdEof /\ (c.rdPaused \/ c.rdBp)
             d == IF ConsolidateFails(c) THEN c
                  ELSE IF c.filterDone /\ c.wrPaused /\ ~c.wrSend THEN StopFilters(c, FALSE)
                  ELSE IF ~c.filterDone /\ (c.rdEof \/ blocked) THEN StopFilters(c, blocked)
                  ELSE IF c.deadline = "elapsed" THEN StopFilters(c, TRUE)
                  ELSE Arm(c)
             e == [b EXCEPT !.io = d]
  <2>1. PollFiltersShutdown(a) = e
    BY <1>2, Zenon DEF PollFiltersShutdown
  <2>2. Earns(a, b) /\ (c.wrPaused = a.io.wrPaused \/ Noted(c))
    BY ConsolidateEarns, Zenon
  <2> HIDE DEF b
  <2>3. b \in AllType /\ c \in ConnType /\ a.io.phase = FiltersStopping
    BY <1>2, <2>2, AllFields DEF Earns, IsShuttingDownFilters
  <2>4. blocked \in BOOLEAN
    OBVIOUS
  <2>5. Grows(c, d) /\ (d \in {c, Arm(c)} \/ \E x \in BOOLEAN : d = StopFilters(c, x))
    <3>1. /\ Grows(c, StopFilters(c, FALSE)) /\ Grows(c, StopFilters(c, TRUE))
          /\ Grows(c, StopFilters(c, blocked))
      <4> HIDE DEF c, blocked
      <4> QED
        BY <2>3, <2>4, StopFiltersOp, Zenon
    <3>2. Grows(c, c) /\ Grows(c, Arm(c))
      BY <2>3, GrowsSame, ArmOp
    <3> HIDE DEF c, blocked
    <3> QED
      BY <2>4, <3>1, <3>2, Zenon
  <2> HIDE DEF d
  <2>6. (Live(d) => Live(c)) /\ d.wr = c.wr /\ d.wrPaused = c.wrPaused /\ d \in ConnType
    BY <2>3, <2>5, GrowsKeeps
  <2>7. d.wrPaused = a.io.wrPaused \/ Noted(d)
    BY <2>2, <2>6 DEF Noted
  <2>8. e.io = d /\ e \in AllType /\ e.sock = b.sock /\ e.total = b.total
    BY <2>3, <2>6 DEF AllType
  <2>9. CASE d.ioWoken = c.ioWoken
    <3>1. Earns(b, e)
      BY <2>3, <2>5, <2>9, EarnsIo
    <3> QED
      BY <2>1, <2>2, <2>7, <2>8, <3>1, EarnsTwice
  <2>10. CASE d.ioWoken # c.ioWoken
    <3>1. PICK x \in BOOLEAN : d = StopFilters(c, x)
      BY <2>3, <2>5, <2>10, WakesKeep
    <3>2. CASE c.phase = FiltersStopping
      BY <2>1, <2>2, <2>3, <2>7, <2>8, <3>1, <3>2, StopFiltersEarns, EarnsTwice
    <3>3. CASE c.phase # FiltersStopping
      <4> HIDE DEF e
      <4>1. Further(a, b)
        BY <2>2, <2>3, <3>3, EarnTypes DEF Earns, Further
      <4>2. c.phase <= d.phase /\ c.manner <= d.manner /\ (c.rdEof => d.rdEof)
        BY <2>5 DEF Grows, Advances
      <4>3. Further(a, e) /\ Earns(a, e)
        BY <2>2, <2>3, <2>8, <4>1, <4>2, EarnTypes DEF Earns, Further
      <4> QED
        BY <2>1, <2>7, <2>8, <4>3
    <3> QED
      BY <3>2, <3>3
  <2> QED
    BY <2>9, <2>10
<1> QED
  BY <1>1, <1>2

\* The two polls of the transport task.
LEMMA PollReadReadyEarns ==
  ASSUME NEW a \in AllType, HandleInv(a.io)
  PROVE  LET b == PollReadReady(a)
         IN Earns(a, b) /\ (b.io.wrPaused = a.io.wrPaused \/ Noted(b.io))
<1> DEFINE b == IF a.io.manner = ForceClosed THEN a ELSE PollFiltersShutdown(a)
           c == [b.io EXCEPT !.rdTask = TRUE]
           d == IF ReadReadyResult(b.io) \in Ends THEN b.io ELSE c
           e == [b EXCEPT !.io = d]
<1>1. PollReadReady(a) = e
  BY DEF PollReadReady
<1>2. Earns(a, b) /\ (b.io.wrPaused = a.io.wrPaused \/ Noted(b.io))
  BY PollFiltersShutdownEarns, EarnsSame
<1> HIDE DEF b
<1>3. b \in AllType /\ b.io \in ConnType
  BY <1>2, AllFields DEF Earns
<1>4. /\ d \in ConnType /\ d.phase = b.io.phase /\ d.manner = b.io.manner /\ d.wr = b.io.wr
      /\ d.rdEof = b.io.rdEof /\ d.ioWoken = b.io.ioWoken /\ d.wrPaused = b.io.wrPaused
      /\ d.dropped = b.io.dropped
  <2>1. c \in ConnType
    BY <1>3 DEF ConnType
  <2>2. /\ c.phase = b.io.phase /\ c.manner = b.io.manner /\ c.wr = b.io.wr
        /\ c.rdEof = b.io.rdEof /\ c.ioWoken = b.io.ioWoken /\ c.wrPaused = b.io.wrPaused
        /\ c.dropped = b.io.dropped
    BY <1>3 DEF ConnType
  <2> HIDE DEF c
  <2> QED
    BY <1>3, <2>1, <2>2
<1> HIDE DEF d
<1>5. e \in AllType /\ e.io = d /\ e.sock = b.sock /\ e.total = b.total
  BY <1>3, <1>4 DEF AllType
<1> HIDE DEF e
<1>6. Earns(b, e)
  BY <1>3, <1>4, <1>5, EarnTypes DEF Earns
<1>7. Noted(b.io) => Noted(d)
  BY <1>4 DEF Noted, Live, IsAborted, IsClosed, IsTerminating
<1> QED
  BY <1>1, <1>2, <1>4, <1>5, <1>6, <1>7, EarnsTwice

LEMMA PollWriteReadyEarns ==
  ASSUME NEW a \in AllType
  PROVE  LET d == PollWriteReady(a.io)
         IN /\ Earns(a, [a EXCEPT !.io = d]) /\ Grows(a.io, d)
            /\ a.io.phase < TransportShutdown => d.phase = a.io.phase /\ d.rdEof = a.io.rdEof
<1> DEFINE c == a.io
           b == IF c.manner = ForceClosed THEN c ELSE PollShutdownDeadline(c)
           q == [b EXCEPT !.wrTask = TRUE]
           d == IF WriteReadyResult(b) \in Ends THEN b ELSE q
<1>1. PollWriteReady(c) = d /\ c \in ConnType
  BY AllFields DEF PollWriteReady
<1> HIDE DEF c
<1>2. /\ Grows(c, b) /\ (b.ioWoken => c.ioWoken \/ c.manner < b.manner)
      /\ c.phase < TransportShutdown => b = c
  <2>1. b \in {c, Arm(c), TerminateConnection(c, TRUE)}
    BY DEF PollShutdownDeadline
  <2>2. Grows(c, c) /\ Grows(c, Arm(c)) /\ Arm(c).ioWoken = c.ioWoken
    BY <1>1, GrowsSame, ArmOp, WakesKeep
  <2>3. LET t == TerminateConnection(c, TRUE)
        IN Grows(c, t) /\ (t.ioWoken => c.ioWoken \/ c.manner < t.manner)
    BY <1>1, TerminateFurther
  <2>4. c.phase < TransportShutdown => b = c
    BY DEF PollShutdownDeadline
  <2> HIDE DEF b
  <2> QED
    BY <2>1, <2>2, <2>3, <2>4
<1> HIDE DEF b
<1>3. b \in ConnType
  BY <1>2 DEF Grows, Advances
<1>4. d.ioWoken = b.ioWoken /\ d.manner = b.manner /\ d.phase = b.phase /\ d.rdEof = b.rdEof
  BY <1>3 DEF ConnType
<1>5. Grows(c, d)
  BY <1>1, PollWriteReadyOp
<1> HIDE DEF d
<1>6. Earns(a, [a EXCEPT !.io = d])
  BY <1>2, <1>4, <1>5, EarnsIo DEF c
<1> QED
  BY <1>1, <1>2, <1>4, <1>5, <1>6 DEF c

\* The read half of interest(), for a direction that is ready.
LEMMA InterestRdEarns ==
  ASSUME NEW a \in AllType, NEW rd \in BOOLEAN, StInv(a.st),
         rd => a.io.phase < TransportShutdown /\ ~a.io.rdEof /\ ~IsAborted(a.io)
  PROVE  LET b == InterestRd(a, rd)
         IN Earns(a, b) /\ Grows(a.io, b.io)
<1> DEFINE b == InterestRd(a, rd)
<1>1. Grows(a.io, b.io)
  BY InterestRdOp, Zenon
<1>2. a.st \in StreamType
  BY AllFields
<1>3. CASE a.st.rd
  <2> DEFINE x == ~rd
             s == [a.st EXCEPT !.rdPaused = x]
  <2>1. b = [a EXCEPT !.st = s]
    BY <1>3 DEF InterestRd, AllType
  <2>2. s \in StreamType
    BY <1>2 DEF StreamType
  <2> HIDE DEF s, b
  <2>3. Earns(a, b)
    BY <2>1, <2>2, EarnsSt
  <2> QED
    BY <1>1, <2>3 DEF b
<1>4. CASE ~a.st.rd /\ rd
  <2> DEFINE r == StreamRead(a)
             x == StatusOfRead(a) = "Io"
             s == [r.st EXCEPT !.rd = x]
  <2>1. Earns(a, r) /\ r \in AllType
    BY <1>4, StreamReadEarns DEF Earns
  <2>2. b = [r EXCEPT !.st = s]
    <3>1. r \in AllType
      BY <2>1
    <3> QED
      BY <1>4, <3>1 DEF InterestRd, AllType
  <2> HIDE DEF r
  <2>3. s \in StreamType
    <3>1. r.st \in StreamType /\ x \in BOOLEAN
      BY <2>1, AllFields
    <3> HIDE DEF x
    <3> QED
      BY <3>1 DEF StreamType
  <2> HIDE DEF s, b
  <2>4. Earns(a, b)
    BY <2>1, <2>2, <2>3, EarnsSt, EarnsTwice
  <2> QED
    BY <1>1, <2>4 DEF b
<1>5. CASE ~a.st.rd /\ ~rd
  <2>1. b = a
    BY <1>5 DEF InterestRd
  <2> QED
    BY <1>1, <2>1, EarnsSame
<1> QED
  BY <1>3, <1>4, <1>5

\* The write half: a write of nothing happens once at most, since it is noted.
LEMMA InterestWrEarns ==
  ASSUME NEW a \in AllType, NEW wr \in BOOLEAN,
         wr /\ a.io.wr = 0 => ~a.io.wrPaused
  PROVE  LET b == InterestWr(a, wr)
         IN Earns(a, b) \/ (a.io.wr = 0 /\ ~a.io.wrPaused /\ (Live(b.io) => b.io.wrPaused)
                            /\ Flow(a, b))
<1> DEFINE b == InterestWr(a, wr)
           r == StreamWrite(a)
           x == WriteStatus(r.io) = "Io"
           s == [r.st EXCEPT !.wr = x]
<1>1. Flow(a, b)
  BY InterestWrOp, Zenon
<1>2. a.st \in StreamType /\ a.io.wr \in Nat
  BY AllFields, EarnTypes
<1>3. CASE ~wr
  <2> DEFINE t == [a.st EXCEPT !.wr = FALSE]
  <2>1. b = [a EXCEPT !.st = t]
    BY <1>3 DEF InterestWr, AllType
  <2>2. t \in StreamType
    BY <1>2 DEF StreamType
  <2> HIDE DEF t, b
  <2>3. Earns(a, b)
    BY <2>1, <2>2, EarnsSt
  <2> QED
    BY <2>3 DEF b
<1>4. CASE wr /\ a.st.wr
  <2>1. b = a
    BY <1>4 DEF InterestWr
  <2> QED
    BY <2>1, EarnsSame
<1>5. CASE wr /\ ~a.st.wr
  <2>1. r \in AllType /\ Flow(a, r) /\ Noted(r.io)
    BY StreamWriteOp DEF Flow
  <2>2. b = [r EXCEPT !.st = s]
    BY <1>5, <2>1 DEF InterestWr, AllType
  <2>3. a.io.wr # 0 => Earns(a, r)
    BY <1>2, StreamWriteEarns
  <2> HIDE DEF r
  <2>4. s \in StreamType
    <3>1. r.st \in StreamType /\ x \in BOOLEAN
      BY <2>1, AllFields
    <3> HIDE DEF x
    <3> QED
      BY <3>1 DEF StreamType
  <2> HIDE DEF s, b
  <2>5. Earns(r, b) /\ b.io = r.io
    BY <2>1, <2>2, <2>4, EarnsSt DEF AllType
  <2>6. CASE a.io.wr # 0
    BY <2>3, <2>5, <2>6, EarnsTwice DEF b
  <2>7. CASE a.io.wr = 0
    <3>1. r.io.wr = 0
      BY <2>1, <2>7, EarnTypes DEF Flow, Moves
    <3> QED
      BY <1>1, <1>5, <2>1, <2>5, <2>7, <3>1 DEF Noted, b
  <2> QED
    BY <2>6, <2>7
<1> QED
  BY <1>3, <1>4, <1>5

\* An event is handled: the socket has given or taken something, or the interest in
\* what was reported is gone.
LEMMA EventsHandled == ASSUME Inv, EventReady PROVE EventHandled # All
<1> DEFINE a1 == IF Readable THEN EventRd(All) ELSE All
           a2 == IF Writable THEN EventWr(a1) ELSE a1
           d == TerminateConnection(a2.io, TRUE)
           b1 == [a2 EXCEPT !.io = d, !.st.detached = TRUE]
           t == Modify(a2.st, a2.st.rd, a2.st.wr)
           b2 == [a2 EXCEPT !.st = t]
           b == IF sock.err THEN b1 ELSE b2
<1>1. EventHandled = b
  BY Zenon DEF EventHandled
<1>2. /\ All \in AllType /\ All.io = io /\ All.st = st /\ All.sock = sock /\ All.total = total
      /\ io \in ConnType /\ st \in StreamType /\ sock \in SockType /\ EventInv(All)
  BY AllParts DEF Inv, CoreInv, EventInv
<1>3. ~st.detached /\ (Readable \/ Writable \/ sock.err)
  BY DEF EventReady
<1>4. Flow(All, a1) /\ EventInv(a1)
  BY <1>2, EventRdOp, FlowSame
<1>5. a1 \in AllType /\ a1.st \in StreamType /\ a1.st.detached = FALSE /\ a1.sock.err = sock.err
  BY <1>2, <1>3, <1>4, AllFields DEF Flow, EventInv
<1>6. Readable /\ ~sock.err =>
        a1.sock.in # sock.in \/ a1.st.rdPaused # st.rdPaused \/ a1.st.rd # st.evRd
  <2> SUFFICES ASSUME Readable, ~sock.err
               PROVE  a1.sock.in # sock.in \/ a1.st.rdPaused # st.rdPaused \/ a1.st.rd # st.evRd
    OBVIOUS
  <2> DEFINE e == EventRd(All)
  <2>1. a1 = e /\ st.evRd /\ (sock.in > 0 \/ sock.fin) /\ sock.in \in Nat
    BY <1>2 DEF Readable, SockType
  <2>2. CASE st.rdPaused
    <3>1. e.st.rdPaused = FALSE
      BY <1>2, <2>2 DEF EventRd, AllType, StreamType
    <3> QED
      BY <2>1, <2>2, <3>1
  <2>3. CASE ~st.rdPaused
    <3> DEFINE n == ReadSize(All)
               r == StreamRead(All)
               status == StatusOfRead(All)
               held == status = "Pause" /\ n < Budget
               x == status = "Io"
               s1 == [r.st EXCEPT !.rd = TRUE, !.rdPaused = TRUE]
               s2 == [r.st EXCEPT !.rd = x]
               s == IF held THEN s1 ELSE s2
    <3>1. e = [r EXCEPT !.st = s]
      BY <1>2, <2>3 DEF EventRd
    <3>2. n \in Nat /\ n <= sock.in /\ (n = 0 => sock.in = 0)
      BY <1>2, <2>1 DEF ReadSize, Smaller
    <3>3. r = [All EXCEPT !.io = ReadBytes(io, n), !.sock.in = sock.in - n]
      BY <1>2, <2>1, <3>2 DEF StreamRead
    <3>4. r \in AllType /\ r.st = st
      BY <1>2, StreamReadOp DEF Flow
    <3>5. r.sock.in = sock.in - n /\ r.io = ReadBytes(io, n)
      <4> DEFINE rb == ReadBytes(io, n)
                 m == sock.in - n
      <4> HIDE DEF rb, m, r, n
      <4>1. r = [All EXCEPT !.io = rb, !.sock.in = m]
        BY <3>3 DEF rb, m
      <4>2. r.sock.in = m /\ r.io = rb
        BY <1>2, <4>1 DEF AllType, SockType
      <4> QED
        BY <4>2 DEF rb, m
    <3>6. n = 0 => status # "Io"
      <4> SUFFICES ASSUME n = 0 PROVE status # "Io"
        OBVIOUS
      <4>1. status = ReadStatus(io, r.io, n, sock.err)
        BY <1>2 DEF StatusOfRead
      <4>2. io.phase < TransportShutdown => r.io.rdEof
        BY <1>2, <3>5, ReadBytesOp
      <4>3. io.phase \in 0..3
        BY <1>2, ConnFields
      <4> HIDE DEF status, r, n
      <4> QED
        BY <4>1, <4>2, <4>3 DEF ReadStatus
    <3> HIDE DEF r, status, n
    <3>7. e.sock = r.sock /\ e.st = s
      BY <3>1, <3>4 DEF AllType
    <3>8. s1.rdPaused = TRUE /\ s2.rd = x
      BY <1>2, <3>4 DEF StreamType
    <3> HIDE DEF e, s1, s2, a1
    <3>9. CASE n # 0
      <4>1. sock.in - n # sock.in
        BY <2>1, <3>2, <3>9
      <4> QED
        BY <2>1, <3>5, <3>7, <4>1
    <3>10. CASE n = 0
      <4>1. ~x /\ n < Budget
        BY <3>6, <3>10
      <4>2. CASE held
        BY <2>1, <2>3, <3>7, <3>8, <4>2
      <4>3. CASE ~held
        BY <2>1, <3>7, <3>8, <4>1, <4>3
      <4> QED
        BY <4>2, <4>3
    <3> QED
      BY <3>9, <3>10
  <2> QED
    BY <2>2, <2>3
<1> HIDE DEF a1
<1>7. a1.sock.space = sock.space
  <2>1. CASE Readable
    <3> DEFINE r == StreamRead(All)
    <3>1. r.sock.space = sock.space
      <4>1. r.sock \in {sock, [sock EXCEPT !.in = sock.in - ReadSize(All)]}
        BY <1>2 DEF StreamRead, AllType
      <4> HIDE DEF r
      <4> QED
        BY <1>2, <4>1 DEF SockType
    <3>2. a1.sock = r.sock \/ a1.sock = sock
      <4>1. r \in AllType
        BY <1>2, StreamReadOp DEF Flow
      <4>2. a1 = EventRd(All)
        BY <2>1 DEF a1
      <4> HIDE DEF r
      <4> QED
        BY <1>2, <4>1, <4>2 DEF EventRd, AllType, r
    <3> HIDE DEF r
    <3> QED
      BY <3>1, <3>2
  <2>2. CASE ~Readable
    BY <1>2, <2>2 DEF a1
  <2> QED
    BY <2>1, <2>2
<1>8. /\ a2 \in AllType /\ a2.st \in StreamType /\ a2.st.detached = FALSE
      /\ a2.st.rd = a1.st.rd /\ a2.st.rdPaused = a1.st.rdPaused /\ a2.sock.in = a1.sock.in
      /\ Writable /\ ~sock.err => a2.sock.space # sock.space \/ a2.st.wr # st.evWr
  <2>1. CASE ~Writable
    BY <1>5, <2>1
  <2>2. CASE Writable
    <3> DEFINE r == StreamWrite(a1)
               x == WriteStatus(r.io) = "Io"
               s == [r.st EXCEPT !.wr = x]
               n == Smaller(Smaller(a1.io.wr, a1.sock.space), Budget)
               c == UpdateWriteStatus([a1.io EXCEPT !.wr = a1.io.wr - n])
               sp == a1.sock.space - n
               w == a1.total.written + n
    <3>1. a2 = [r EXCEPT !.st = s]
      BY <2>2 DEF EventWr
    <3>2. Flow(a1, r) /\ r.st = a1.st /\ r \in AllType
      BY <1>5, StreamWriteOp DEF Flow
    <3>3. /\ st.evWr /\ (sock.err \/ sock.space > 0)
          /\ a1.io.wr \in Nat /\ a1.sock.space \in Nat /\ a1.sock.in \in Nat /\ a1.sock \in SockType
          /\ a1.total \in TotalType
      BY <1>5, <2>2, AllFields, EarnTypes DEF Writable
    <3>4. r.sock.in = a1.sock.in /\ (~sock.err => r.sock.space = sp)
      <4>1. CASE a1.sock.err
        BY <1>5, <4>1 DEF StreamWrite, AllType
      <4>2. CASE ~a1.sock.err
        <5>1. r = [a1 EXCEPT !.io = c, !.sock.space = sp, !.total.written = w]
          BY <4>2 DEF StreamWrite
        <5> HIDE DEF c, sp, w, r
        <5> QED
          BY <1>5, <3>3, <5>1 DEF AllType, SockType
      <4> QED
        BY <4>1, <4>2
    <3>5. n \in Nat /\ (n = 0 /\ a1.sock.space > 0 => a1.io.wr = 0)
      BY <3>3 DEF Smaller
    <3> HIDE DEF r, n
    <3>6. a1.io.wr = 0 => ~x
      <4>1. a1.io.wr = 0 => r.io.wr = 0
        BY <3>2, <3>3, EarnTypes DEF Flow, Moves
      <4> QED
        BY <4>1 DEF WriteStatus
    <3>7. /\ s \in StreamType /\ s.rd = a1.st.rd /\ s.rdPaused = a1.st.rdPaused
          /\ s.detached = a1.st.detached /\ s.wr = x
      <4>1. x \in BOOLEAN
        OBVIOUS
      <4> HIDE DEF x
      <4> QED
        BY <1>5, <3>2, <4>1 DEF StreamType
    <3> HIDE DEF s, x
    <3>8. a2.st = s /\ a2.sock = r.sock /\ a2 \in AllType
      BY <3>1, <3>2, <3>7 DEF AllType
    <3> HIDE DEF a2
    <3>9. ~sock.err => a2.sock.space # sock.space \/ a2.st.wr # st.evWr
      <4> SUFFICES ASSUME ~sock.err PROVE a2.sock.space # sock.space \/ a2.st.wr # st.evWr
        OBVIOUS
      <4>1. CASE n = 0
        BY <1>7, <3>3, <3>5, <3>6, <3>7, <3>8, <4>1
      <4>2. CASE n # 0
        <5>1. sp # a1.sock.space
          BY <3>3, <3>5, <4>2
        <5> QED
          BY <1>7, <3>4, <3>8, <5>1
      <4> QED
        BY <4>1, <4>2
    <3> QED
      BY <1>5, <3>4, <3>7, <3>8, <3>9
  <2> QED
    BY <2>1, <2>2
<1> HIDE DEF a2
<1>9. CASE sock.err
  <2>1. b1.st.detached = TRUE
    BY <1>8 DEF AllType, StreamType
  <2> HIDE DEF b1
  <2> QED
    BY <1>1, <1>2, <1>3, <1>9, <2>1
<1>10. CASE ~sock.err
  <2>1. /\ t.rdPaused = a2.st.rdPaused /\ t.evRd = a2.st.rd /\ t.evWr = a2.st.wr
    BY <1>8, RearmedOp
  <2> HIDE DEF t
  <2>2. b2.st = t /\ b2.sock = a2.sock
    BY <1>8 DEF AllType
  <2> HIDE DEF b2
  <2> QED
    BY <1>1, <1>2, <1>3, <1>6, <1>8, <1>10, <2>1, <2>2
<1> QED
  BY <1>9, <1>10

\* A poll of the transport task ends it, or leaves it asleep, or got it further.
LEMMA PollsAreEarned == ASSUME Inv, RunReady PROVE TaskPolled # All
<1> DEFINE c0 == [io EXCEPT !.ioWoken = FALSE]
           a0 == [All EXCEPT !.io.ioWoken = FALSE]
           a1 == PollReadReady(a0)
           a2 == [a1 EXCEPT !.io = PollWriteReady(a1.io)]
           rd == ReadReadyResult(a1.io)
           wr == WriteReadyResult(a2.io)
           rdy == rd = "Ready"
           wry == wr = "Ready"
           a3 == IF rd \in Ends /\ wr \in Ends THEN a2 ELSE Interest(a2, rdy, wry)
           c == StopConnection(TerminateConnection(a3.io, FALSE))
           how == IF "Terminate" \in {rd, wr} THEN "aborted" ELSE "shutdown"
           a4 == [a3 EXCEPT !.io = c, !.st.detached = TRUE, !.sock.closed = how]
           b == IF {rd, wr} \cap Ends = {} THEN a3 ELSE a4
<1>1. TaskPolled = b
  BY Zenon DEF TaskPolled
<1>2. io.ioWoken /\ sock.closed = "open"
  BY DEF RunReady
<1>3. /\ All \in AllType /\ All.io = io /\ All.st = st /\ All.sock = sock /\ All.total = total
      /\ io \in ConnType /\ st \in StreamType /\ sock \in SockType
  BY AllParts
<1>4. /\ c0 \in ConnType /\ c0.phase = io.phase /\ c0.manner = io.manner /\ ~c0.ioWoken
      /\ c0.rdEof = io.rdEof /\ c0.wrPaused = io.wrPaused /\ HandleInv(c0)
  <2>1. io \in ConnType /\ HandleInv(io)
    BY <1>3 DEF Inv, CoreInv
  <2>2. c0 \in ConnType
    BY <2>1 DEF ConnType
  <2> QED
    BY <2>1, <2>2 DEF ConnType, HandleInv, Live, IsAborted, IsClosed, IsTerminating
<1>5. a0 \in AllType /\ a0.io = c0 /\ a0.st = st /\ a0.sock = sock /\ a0.total = total
  <2>1. a0 = [All EXCEPT !.io = c0]
    BY DEF All
  <2> HIDE DEF c0, a0
  <2> QED
    BY <1>3, <1>4, <2>1 DEF AllType
<1> HIDE DEF c0
<1> HIDE DEF a0
<1>6. Earns(a0, a1) /\ (a1.io.wrPaused = a0.io.wrPaused \/ Noted(a1.io))
  BY <1>4, <1>5, PollReadReadyEarns
<1>7. a2 \in AllType /\ a1 \in AllType /\ a2.sock.closed = sock.closed /\ StInv(a2.st)
  BY TaskReadied DEF a0
<1> HIDE DEF a1
<1>8. /\ Earns(a1, a2) /\ Grows(a1.io, a2.io) /\ a1.io \in ConnType /\ a2.io \in ConnType
      /\ a1.io.phase < TransportShutdown => a2.io.phase = a1.io.phase /\ a2.io.rdEof = a1.io.rdEof
  BY <1>7, PollWriteReadyEarns, AllFields DEF AllType
<1> HIDE DEF a2
<1>9. CASE {rd, wr} \cap Ends # {}
  <2>1. a3 \in AllType
    <3>1. CASE rd \in Ends /\ wr \in Ends
      BY <1>7, <3>1
    <3>2. CASE ~(rd \in Ends /\ wr \in Ends)
      <4>2. HandleInv(a2.io) /\ PausedInv(a2.io) /\ Sync(a2.st)
        BY TaskReadied DEF a0, a1, a2
      <4>3. rdy \in BOOLEAN /\ wry \in BOOLEAN
        OBVIOUS
      <4> HIDE DEF rdy, wry
      <4>4. Flow(a2, Interest(a2, rdy, wry))
        BY <1>7, <4>2, <4>3, InterestOp, Zenon
      <4> QED
        BY <3>2, <4>4 DEF Flow
    <3> QED
      BY <3>1, <3>2
  <2> HIDE DEF a3, c
  <2>2. a4.sock.closed = how
    BY <2>1 DEF AllType, SockType
  <2>3. how # "open"
    OBVIOUS
  <2> HIDE DEF how
  <2> QED
    BY <1>1, <1>2, <1>3, <1>9, <2>2, <2>3
<1>10. CASE {rd, wr} \cap Ends = {}
  <2> DEFINE p == InterestRd(a2, rdy)
             q == InterestWr(p, wry)
             t == Modify(q.st, q.st.rd, q.st.wr)
             e == [q EXCEPT !.st = t]
  <2>1. rd \notin Ends /\ wr \notin Ends /\ b = a3 /\ a3 = Interest(a2, rdy, wry)
    BY <1>10
  <2>2. b \in {q, e}
    <3>1. Interest(a2, rdy, wry) \in {q, e}
      <4> HIDE DEF rdy, wry
      <4> QED
        BY DEF Interest
    <3> QED
      BY <2>1, <3>1
  <2>3. ~IsAborted(a1.io) /\ ~IsAborted(a2.io) /\ ~a1.io.dropped
    <3>1. ASSUME NEW x \in ConnType, ReadReadyResult(x) \notin Ends
          PROVE  ~IsAborted(x) /\ ~x.dropped
      <4>1. CASE x.manner = ForceClosed
        BY <3>1, <4>1, ConnFields DEF Ends, ReadReadyResult, ReadReadiness, IsAborted, IsClosed,
           IsTerminating, IsPeerGone
      <4>2. CASE x.manner # ForceClosed
        BY <3>1, <4>2, ConnFields DEF Ends, ReadReadyResult, ReadReadiness, IsAborted, IsClosed,
           IsTerminating, IsPeerGone
      <4> QED
        BY <4>1, <4>2
    <3>2. ASSUME NEW x \in ConnType, WriteReadyResult(x) \notin Ends
          PROVE  ~IsAborted(x)
      <4>1. CASE x.manner = ForceClosed
        BY <3>2, <4>1, ConnFields DEF Ends, WriteReadyResult, WriteReadiness, IsAborted, IsClosed,
           IsTerminating, IsPeerGone
      <4>2. CASE x.manner # ForceClosed
        BY <3>2, <4>2, ConnFields DEF Ends, WriteReadyResult, WriteReadiness, IsAborted, IsClosed,
           IsTerminating, IsPeerGone
      <4> QED
        BY <4>1, <4>2
    <3> QED
      BY <1>8, <2>1, <3>1, <3>2
  <2>4. rdy => a2.io.phase < TransportShutdown /\ ~a2.io.rdEof
    BY <1>8, <2>3, ConnFields DEF ReadReadyResult, ReadReadiness
  <2>5. wry /\ a2.io.wr = 0 => ~a2.io.wrPaused
    BY <1>8, <2>3, ConnFields DEF WriteReadyResult, WriteReadiness, IsPeerGone, IsAborted
  <2>6. rdy \in BOOLEAN /\ wry \in BOOLEAN
    OBVIOUS
  <2> HIDE DEF rdy, wry
  <2>7. Earns(a2, p) /\ Grows(a2.io, p.io) /\ p \in AllType /\ p.io \in ConnType
    BY <1>7, <2>3, <2>4, <2>6, InterestRdEarns, AllFields DEF Earns
  <2> HIDE DEF p
  <2>8. p.io.wr = a2.io.wr /\ p.io.wrPaused = a2.io.wrPaused
    BY <1>8, <2>7, GrowsKeeps
  <2>9. \/ Earns(p, q)
        \/ p.io.wr = 0 /\ ~p.io.wrPaused /\ (Live(q.io) => q.io.wrPaused) /\ Flow(p, q)
    BY <2>5, <2>6, <2>7, <2>8, InterestWrEarns
  <2>10. q \in AllType /\ q.st \in StreamType
    BY <2>9, AllFields DEF Earns, Flow
  <2> HIDE DEF q
  <2>11. b \in AllType /\ b.io = q.io /\ b.sock = q.sock /\ b.total = q.total
    <3>1. t \in StreamType
      BY <2>10, RearmedOp
    <3> HIDE DEF t
    <3>2. e \in AllType /\ e.io = q.io /\ e.sock = q.sock /\ e.total = q.total
      BY <2>10, <3>1 DEF AllType
    <3> HIDE DEF e, b
    <3> QED
      BY <2>2, <2>10, <3>2
  <2> HIDE DEF b
  <2>12. Earns(a0, p)
    BY <1>6, <1>8, <2>7, EarnsTwice
  <2> SUFFICES ASSUME b = All PROVE FALSE
    BY <1>1
  <2>13. /\ q.io.phase = a0.io.phase /\ q.io.manner = a0.io.manner /\ q.io.rdEof = a0.io.rdEof
         /\ q.sock = a0.sock /\ q.total = a0.total /\ q.io.ioWoken /\ ~a0.io.ioWoken
         /\ q.io.wrPaused = a0.io.wrPaused
    BY <1>2, <1>3, <1>4, <1>5, <2>11
  <2>14. CASE Earns(p, q)
    <3>1. Earns(a0, q)
      BY <2>12, <2>14, EarnsTwice
    <3> QED
      BY <1>5, <2>10, <2>13, <3>1, EarnTypes DEF Earns, Further
  <2>15. CASE p.io.wr = 0 /\ ~p.io.wrPaused /\ (Live(q.io) => q.io.wrPaused) /\ Flow(p, q)
    <3>1. ~a1.io.wrPaused /\ a1.io.wr = 0
      BY <1>8, <2>8, <2>15, GrowsKeeps
    <3>2. Live(a1.io)
      BY <2>3 DEF Live
    <3>3. ~a0.io.wrPaused
      BY <1>6, <3>1, <3>2 DEF Noted
    <3>4. ~Live(q.io)
      BY <2>13, <2>15, <3>3
    <3>5. Live(q.io)
      <4>1. ~q.io.dropped
        BY <1>8, <2>3, <2>7, <2>15 DEF Flow, Moves, Grows, Advances
      <4>2. q.io.phase <= a1.io.phase /\ q.io.manner <= a1.io.manner /\ q.io \in ConnType
        BY <1>6, <2>10, <2>13, AllFields DEF Earns
      <4>3. ~IsAborted(q.io)
        BY <1>8, <2>3, <4>2, ConnFields DEF IsAborted, IsClosed, IsTerminating
      <4> QED
        BY <4>1, <4>3 DEF Live
    <3> QED
      BY <3>4, <3>5
  <2> QED
    BY <2>9, <2>14, <2>15
<1> QED
  BY <1>9, <1>10

\* Nothing spins: no event is reported again while its handler changes nothing, and
\* no poll of the transport task ends as it began, whatever the readiness was
\* (StreamOpsHandler::event() and run() of the polling backend).
THEOREM NothingSpins == Spec => []NoSpin
<1>1. Inv => NoSpin
  BY EventsHandled, PollsAreEarned DEF NoSpin
<1> QED
  BY <1>1, InvHolds, PTL
=============================================================================
