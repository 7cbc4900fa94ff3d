---------------------------- MODULE RuntimeProofs ---------------------------
(***************************************************************************)
(* Proofs about the native runtime: TaskRefs, for any number of threads,   *)
(* wakers and operations, and after it RunQueue, for every number of       *)
(* producers and every bound.                                              *)
(*                                                                         *)
(* In TaskRefs the owner's count lags behind the references, so that the   *)
(* equation of RefsAccount is not enough: the count might reach zero in    *)
(* between, while an AddRef is still in the FIFO.  CountStaysUp is what    *)
(* rules it out: at every command of the FIFO the count will be positive,  *)
(* and it exceeds the references that the owner gives up without going     *)
(* through the FIFO.                                                       *)
(*                                                                         *)
(* In RunQueue the count of `admission` carries shutdown's barrier, and    *)
(* WakeupInv, over all the time from the decision to sleep on, the wakeup. *)
(***************************************************************************)
EXTENDS TaskRefs, RunQueue, Integers, TLAPS, FiniteSetTheorems, FunctionTheorems,
        SequenceTheorems

USE TaskRefsAssumption DEF TaskRefsAssumption

\* The occurrences of a command among the first k of a FIFO.
Upto(s, op, k) == Cardinality({i \in 1..k : s[i] = op})

\* What the first k commands will add to the count.
Balance(s, k) == Upto(s, "AddRef", k) - Upto(s, "Release", k) - Upto(s, "WakeAndRelease", k)

Delta(op) ==
  IF op = "AddRef" THEN 1 ELSE IF op \in {"Release", "WakeAndRelease"} THEN 0 - 1 ELSE 0

\* References the owner gives up at once, if they are not the last.
Direct == loc + One(join) + One(rel = "clear")

\* References that the owner thread has.
Own == loc + nlocal + One(join) + One(base # "idle") + One(rel # "none")

Held == Cardinality(StdWakers) + leaked + Own

Account == alive => refs + Balance(fifo, Len(fifo)) = Held + Occurs("Spawn")

CountStaysUp ==
  alive => \A k \in 0..(Len(fifo) - 1) : refs + Balance(fifo, k) >= 1 + Direct

-----------------------------------------------------------------------------
\* A thread inside an operation holds, or borrows, a waker that exists.
RemoteOK(r) ==
  /\ \/ rop[r] = NoOp
     \/ rop[r].op \in Ops \ {"Spawn"} /\ rop[r].at \in {"admitted", "touched"}
  /\ rop[r].op = "AddRef" => std[r] < MaxHeld
  /\ rop[r].op \in {"Release", "WakeAndRelease"} => rop[r].src = r /\ std[r] >= 1
  /\ rop[r].op \in {"AddRef", "Wake"} =>
       IF rop[r].src = Poll THEN base = "poll"
       ELSE std[rop[r].src] >= 1 + One(Consuming(rop[r].src))
  /\ rop[r].at = "touched" => touched
  /\ rop[r] # NoOp => sd \in {"open", "barrier"}

RemoteInv == \A r \in Remotes : RemoteOK(r)

\* A task that another thread has submitted is not referred to otherwise until
\* the owner takes the submission.
Submitted ==
  /\ fifo = <<"Spawn">> /\ loc = 0 /\ nlocal = 0 /\ leaked = 0 /\ ~join
  /\ \A t \in Threads : std[t] = 0
  /\ base = "idle" /\ rel = "none" /\ alive /\ ~Has("FINISHED") /\ ~Has("LISTED")

Taken == \A i \in 1..Len(fifo) : fifo[i] # "Spawn"

FifoInv ==
  /\ rel \in {"clear", "pending"} => touched
  /\ ~touched => \A i \in 1..Len(fifo) : fifo[i] = "Spawn"
  /\ sd = "down" => fifo = <<>>

\* Flags, stage and runner agree.
StageInv ==
  /\ Has("RUNNING") <=> base \in {"poll", "closing"}
  /\ Has("RUNNING") => ~Has("FINISHED")
  /\ Has("FINISHED") => ~Has("LISTED")
  /\ base = "hand" => rel = "none"
  /\ drops = One(Has("FINISHED"))
  /\ Has("FINISHED") <=> stage # "running"
  /\ ~Has("FINISHED") => (join <=> ~Has("DETACHED"))
  /\ stage = "finished" => join
  /\ jpoll # "no" => join

\* A freed task has left nothing behind.
FreedInv ==
  ~alive =>
    Held = 0 /\ fifo = <<>> /\ Has("FINISHED")

InFifo(S) == \E i \in 1..Len(fifo) : fifo[i] \in S

\* A scheduled task is in a queue or with the runner.
ScheduledInv ==
  Has("SCHEDULED") /\ ~Has("RUNNING") /\ ~Has("FINISHED") =>
    nlocal > 0 \/ base = "hand" \/ InFifo({"Spawn"})

\* The two parts of NoLostWake.
WakeNoted ==
  owed /\ sd = "open" =>
    \/ Has("FINISHED") \/ base = "closing" \/ nlocal > 0 \/ base = "hand"
    \/ (Has("SCHEDULED") /\ Has("RUNNING"))
    \/ InFifo({"Spawn", "Wake", "WakeAndRelease"})

JoinTold == join /\ jpoll = "pending" /\ Has("FINISHED") => jwoken

\* An awaiter is registered while its task is unfinished.
AwaiterInv == join /\ jpoll \in {"stored", "pending"} /\ ~Has("FINISHED") => awaiter

CountInv ==
  /\ TypeOK /\ RemoteInv /\ (Submitted \/ Taken) /\ FifoInv /\ StageInv
  /\ Account /\ CountStaysUp /\ FreedInv

TaskInv == CountInv /\ ScheduledInv /\ WakeNoted /\ AwaiterInv /\ JoinTold

-----------------------------------------------------------------------------
(* Counting commands. *)

LEMMA UptoFinite ==
  ASSUME NEW s, NEW op, NEW k \in Nat PROVE IsFiniteSet({i \in 1..k : s[i] = op})
BY FS_Interval, FS_Subset

LEMMA UptoNat == ASSUME NEW s, NEW op, NEW k \in Nat PROVE Upto(s, op, k) \in Nat
BY UptoFinite, FS_CardinalityType DEF Upto

LEMMA UptoAppend ==
  ASSUME NEW s \in Seq(Ops), NEW x \in Ops, NEW op
  PROVE  /\ \A k \in 0..Len(s) : Upto(Append(s, x), op, k) = Upto(s, op, k)
         /\ Upto(Append(s, x), op, Len(s) + 1) = Upto(s, op, Len(s)) + (IF x = op THEN 1 ELSE 0)
<1> DEFINE t == Append(s, x)
           I(k) == {i \in 1..k : s[i] = op}
           K(k) == {i \in 1..k : t[i] = op}
<1>1. /\ Len(s) \in Nat /\ t[Len(s) + 1] = x
      /\ \A i \in 1..Len(s) : t[i] = s[i]
  BY AppendProperties
<1>2. ASSUME NEW k \in 0..Len(s) PROVE K(k) = I(k)
  BY <1>1
<1>3. IsFiniteSet(I(Len(s))) /\ Len(s) + 1 \notin I(Len(s))
  <2>1. IsFiniteSet(I(Len(s)))
    BY <1>1, UptoFinite
  <2> QED
    BY <1>1, <2>1
<1>4. CASE x = op
  <2>1. K(Len(s) + 1) = I(Len(s)) \cup {Len(s) + 1}
    BY <1>1, <1>4
  <2> HIDE DEF K, I
  <2>2. Cardinality(K(Len(s) + 1)) = Cardinality(I(Len(s))) + 1
    BY <1>3, <2>1, FS_AddElement
  <2> QED
    BY <1>2, <1>4, <2>2 DEF Upto, K, I
<1>5. CASE x # op
  <2>1. K(Len(s) + 1) = I(Len(s))
    BY <1>1, <1>5
  <2>2. Cardinality(I(Len(s))) \in Nat
    BY <1>3, FS_CardinalityType
  <2> HIDE DEF K, I
  <2>3. Cardinality(K(Len(s) + 1)) = Cardinality(I(Len(s))) + 0
    BY <2>1, <2>2
  <2> QED
    BY <1>2, <1>5, <2>3 DEF Upto, K, I
<1> QED
  BY <1>4, <1>5

\* The commands of the tail are those of the FIFO but the first, moved by one.
LEMMA UptoTail ==
  ASSUME NEW s \in Seq(Ops), s # <<>>, NEW op, NEW k \in 0..(Len(s) - 1)
  PROVE  Upto(Tail(s), op, k) = Upto(s, op, k + 1) - (IF Head(s) = op THEN 1 ELSE 0)
<1> DEFINE I == {i \in 1..(k + 1) : s[i] = op}
           K == {i \in 1..k : Tail(s)[i] = op}
           f == [i \in K |-> i + 1]
<1>1. /\ Len(s) \in Nat /\ Len(s) # 0 /\ Len(Tail(s)) = Len(s) - 1 /\ Head(s) = s[1]
      /\ \A i \in 1..Len(Tail(s)) : Tail(s)[i] = s[i + 1]
  BY HeadTailProperties
<1>2. IsFiniteSet(I) /\ IsFiniteSet(I \ {1}) /\ IsFiniteSet(K) /\ Cardinality(I) \in Nat
  <2>1. IsFiniteSet(I) /\ IsFiniteSet(K)
    <3>1. k \in Nat /\ k + 1 \in Nat
      BY <1>1
    <3> QED
      BY <3>1, UptoFinite
  <2> QED
    BY <2>1, FS_Subset, FS_CardinalityType
<1>3. f \in Bijection(K, I \ {1})
  <2>1. \A i \in K : i + 1 \in I \ {1}
    BY <1>1
  <2>2. \A j \in I \ {1} : j - 1 \in K /\ f[j - 1] = j
    BY <1>1
  <2>3. \A i, j \in K : f[i] = f[j] => i = j
    BY <1>1
  <2> QED
    BY <2>1, <2>2, <2>3 DEF Bijection, Injection, Surjection, IsInjective
<1>4. Cardinality(K) = Cardinality(I \ {1})
  <2> HIDE DEF f, I, K
  <2> QED
    BY <1>2, <1>3, FS_Bijection, Zenon DEF ExistsBijection
<1>5. CASE Head(s) = op
  <2>1. 1 \in I
    BY <1>1, <1>5
  <2> HIDE DEF I, K
  <2>2. Cardinality(I \ {1}) = Cardinality(I) - 1
    BY <1>2, <2>1, FS_RemoveElement
  <2> QED
    BY <1>4, <1>5, <2>2 DEF Upto, I, K
<1>6. CASE Head(s) # op
  <2>1. I \ {1} = I
    BY <1>1, <1>6
  <2>2. Cardinality(K) = Cardinality(I)
    BY <1>4, <2>1
  <2> HIDE DEF I, K
  <2>3. Cardinality(K) = Cardinality(I) - 0
    BY <1>2, <2>2
  <2> QED
    BY <1>6, <2>3 DEF Upto, I, K
<1> QED
  BY <1>5, <1>6

LEMMA BalanceInt ==
  ASSUME NEW s, NEW k \in Nat
  PROVE  Balance(s, k) \in Int
BY UptoNat DEF Balance

LEMMA BalanceStart == ASSUME NEW s PROVE Balance(s, 0) = 0
<1>1. ASSUME NEW op PROVE Upto(s, op, 0) = 0
  <2>1. {i \in 1..0 : s[i] = op} = {}
    OBVIOUS
  <2> QED
    BY <2>1, FS_EmptySet DEF Upto
<1> QED
  BY <1>1 DEF Balance

LEMMA BalanceAppend ==
  ASSUME NEW s \in Seq(Ops), NEW x \in Ops
  PROVE  /\ \A k \in 0..Len(s) : Balance(Append(s, x), k) = Balance(s, k)
         /\ Balance(Append(s, x), Len(s) + 1) = Balance(s, Len(s)) + Delta(x)
<1>0. ASSUME NEW op
      PROVE  /\ \A k \in 0..Len(s) : Upto(Append(s, x), op, k) = Upto(s, op, k)
             /\ Upto(Append(s, x), op, Len(s) + 1) = Upto(s, op, Len(s)) + (IF x = op THEN 1 ELSE 0)
             /\ Upto(s, op, Len(s)) \in Nat
  <2>1. Len(s) \in Nat
    OBVIOUS
  <2>2. /\ \A k \in 0..Len(s) : Upto(Append(s, x), op, k) = Upto(s, op, k)
        /\ Upto(Append(s, x), op, Len(s) + 1) = Upto(s, op, Len(s)) + (IF x = op THEN 1 ELSE 0)
    BY UptoAppend, SMTT(60)
  <2>3. Upto(s, op, Len(s)) \in Nat
    BY <2>1, UptoNat
  <2> QED
    BY <2>2, <2>3
<1>1. ASSUME NEW k \in 0..Len(s) PROVE Balance(Append(s, x), k) = Balance(s, k)
  BY <1>0 DEF Balance
<1>3. Balance(Append(s, x), Len(s) + 1) = Balance(s, Len(s)) + Delta(x)
  BY <1>0, SMTT(60) DEF Balance, Delta, Ops
<1> QED
  BY <1>1, <1>3

LEMMA BalanceTail ==
  ASSUME NEW s \in Seq(Ops), s # <<>>, NEW k \in 0..(Len(s) - 1)
  PROVE  Balance(Tail(s), k) = Balance(s, k + 1) - Delta(Head(s))
<1>1. k + 1 \in Nat /\ Head(s) \in Ops
  OBVIOUS
<1>2. ASSUME NEW op PROVE Upto(Tail(s), op, k) = Upto(s, op, k + 1) - (IF Head(s) = op THEN 1 ELSE 0)
  BY UptoTail
<1>3. ASSUME NEW op PROVE Upto(s, op, k + 1) \in Nat
  BY <1>1, UptoNat
<1> QED
  BY <1>1, <1>2, <1>3 DEF Balance, Delta, Ops

-----------------------------------------------------------------------------
(* Counting wakers. *)

LEMMA StdFinite == IsFiniteSet(StdWakers) /\ Cardinality(StdWakers) \in Nat
<1>1. IsFiniteSet(Threads)
  BY FS_AddElement DEF Threads
<1>2. IsFiniteSet(Threads \X (1..MaxHeld))
  <2>1. IsFiniteSet(1..MaxHeld)
    BY FS_Interval
  <2> QED
    BY <1>1, <2>1, FS_Product
<1>3. IsFiniteSet(StdWakers)
  BY <1>2, FS_Subset DEF StdWakers
<1> QED
  BY <1>3, FS_CardinalityType

LEMMA StdAdded ==
  ASSUME std \in [Threads -> 0..MaxHeld], NEW t \in Threads, std[t] < MaxHeld,
         std' = [std EXCEPT ![t] = @ + 1]
  PROVE  Cardinality(StdWakers') = Cardinality(StdWakers) + 1
<1> DEFINE w == <<t, std[t] + 1>>
<1>1. w \notin StdWakers /\ StdWakers' = StdWakers \cup {w}
  BY DEF StdWakers
<1> HIDE DEF w
<1> QED
  BY <1>1, StdFinite, FS_AddElement

LEMMA StdRemoved ==
  ASSUME std \in [Threads -> 0..MaxHeld], NEW t \in Threads, std[t] > 0,
         std' = [std EXCEPT ![t] = @ - 1]
  PROVE  Cardinality(StdWakers') = Cardinality(StdWakers) - 1
<1> DEFINE w == <<t, std[t]>>
<1>1. w \in StdWakers /\ StdWakers' = StdWakers \ {w}
  BY DEF StdWakers
<1> HIDE DEF w
<1> QED
  BY <1>1, StdFinite, FS_RemoveElement

LEMMA StdMoved ==
  ASSUME std \in [Threads -> 0..MaxHeld], NEW t \in Threads, NEW u \in Threads, t # u,
         std[t] > 0, std[u] < MaxHeld, std' = [std EXCEPT ![t] = @ - 1, ![u] = @ + 1]
  PROVE  Cardinality(StdWakers') = Cardinality(StdWakers)
<1> DEFINE v == <<t, std[t]>>
           w == <<u, std[u] + 1>>
           rest == StdWakers \ {v}
<1>1. /\ v \in StdWakers /\ w \notin rest /\ StdWakers' = rest \cup {w}
  BY DEF StdWakers
<1> HIDE DEF v, w
<1>2. IsFiniteSet(rest) /\ Cardinality(rest) = Cardinality(StdWakers) - 1
  BY <1>1, StdFinite, FS_RemoveElement
<1> HIDE DEF rest
<1>3. Cardinality(rest \cup {w}) = Cardinality(rest) + 1
  BY <1>1, <1>2, FS_AddElement
<1> QED
  BY <1>1, <1>2, <1>3, StdFinite

\* Whoever holds a waker is counted.
LEMMA StdPositive ==
  ASSUME std \in [Threads -> 0..MaxHeld], NEW t \in Threads, std[t] > 0
  PROVE  Cardinality(StdWakers) > 0
<1>1. <<t, std[t]>> \in StdWakers
  BY DEF StdWakers
<1> QED
  BY <1>1, StdFinite, FS_EmptySet

LEMMA StdNone ==
  ASSUME \A t \in Threads : std[t] = 0
  PROVE  Cardinality(StdWakers) = 0
<1>1. StdWakers = {}
  BY DEF StdWakers
<1> QED
  BY <1>1, FS_EmptySet

-----------------------------------------------------------------------------
(* Consequences of the invariant. *)

LEMMA NumbersTyped ==
  ASSUME TypeOK
  PROVE  /\ Own \in Nat /\ Direct \in Nat /\ Direct <= Own /\ Len(fifo) \in Nat
         /\ Own = Direct + nlocal + One(base # "idle") + One(rel \notin {"none", "clear"})
<1>1. loc \in Nat /\ nlocal \in Nat /\ join \in BOOLEAN /\ fifo \in Seq(Ops)
  BY DEF TypeOK
<1>2. Len(fifo) \in Nat
  BY <1>1
<1> QED
  BY <1>1, <1>2 DEF Own, Direct, One

\* A task with commands in the FIFO exists, and its count is positive.
LEMMA CountPositive ==
  ASSUME CountInv, fifo # <<>>
  PROVE  alive /\ refs >= 1 + Direct /\ refs >= 1 /\ Len(fifo) \in Nat /\ Len(fifo) > 0
<1>1. alive
  BY DEF CountInv, FreedInv
<1>2. Len(fifo) \in Nat /\ Len(fifo) > 0 /\ Direct \in Nat /\ refs \in Nat
  <2>1. fifo \in Seq(Ops) /\ refs \in Nat
    BY DEF CountInv, TypeOK
  <2>2. Direct \in Nat
    BY NumbersTyped DEF CountInv
  <2> QED
    BY <2>1, <2>2
<1>3. refs + Balance(fifo, 0) >= 1 + Direct
  BY <1>1, <1>2 DEF CountInv, CountStaysUp
<1> QED
  BY <1>1, <1>2, <1>3, BalanceStart

\* A thread inside an operation has a waker to hold, or the poll's.
LEMMA OperationHasSource ==
  ASSUME CountInv, NEW r \in Remotes, rop[r] # NoOp
  PROVE  base = "poll" \/ \E t \in Threads : std[t] > 0
<1>1. /\ rop[r].op \in Ops \ {"Spawn"} /\ rop[r].src \in Sources
      /\ std \in [Threads -> 0..MaxHeld]
  BY DEF CountInv, TypeOK, RemoteInv, RemoteOK
<1>2. CASE rop[r].op \in {"Release", "WakeAndRelease"}
  BY <1>1, <1>2 DEF CountInv, RemoteInv, RemoteOK, Threads
<1>3. CASE rop[r].op \in {"AddRef", "Wake"}
  BY <1>1, <1>3 DEF CountInv, RemoteInv, RemoteOK, Sources, One
<1> QED
  BY <1>1, <1>2, <1>3 DEF Ops

LEMMA HeadSpawn == ASSUME CountInv, fifo # <<>>, Head(fifo) = "Spawn" PROVE Submitted
<1>1. Len(fifo) \in Nat /\ Len(fifo) > 0 /\ Head(fifo) = fifo[1]
  BY DEF CountInv, TypeOK
<1> QED
  BY <1>1 DEF CountInv, Taken

\* Nobody but the scheduler and shutdown reaches a submitted or freed task.
Unreachable ==
  /\ loc = 0 /\ nlocal = 0 /\ ~join /\ base = "idle" /\ rel = "none" /\ ~Has("LISTED")
  /\ \A t \in Threads : std[t] = 0

LEMMA UnreachableSteps ==
  ASSUME CountInv, Unreachable, Next
  PROVE  ShutdownStart \/ ShutdownBarrier \/ ShutdownDone \/ PopFifo
<1>1. \A r \in Remotes : rop[r] = NoOp
  BY OperationHasSource DEF Unreachable
<1>2. \A t \in Threads : ~CanConsume(t)
  BY DEF CanConsume, Unreachable
<1>3. \A t \in Sources : ~CanBorrow(t)
  BY DEF CanBorrow, Unreachable, Sources, One
<1>4. ASSUME NEW r \in Remotes PROVE ~RemoteStep(r) /\ ~RemoteUse(r)
  BY <1>1, <1>2, <1>3, <1>4 DEF RemoteStep, RemoteUse, RemoteTouch, RemotePush, NoOp,
     RemoteBorrowOp, RemoteConsumeOp, RemoteLateDrop, Threads
<1>5. ASSUME NEW t \in Threads, NEW u \in Threads PROVE ~MoveWaker(t, u)
  BY <1>2 DEF MoveWaker
<1>6. ~OwnerUse
  <2>1. Owner \in Threads /\ {Owner, Poll} \subseteq Sources
    BY DEF Sources, Threads
  <2>2. ASSUME NEW src \in {Owner, Poll}
        PROVE  ~OwnerClone(src) /\ ~OwnerWakeByRef(src) /\ ~LocalClone(src)
    <3>1. ~CanBorrow(src) /\ ~(loc > 0)
      BY <1>3, <2>1, <2>2 DEF Unreachable
    <3> QED
      BY <3>1 DEF OwnerClone, OwnerWakeByRef, LocalClone
  <2>3. ~OwnerWake /\ ~OwnerDropWaker
    BY <1>2, <2>1 DEF OwnerWake, OwnerDropWaker
  <2>4. ~LocalDrop /\ ~LocalWakeByRef /\ ~LocalWake /\ ~LocalIntoWaker
    BY DEF LocalDrop, LocalWakeByRef, LocalWake, LocalIntoWaker, Unreachable
  <2>5. ~JoinPoll /\ ~JoinSetCancel /\ ~JoinDrop
    BY DEF JoinPoll, JoinSetCancel, JoinDrop, Unreachable
  <2> QED
    BY <2>2, <2>3, <2>4, <2>5 DEF OwnerUse
<1>7. OwnerStep => ShutdownBarrier \/ ShutdownDone \/ PopFifo
  <2>1. jpoll = "no"
    BY DEF CountInv, StageInv, Unreachable
  <2>2. ~JoinStore /\ ~JoinCheck
    BY <2>1 DEF JoinStore, JoinCheck
  <2> QED
    BY <2>2 DEF OwnerStep, ReleaseLocal, ReleaseTouched, PopLocal, RunTask, DropRunnable,
       PollPending, PollReady, PollPanics, CloseReturns, Returns, CloseFirst, Unreachable
<1> QED
  BY <1>4, <1>5, <1>6, <1>7 DEF Next

LEMMA SubmittedSteps ==
  ASSUME CountInv, Submitted, Next
  PROVE  ShutdownStart \/ ShutdownBarrier \/ (PopFifo /\ Head(fifo) = "Spawn")
<1>1. Unreachable /\ fifo # <<>> /\ Head(fifo) = "Spawn"
  BY DEF Submitted, Unreachable
<1> QED
  BY <1>1, UnreachableSteps DEF ShutdownDone, DrainIdle

LEMMA HeldTyped ==
  ASSUME TypeOK
  PROVE  /\ Held \in Nat /\ Cardinality(StdWakers) \in Nat /\ leaked \in Nat /\ Held >= Own
         /\ Held = Cardinality(StdWakers) + leaked + Own
<1>1. leaked \in Nat
  BY DEF TypeOK
<1> QED
  BY <1>1, StdFinite, NumbersTyped DEF Held

LEMMA FreedSteps ==
  ASSUME CountInv, ~alive, Next
  PROVE  ShutdownStart \/ ShutdownBarrier \/ ShutdownDone
<1>1. Held = 0 /\ fifo = <<>> /\ ~Has("LISTED")
  BY DEF CountInv, FreedInv, StageInv
<1>2. Own = 0 /\ Cardinality(StdWakers) = 0
  BY <1>1, HeldTyped, NumbersTyped DEF CountInv
<1>3. loc = 0 /\ nlocal = 0 /\ ~join /\ base = "idle" /\ rel = "none"
  <2>1. loc \in Nat /\ nlocal \in Nat /\ join \in BOOLEAN
    BY DEF CountInv, TypeOK
  <2> QED
    BY <1>2, <2>1 DEF Own, One
<1>4. \A t \in Threads : std[t] = 0
  BY <1>2, StdPositive DEF CountInv, TypeOK
<1>5. Unreachable
  BY <1>1, <1>3, <1>4 DEF Unreachable
<1> QED
  BY <1>1, <1>5, UnreachableSteps DEF PopFifo

-----------------------------------------------------------------------------
(* Types of what the procedures change. *)

Rels == {"none", "local", "clear", "pending"}

LEMMA WakeLocalType ==
  ASSUME TypeOK, NEW ref \in {"borrowed", "standard", "native"}, WakeLocal(ref)
  PROVE  flags' \subseteq Flags /\ owed' \in BOOLEAN /\ nlocal' \in Nat /\ refs' \in Nat /\ rel' \in Rels
<1>1. owed' \in BOOLEAN
  BY Zenon DEF WakeLocal
<1>2. flags' \subseteq Flags
  BY DEF TypeOK, WakeLocal, Flags
<1>3. nlocal' \in Nat /\ refs' \in Nat /\ rel' \in Rels
  <2>1. nlocal \in Nat /\ refs \in Nat /\ rel \in Rels
    BY DEF TypeOK, Rels
  <2>2. CASE Wakeable /\ ~Has("RUNNING")
    <3>1. nlocal' = nlocal + 1 /\ rel' = rel /\ (refs' = refs + 1 \/ refs' = refs)
      BY <2>2 DEF WakeLocal
    <3> QED
      BY <2>1, <3>1
  <2>3. CASE ~(Wakeable /\ ~Has("RUNNING"))
    <3>1. /\ nlocal' = nlocal
          /\ \/ refs' = refs /\ rel' \in {rel, "local"}
             \/ refs > 1 /\ refs' = refs - 1 /\ rel' = rel
      BY <2>3 DEF WakeLocal, ReleaseUnshared
    <3> QED
      BY <2>1, <3>1 DEF Rels
  <2> QED
    BY <2>2, <2>3
<1> QED
  BY <1>1, <1>2, <1>3

LEMMA ReleaseOrderedType ==
  ASSUME TypeOK, ReleaseOrdered
  PROVE  flags' \subseteq Flags /\ alive' \in BOOLEAN /\ nlocal' \in Nat /\ refs' \in Nat
<1>1. flags' \subseteq Flags
  BY DEF TypeOK, ReleaseOrdered, Flags
<1>2. alive' \in BOOLEAN /\ nlocal' \in Nat /\ refs' \in Nat
  <2>1. alive \in BOOLEAN /\ nlocal \in Nat /\ refs \in Nat
    BY DEF TypeOK
  <2>2. /\ refs' \in {refs - 1, 0, 1} /\ (refs' = refs - 1 => refs > 1 \/ refs' \in {0, 1})
        /\ nlocal' \in {nlocal, nlocal + 1}
    BY DEF ReleaseOrdered
  <2>3. alive' \in BOOLEAN
    BY <2>1, Zenon DEF ReleaseOrdered
  <2> QED
    BY <2>1, <2>2, <2>3
<1> QED
  BY <1>1, <1>2

Bases == {"idle", "hand", "poll", "closing"}

LEMMA DiscardType ==
  ASSUME TypeOK, NEW fl \in SUBSET Flags, Discard(fl)
  PROVE  flags' \subseteq Flags /\ base' \in Bases /\ rel' \in Rels
<1>1. flags' \subseteq Flags
  BY DEF Discard, Flags
<1>2. base' \in Bases /\ rel' \in Rels
  BY DEF TypeOK, Discard, Bases, Rels
<1> QED
  BY <1>1, <1>2

LEMMA CompleteType ==
  ASSUME TypeOK, Complete
  PROVE  /\ flags' \subseteq Flags /\ awaiter' \in BOOLEAN /\ jwoken' \in BOOLEAN
         /\ base' \in Bases /\ rel' \in Rels /\ drops' \in Nat
<1>1. jwoken' \in BOOLEAN
  BY Zenon DEF Complete
<1>2. flags' \subseteq Flags
  BY DEF TypeOK, Complete, Flags
<1>3. awaiter' \in BOOLEAN /\ base' \in Bases /\ rel' \in Rels
  BY Zenon DEF Complete, Bases, Rels
<1>4. drops' \in Nat
  BY DEF TypeOK, Complete
<1> QED
  BY <1>1, <1>2, <1>3, <1>4

LEMMA TypeStep == CountInv /\ [Next]_vars => TypeOK'
<1> SUFFICES ASSUME CountInv, [Next]_vars PROVE TypeOK'
  OBVIOUS
<1> USE DEF counts, queues, joinVars, ownerVars, shutdown, ghosts, CountOp
<1>0. TypeOK /\ RemoteInv
  BY DEF CountInv
<1> USE <1>0 DEF TypeOK
<1>1. ASSUME NEW r \in Remotes, NEW op \in {"AddRef", "Wake"}, NEW src \in Sources,
             RemoteBorrowOp(r, op, src)
      PROVE  TypeOK'
  BY <1>1 DEF RemoteBorrowOp, Ops
<1>2. ASSUME NEW r \in Remotes, NEW op \in {"Release", "WakeAndRelease"},
             RemoteConsumeOp(r, op)
      PROVE  TypeOK'
  BY <1>2 DEF RemoteConsumeOp, Ops, Sources, Threads
<1>3. ASSUME NEW r \in Remotes, RemoteLateDrop(r) PROVE TypeOK'
  BY <1>3 DEF RemoteLateDrop, CanConsume, Threads
<1>4. ASSUME NEW r \in Remotes, RemoteTouch(r) PROVE TypeOK'
  <2>1. rop' \in [Remotes -> [op : Ops \cup {"none"}, src : Sources,
                              at : {"idle", "admitted", "touched"}]]
    BY <1>4 DEF RemoteTouch
  <2> QED
    BY <1>4, <2>1 DEF RemoteTouch
<1>5. ASSUME NEW r \in Remotes, RemotePush(r) PROVE TypeOK'
  <2>1. RemoteOK(r) /\ rop[r].at = "touched"
    BY <1>5 DEF RemotePush, RemoteInv
  <2>2. rop[r].op \in Ops \ {"Spawn"}
    BY <2>1 DEF RemoteOK, NoOp
  <2>3. fifo' \in Seq(Ops)
    BY <1>5, <2>2 DEF RemotePush
  <2>4. std' \in [Threads -> 0..MaxHeld]
    <3>1. /\ rop[r].op = "AddRef" => std[r] < MaxHeld
          /\ rop[r].op \in {"Release", "WakeAndRelease"} => std[r] >= 1
      BY <2>1, Zenon DEF RemoteOK
    <3>2. r \in Threads /\ std[r] \in 0..MaxHeld /\ MaxHeld \in Nat
      BY TaskRefsAssumption DEF Threads
    <3>3. (CASE rop[r].op = "AddRef" -> std[r] + 1
             [] rop[r].op = "Wake" -> std[r]
             [] OTHER -> std[r] - 1) \in 0..MaxHeld
      BY <2>2, <3>1, <3>2, SMTT(60) DEF Ops
    <3> QED
      BY <1>5, <3>3 DEF RemotePush
  <2>5. rop' \in [Remotes -> [op : Ops \cup {"none"}, src : Sources,
                              at : {"idle", "admitted", "touched"}]]
    BY <1>5 DEF RemotePush, NoOp, Sources, Threads
  <2> QED
    BY <1>5, <2>3, <2>4, <2>5 DEF RemotePush
<1>6. ASSUME NEW t \in Threads, NEW u \in Threads, MoveWaker(t, u) PROVE TypeOK'
  BY <1>6, SMTT(60) DEF MoveWaker, CanConsume
<1>7. ASSUME NEW src \in {Owner, Poll}, OwnerClone(src) PROVE TypeOK'
  BY <1>7 DEF OwnerClone, Threads
<1>8. ASSUME NEW src \in {Owner, Poll}, OwnerWakeByRef(src) PROVE TypeOK'
  <2>1. flags' \subseteq Flags /\ owed' \in BOOLEAN /\ nlocal' \in Nat /\ refs' \in Nat /\ rel' \in Rels
    BY <1>8, WakeLocalType DEF OwnerWakeByRef
  <2> QED
    BY <1>8, <2>1 DEF OwnerWakeByRef, Rels
<1>9. CASE OwnerWake
  <2>1. flags' \subseteq Flags /\ owed' \in BOOLEAN /\ nlocal' \in Nat /\ refs' \in Nat /\ rel' \in Rels
    BY <1>9, WakeLocalType DEF OwnerWake
  <2> QED
    BY <1>9, <2>1 DEF OwnerWake, Rels, CanConsume, Threads
<1>10. CASE OwnerDropWaker
  BY <1>10 DEF OwnerDropWaker, CanConsume, Threads
<1>11. ASSUME NEW src \in {Owner, Poll}, LocalClone(src) PROVE TypeOK'
  BY <1>11 DEF LocalClone
<1>12. CASE LocalDrop
  BY <1>12 DEF LocalDrop, ReleaseUnshared
<1>13. CASE LocalWakeByRef
  <2>1. flags' \subseteq Flags /\ owed' \in BOOLEAN /\ nlocal' \in Nat /\ refs' \in Nat /\ rel' \in Rels
    BY <1>13, WakeLocalType DEF LocalWakeByRef
  <2> QED
    BY <1>13, <2>1 DEF LocalWakeByRef, Rels
<1>14. CASE LocalWake
  <2>1. flags' \subseteq Flags /\ owed' \in BOOLEAN /\ nlocal' \in Nat /\ refs' \in Nat /\ rel' \in Rels
    BY <1>14, WakeLocalType DEF LocalWake
  <2> QED
    BY <1>14, <2>1 DEF LocalWake, Rels
<1>15. CASE LocalIntoWaker
  BY <1>15 DEF LocalIntoWaker, ReleaseUnshared, Threads
<1>16. CASE JoinPoll
  BY <1>16 DEF JoinPoll
<1>17. CASE JoinStore
  BY <1>17, ZenonT(60) DEF JoinStore
<1>18. CASE JoinCheck
  <2>1. /\ jpoll' \in {"no", "cloning", "stored", "pending"} /\ awaiter' \in BOOLEAN
        /\ stage' \in {"running", "finished", "consumed"}
    BY <1>18 DEF JoinCheck
  <2> QED
    BY <1>18, <2>1 DEF JoinCheck
<1>19. CASE JoinSetCancel
  BY <1>19 DEF JoinSetCancel, Flags
<1>20. CASE JoinDrop
  <2>1. flags' \subseteq Flags
    BY <1>20 DEF JoinDrop, Flags
  <2>2. refs' \in Nat /\ nlocal' \in Nat /\ rel' \in Rels
    BY <1>20 DEF JoinDrop, ReleaseUnshared, Rels
  <2>3. awaiter' \in BOOLEAN /\ stage' \in {"running", "finished", "consumed"}
    BY <1>20 DEF JoinDrop
  <2> QED
    BY <1>20, <2>1, <2>2, <2>3 DEF JoinDrop, Rels
<1>21. CASE PopLocal
  BY <1>21 DEF PopLocal
<1>22. CASE RunTask
  <2>1. flags' \subseteq Flags /\ base' \in Bases /\ rel' \in Rels
    <3>1. CASE Discard(flags)
      BY <3>1, DiscardType
    <3>2. CASE ~Discard(flags)
      BY <1>22, <3>2 DEF RunTask, Flags, Bases, Rels
    <3> QED
      BY <3>1, <3>2
  <2>2. owed' \in BOOLEAN
    BY <1>22 DEF RunTask
  <2> QED
    BY <1>22, <2>1, <2>2 DEF RunTask, Bases, Rels
<1>23. CASE DropRunnable
  <2>1. flags' \subseteq Flags /\ base' \in Bases /\ rel' \in Rels
    BY <1>23, DiscardType DEF DropRunnable
  <2> QED
    BY <1>23, <2>1 DEF DropRunnable, Bases, Rels
<1>24. CASE PollPending
  <2> DEFINE st == flags \ {"RUNNING"}
  <2>1. flags' \subseteq Flags /\ base' \in Bases /\ rel' \in Rels /\ nlocal' \in Nat
    <3>1. CASE "CLOSE" \in st
      BY <1>24, <3>1, DiscardType DEF PollPending
    <3>2. CASE "CLOSE" \notin st
      BY <1>24, <3>2 DEF PollPending, Bases, Rels
    <3> QED
      BY <3>1, <3>2
  <2> QED
    BY <1>24, <2>1 DEF PollPending, Bases, Rels
<1>25. CASE PollReady
  <2>1. /\ flags' \subseteq Flags /\ awaiter' \in BOOLEAN /\ jwoken' \in BOOLEAN
        /\ base' \in Bases /\ rel' \in Rels /\ drops' \in Nat
    BY <1>25, CompleteType DEF PollReady
  <2> QED
    BY <1>25, <2>1 DEF PollReady, Bases, Rels
<1>26. CASE PollPanics
  BY <1>26 DEF PollPanics
<1>27. CASE CloseReturns
  <2>1. /\ flags' \subseteq Flags /\ awaiter' \in BOOLEAN /\ jwoken' \in BOOLEAN
        /\ base' \in Bases /\ rel' \in Rels /\ drops' \in Nat
    BY <1>27, CompleteType DEF CloseReturns
  <2> QED
    BY <1>27, <2>1 DEF CloseReturns, Bases, Rels
<1>28. CASE ReleaseLocal
  <2>1. flags' \subseteq Flags /\ alive' \in BOOLEAN /\ nlocal' \in Nat /\ refs' \in Nat
    BY <1>28, ReleaseOrderedType DEF ReleaseLocal
  <2>2. rel' \in Rels
    BY <1>28 DEF ReleaseLocal, Rels
  <2> QED
    BY <1>28, <2>1, <2>2 DEF ReleaseLocal, Rels
<1>29. CASE ReleaseTouched
  <2>1. flags' \subseteq Flags /\ alive' \in BOOLEAN /\ nlocal' \in Nat /\ refs' \in Nat
    BY <1>29, ReleaseOrderedType DEF ReleaseTouched
  <2>2. fifo' \in Seq(Ops) /\ rel' = "none"
    BY <1>29, SMTT(60) DEF ReleaseTouched, Ops
  <2> QED
    BY <1>29, <2>1, <2>2 DEF ReleaseTouched
<1>30. CASE PopFifo
  <2>1. fifo' \in Seq(Ops)
    BY <1>30 DEF PopFifo
  <2>2. flags' \subseteq Flags /\ alive' \in BOOLEAN /\ nlocal' \in Nat /\ refs' \in Nat /\ base' \in Bases
    <3>1. CASE ReleaseOrdered /\ UNCHANGED base
      BY <3>1, ReleaseOrderedType DEF Bases
    <3>2. CASE ApplySpawn
      BY <3>2 DEF ApplySpawn, Bases, Flags
    <3>5. CASE ApplyAddRef
      BY <3>5 DEF ApplyAddRef, Bases
    <3>3. ASSUME NEW c \in BOOLEAN, ApplyWake(c), ~ApplyRelease
          PROVE  flags' \subseteq Flags /\ alive' \in BOOLEAN /\ nlocal' \in Nat /\ refs' \in Nat /\ base' \in Bases
      <4>1. refs >= 1
        BY <1>30, CountPositive DEF PopFifo
      <4>2. flags' \subseteq Flags
        BY <3>3 DEF ApplyWake, Flags
      <4> QED
        BY <3>3, <4>1, <4>2 DEF ApplyWake, One, Bases
    <3>4. ApplySpawn \/ ApplyAddRef \/ ApplyRelease \/ ApplyWake(TRUE) \/ ApplyWake(FALSE)
      BY <1>30 DEF PopFifo
    <3> QED
      BY <3>1, <3>2, <3>3, <3>4, <3>5 DEF ApplyRelease
  <2> QED
    BY <1>30, <2>1, <2>2, SMTT(60) DEF PopFifo, Bases
<1>31. CASE ShutdownStart
  BY <1>31 DEF ShutdownStart
<1>32. CASE ShutdownBarrier
  BY <1>32 DEF ShutdownBarrier
<1>33. CASE CloseFirst
  <2>1. flags' \subseteq Flags
    BY <1>33 DEF CloseFirst, Flags
  <2>2. refs' \in Nat /\ base' \in Bases
    BY <1>33 DEF CloseFirst, Bases
  <2> QED
    BY <1>33, <2>1, <2>2 DEF CloseFirst, Bases
<1>34. CASE ShutdownDone
  BY <1>34 DEF ShutdownDone
<1>35. CASE UNCHANGED vars
  BY <1>35 DEF vars
<1> QED
  BY <1>1, <1>2, <1>3, <1>4, <1>5, <1>6, <1>7, <1>8, <1>9, <1>10, <1>11, <1>12, <1>13, <1>14,
     <1>15, <1>16, <1>17, <1>18, <1>19, <1>20, <1>21, <1>22, <1>23, <1>24, <1>25, <1>26, <1>27,
     <1>28, <1>29, <1>30, <1>31, <1>32, <1>33, <1>34, <1>35
     DEF Next, RemoteStep, RemoteUse, OwnerUse, OwnerStep

-----------------------------------------------------------------------------
(* The shape of the state. *)

LEMMA StageStep == CountInv /\ [Next]_vars => StageInv'
<1> SUFFICES ASSUME CountInv, [Next]_vars PROVE StageInv'
  OBVIOUS
<1> USE DEF counts, queues, joinVars, ownerVars, shutdown, ghosts
<1>0. StageInv
  BY DEF CountInv
<1> USE <1>0 DEF StageInv, Has
<1>1. ASSUME NEW src \in {Owner, Poll}, OwnerWakeByRef(src)
      PROVE  StageInv'
  BY <1>1 DEF OwnerWakeByRef, WakeLocal, UserCode
<1>2. CASE OwnerWake
  BY <1>2 DEF OwnerWake, WakeLocal, UserCode
<1>3. CASE LocalWakeByRef
  BY <1>3 DEF LocalWakeByRef, WakeLocal, UserCode
<1>4. CASE LocalWake
  BY <1>4 DEF LocalWake, WakeLocal, ReleaseUnshared, UserCode
<1>5. CASE OwnerDropWaker
  BY <1>5 DEF OwnerDropWaker, UserCode
<1>6. CASE LocalDrop
  BY <1>6 DEF LocalDrop, ReleaseUnshared, UserCode
<1>7. CASE LocalIntoWaker
  BY <1>7 DEF LocalIntoWaker, ReleaseUnshared, UserCode
<1>8. CASE JoinPoll
  BY <1>8 DEF JoinPoll
<1>9. CASE JoinStore
  BY <1>9 DEF JoinStore
<1>10. CASE JoinCheck
  BY <1>10 DEF JoinCheck
<1>11. CASE JoinSetCancel
  BY <1>11 DEF JoinSetCancel
<1>12. CASE JoinDrop
  BY <1>12 DEF JoinDrop, ReleaseUnshared, UserCode
<1>13. CASE PopLocal
  BY <1>13 DEF PopLocal, Scheduler
<1>14. CASE PopFifo
  <2>1. CASE Head(fifo) = "Spawn"
    <3>1. base = "idle" /\ rel = "none" /\ "FINISHED" \notin flags
      BY <1>14, <2>1, HeadSpawn DEF PopFifo, Submitted
    <3>2. /\ flags' = flags \cup {"LISTED"} /\ base' = "hand"
          /\ UNCHANGED <<rel, drops, stage, join, jpoll>>
      BY <1>14, <2>1 DEF PopFifo, ApplySpawn
    <3> QED
      BY <3>1, <3>2
  <2>2. CASE Head(fifo) \in {"AddRef", "Release"}
    BY <1>14, <2>2 DEF PopFifo, Scheduler, ApplyAddRef, ApplyRelease, ReleaseOrdered
  <2>3. ASSUME NEW c \in BOOLEAN, ApplyWake(c) PROVE StageInv'
    BY <1>14, <2>3 DEF PopFifo, Scheduler, ApplyWake, ApplyRelease, ReleaseOrdered
  <2> QED
    BY <1>14, <2>1, <2>2, <2>3 DEF PopFifo
<1>15. CASE RunTask
  BY <1>15 DEF RunTask, Discard
<1>16. CASE DropRunnable
  BY <1>16 DEF DropRunnable, Discard
<1>17. CASE PollPending
  BY <1>17 DEF PollPending, Returns, Discard
<1>18. CASE PollReady
  BY <1>18 DEF PollReady, Returns, Complete, One
<1>19. CASE PollPanics
  BY <1>19 DEF PollPanics, Returns
<1>20. CASE CloseReturns
  BY <1>20 DEF CloseReturns, Returns, Complete, One
<1>21. CASE ReleaseLocal
  BY <1>21 DEF ReleaseLocal, ReleaseOrdered
<1>22. CASE ReleaseTouched
  BY <1>22 DEF ReleaseTouched, ReleaseOrdered
<1>23. CASE CloseFirst
  BY <1>23 DEF CloseFirst, DrainIdle
<1>24. ASSUME UNCHANGED <<flags, base, rel, drops, stage, join, jpoll>> PROVE StageInv'
  BY <1>24
<1> QED
  BY <1>1, <1>2, <1>3, <1>4, <1>5, <1>6, <1>7, <1>8, <1>9, <1>10, <1>11, <1>12, <1>13, <1>14,
     <1>15, <1>16, <1>17, <1>18, <1>19, <1>20, <1>21, <1>22, <1>23, <1>24
     DEF Next, RemoteStep, RemoteUse, OwnerUse, OwnerStep, vars, RemoteBorrowOp, RemoteConsumeOp,
         RemoteLateDrop, RemoteTouch, RemotePush, MoveWaker, OwnerClone, LocalClone,
         ShutdownStart, ShutdownBarrier, ShutdownDone

LEMMA RemoteKept == CountInv /\ [Next]_vars => RemoteInv'
<1> SUFFICES ASSUME CountInv, [Next]_vars PROVE RemoteInv'
  OBVIOUS
<1> USE DEF counts, queues, joinVars, ownerVars, shutdown, ghosts
<1>0. RemoteInv /\ rop \in [Remotes -> [op : Ops \cup {"none"}, src : Sources,
                                        at : {"idle", "admitted", "touched"}]]
      /\ std \in [Threads -> 0..MaxHeld]
  BY DEF CountInv, TypeOK
<1> USE <1>0 DEF RemoteInv, RemoteOK, NoOp, Consuming, One, Ops
<1>1. ASSUME NEW r \in Remotes, NEW op \in {"AddRef", "Wake"}, NEW src \in Sources,
             RemoteBorrowOp(r, op, src)
      PROVE  RemoteInv'
  BY <1>1 DEF RemoteBorrowOp, CanBorrow, Sources
<1>2. ASSUME NEW r \in Remotes, NEW op \in {"Release", "WakeAndRelease"},
             RemoteConsumeOp(r, op)
      PROVE  RemoteInv'
  <2> SUFFICES ASSUME NEW q \in Remotes PROVE RemoteOK(q)'
    OBVIOUS
  <2>1. /\ rop' = [rop EXCEPT ![r] = [op |-> op, src |-> r, at |-> "admitted"]]
        /\ sd = "open" /\ std[r] > 0 /\ (std[r] > 1 \/ ~Borrowed(r)) /\ std[r] \in Nat
        /\ UNCHANGED <<std, base, touched, sd>>
    BY <1>2 DEF RemoteConsumeOp, CanConsume, Threads
  <2>2. CASE q = r
    <3>1. rop'[q] = [op |-> op, src |-> q, at |-> "admitted"]
      BY <2>1, <2>2
    <3> QED
      BY <2>1, <2>2, <3>1
  <2>3. CASE q # r
    <3>1. rop'[q] = rop[q]
      BY <2>1, <2>3
    <3>2. ASSUME NEW x, x # r PROVE Consuming(x)' = Consuming(x)
      BY <2>1, <3>2
    <3>3. CASE rop[q].op \in {"AddRef", "Wake"} /\ rop[q].src = r
      <4>1. std[r] > 1
        BY <2>1, <3>3 DEF Borrowed
      <4> QED
        BY <2>1, <3>1, <3>3, <4>1
    <3>4. CASE ~(rop[q].op \in {"AddRef", "Wake"} /\ rop[q].src = r)
      <4> HIDE DEF Consuming
      <4> QED
        BY <2>1, <3>1, <3>2, <3>4
    <3> QED
      BY <3>3, <3>4
  <2> QED
    BY <2>2, <2>3
<1>3. ASSUME NEW r \in Remotes, RemoteLateDrop(r)
      PROVE  RemoteInv'
  BY <1>3 DEF RemoteLateDrop, CanConsume, Borrowed
<1>4. ASSUME NEW r \in Remotes, RemoteTouch(r)
      PROVE  RemoteInv'
  BY <1>4 DEF RemoteTouch
<1>5. ASSUME NEW r \in Remotes, RemotePush(r)
      PROVE  RemoteInv'
  BY <1>5 DEF RemotePush
<1>6. ASSUME NEW t \in Threads, NEW u \in Threads, MoveWaker(t, u)
      PROVE  RemoteInv'
  <2> SUFFICES ASSUME NEW q \in Remotes PROVE RemoteOK(q)'
    OBVIOUS
  <2>1. /\ std[t] > 0 /\ (std[t] > 1 \/ ~Borrowed(t)) /\ UNCHANGED <<rop, base, touched, sd>>
        /\ \A x \in Threads : std'[x] >= (IF x = t THEN std[x] - 1 ELSE std[x]) 
                                 /\ (x # u => std'[x] <= std[x])
        /\ std \in [Threads -> Nat] /\ std' \in [Threads -> Nat]
        /\ u \in Remotes => rop[u] = NoOp
        /\ t \in Remotes => rop[t] = NoOp
    BY <1>6 DEF MoveWaker, CanConsume
  <2>2. ~Consuming(t)
    BY <2>1
  <2>3. \A x : Consuming(x)' = Consuming(x)
    BY <2>1
  <2>4. rop[q].op \in {"AddRef", "Wake"} /\ rop[q].src # Poll =>
          std'[rop[q].src] >= 1 + One(Consuming(rop[q].src))
    <3>1. CASE rop[q].src = t
      <4> HIDE DEF Consuming
      <4> QED
        BY <2>1, <2>2, <3>1 DEF Borrowed
    <3>2. CASE rop[q].src # t
      <4> HIDE DEF Consuming
      <4> QED
        BY <2>1, <3>2 DEF Sources
    <3> QED
      BY <3>1, <3>2
  <2> HIDE DEF Consuming
  <2> QED
    BY <2>1, <2>3, <2>4 DEF Threads
<1>7. ASSUME NEW src \in {Owner, Poll}, OwnerClone(src)
      PROVE  RemoteInv'
  BY <1>7 DEF OwnerClone, Threads
<1>8. CASE OwnerWake
  BY <1>8 DEF OwnerWake, CanConsume, Borrowed, Threads
<1>9. CASE OwnerDropWaker
  BY <1>9 DEF OwnerDropWaker, CanConsume, Borrowed, Threads
<1>10. CASE LocalIntoWaker
  <2>1. CASE sd = "open"
    <3>1. std' = [std EXCEPT ![Owner] = @ + 1] /\ UNCHANGED <<rop, base, touched, sd>>
      BY <1>10, <2>1 DEF LocalIntoWaker
    <3> QED
      BY <3>1 DEF Threads
  <2>2. CASE sd # "open"
    BY <1>10, <2>2 DEF LocalIntoWaker
  <2> QED
    BY <2>1, <2>2
<1>11. CASE PopFifo
  <2>1. base = "poll" => base' = "poll"
    BY <1>11, HeadSpawn DEF PopFifo, Scheduler, CountInv, StageInv, Has, Wakeable, ApplySpawn,
       ApplyAddRef, ApplyRelease, ApplyWake, Submitted
  <2> QED
    BY <1>11, <2>1 DEF PopFifo
<1>12. CASE RunTask
  BY <1>12 DEF RunTask
<1>13. CASE DropRunnable
  BY <1>13 DEF DropRunnable
<1>14. CASE PollPending
  BY <1>14 DEF PollPending, Returns, Borrowed
<1>15. CASE PollReady
  BY <1>15 DEF PollReady, Returns, Borrowed
<1>16. CASE PollPanics
  BY <1>16 DEF PollPanics, Returns, Borrowed
<1>17. CASE CloseReturns
  BY <1>17 DEF CloseReturns, Returns
<1>18. CASE CloseFirst
  <2>1. base = "poll" => base' = "poll"
    BY <1>18 DEF CloseFirst, CountInv, StageInv
  <2> QED
    BY <1>18, <2>1 DEF CloseFirst
<1>19. CASE PopLocal
  BY <1>19 DEF PopLocal
<1>20. CASE ShutdownStart
  BY <1>20 DEF ShutdownStart
<1>21. CASE ShutdownBarrier
  BY <1>21 DEF ShutdownBarrier
<1>22. CASE ShutdownDone
  BY <1>22 DEF ShutdownDone, DrainIdle
<1>23. ASSUME UNCHANGED <<rop, std, base, touched, sd>> PROVE RemoteInv'
  BY <1>23
<1> HIDE <1>0 DEF RemoteInv, RemoteOK, NoOp, Consuming, One, Ops
<1> QED
  BY <1>1, <1>2, <1>3, <1>4, <1>5, <1>6, <1>7, <1>8, <1>9, <1>10, <1>11, <1>12, <1>13, <1>14,
     <1>15, <1>16, <1>17, <1>18, <1>19, <1>20, <1>21, <1>22, <1>23
     DEF Next, RemoteStep, RemoteUse, OwnerUse, OwnerStep, vars, OwnerWakeByRef, LocalClone,
         LocalDrop, LocalWakeByRef, LocalWake, JoinPoll, JoinStore, JoinCheck, JoinSetCancel,
         JoinDrop, ReleaseLocal, ReleaseTouched


\* Commands that are appended, or left after the first, are no submissions.
LEMMA FifoGrows ==
  ASSUME fifo \in Seq(Ops), NEW x \in Ops \ {"Spawn"}, fifo' = Append(fifo, x), Taken
  PROVE  Taken' /\ fifo' # <<>>
<1>1. /\ Len(fifo') = Len(fifo) + 1 /\ fifo'[Len(fifo) + 1] = x /\ Len(fifo) \in Nat
      /\ \A i \in 1..Len(fifo) : fifo'[i] = fifo[i]
  BY AppendProperties
<1> QED
  BY <1>1 DEF Taken

LEMMA FifoShrinks ==
  ASSUME fifo \in Seq(Ops), fifo # <<>>, fifo' = Tail(fifo)
  PROVE  /\ Taken => Taken'
         /\ \A op : (\A i \in 1..Len(fifo) : fifo[i] = op) => \A i \in 1..Len(fifo') : fifo'[i] = op
<1>1. /\ Len(fifo') = Len(fifo) - 1 /\ Len(fifo) \in Nat /\ Len(fifo) # 0
      /\ \A i \in 1..Len(fifo') : fifo'[i] = fifo[i + 1]
  BY HeadTailProperties
<1> QED
  BY <1>1 DEF Taken

LEMMA FifoStep == CountInv /\ [Next]_vars => (Submitted \/ Taken)' /\ FifoInv'
<1> SUFFICES ASSUME CountInv, [Next]_vars PROVE (Submitted \/ Taken)' /\ FifoInv'
  OBVIOUS
<1> USE DEF counts, queues, joinVars, ownerVars, shutdown, ghosts
<1>0. fifo \in Seq(Ops) /\ FifoInv /\ (Submitted \/ Taken)
  BY DEF CountInv, TypeOK
<1> USE DEF FifoInv
<1>1. CASE Submitted /\ Next
  <2>1. CASE ShutdownStart \/ ShutdownBarrier
    <3>1. /\ UNCHANGED <<alive, counts, queues, std, loc, joinVars, ownerVars, ghosts>>
          /\ sd' # "down"
      BY <2>1 DEF ShutdownStart, ShutdownBarrier
    <3> QED
      BY <1>0, <1>1, <3>1 DEF Submitted, Has
  <2>2. CASE PopFifo /\ Head(fifo) = "Spawn"
    <3>1. fifo' = <<>> /\ UNCHANGED <<touched, rel, sd>> /\ sd # "down"
      BY <1>1, <2>2 DEF PopFifo, Scheduler, Submitted
    <3> QED
      BY <1>0, <3>1 DEF Taken
  <2> QED
    BY <1>1, <2>1, <2>2, SubmittedSteps
<1>2. CASE Submitted /\ UNCHANGED vars
  BY <1>0, <1>2 DEF Submitted, Taken, Has, vars
<1>3. ASSUME NEW r \in Remotes, RemotePush(r)
      PROVE  (Submitted \/ Taken)' /\ FifoInv'
  <2>1. CASE Taken
    <3>1. rop[r].op \in Ops \ {"Spawn"} /\ touched /\ sd # "down"
      BY <1>3 DEF RemotePush, CountInv, RemoteInv, RemoteOK, NoOp
    <3>2. fifo' = Append(fifo, rop[r].op) /\ UNCHANGED <<touched, sd, rel>>
      BY <1>3 DEF RemotePush
    <3> QED
      BY <1>0, <2>1, <3>1, <3>2, FifoGrows
  <2> QED
    BY <1>0, <1>1, <1>3, <2>1 DEF Next, RemoteStep
<1>4. CASE ReleaseTouched
  <2>1. /\ Taken /\ touched' = touched /\ sd' = sd /\ rel' = "none" /\ touched
        /\ fifo' = fifo \/ (fifo' = Append(fifo, "Release") /\ sd # "down")
    BY <1>0, <1>4 DEF ReleaseTouched, Submitted
  <2>2. Taken'
    BY <1>0, <2>1, FifoGrows DEF Ops, Taken
  <2> QED
    BY <1>0, <2>1, <2>2
<1>5. CASE PopFifo /\ Taken
  <2>1. fifo' = Tail(fifo) /\ fifo # <<>> /\ sd # "down" /\ UNCHANGED <<touched, sd, rel>>
    BY <1>5 DEF PopFifo, Scheduler
  <2> QED
    BY <1>0, <1>5, <2>1, FifoShrinks
<1>6. CASE ReleaseLocal
  BY <1>0, <1>6 DEF ReleaseLocal, Taken, Submitted
<1>7. ASSUME Taken, fifo' = fifo, rel' \in {rel, "none", "local"},
             touched => touched', sd' = "down" => sd = "down" \/ fifo = <<>> PROVE (Submitted \/ Taken)' /\ FifoInv'
  BY <1>0, <1>7 DEF Taken
<1>8. ASSUME Taken, NEW r \in Remotes, RemoteUse(r) \/ RemoteTouch(r)
      PROVE  (Submitted \/ Taken)' /\ FifoInv'
  BY <1>7, <1>8 DEF RemoteUse, RemoteTouch, RemoteBorrowOp, RemoteConsumeOp, RemoteLateDrop
<1>9. ASSUME Taken, NEW t \in Threads, NEW u \in Threads, MoveWaker(t, u)
      PROVE  (Submitted \/ Taken)' /\ FifoInv'
  BY <1>7, <1>9 DEF MoveWaker
<1>10. CASE Taken /\ OwnerUse
  BY <1>7, <1>10 DEF OwnerUse, OwnerClone, OwnerWakeByRef, LocalClone, OwnerWake,
     OwnerDropWaker, LocalDrop, LocalWakeByRef, LocalWake, LocalIntoWaker, JoinPoll,
     JoinSetCancel, JoinDrop, WakeLocal, ReleaseUnshared
<1>11. CASE Taken /\ (PopLocal \/ RunTask \/ DropRunnable \/ JoinStore \/ JoinCheck)
  BY <1>7, <1>11 DEF PopLocal, RunTask, DropRunnable, Discard, JoinStore, JoinCheck
<1>12. CASE Taken /\ (PollPending \/ PollReady \/ PollPanics \/ CloseReturns)
  BY <1>7, <1>12 DEF PollPending, PollReady, PollPanics, CloseReturns, Discard, Complete
<1>13. CASE Taken /\ (ShutdownStart \/ ShutdownBarrier \/ CloseFirst \/ ShutdownDone)
  BY <1>7, <1>13 DEF ShutdownStart, ShutdownBarrier, CloseFirst, ShutdownDone, DrainIdle
<1>14. CASE Taken /\ UNCHANGED vars
  BY <1>7, <1>14 DEF vars
<1> QED
  BY <1>0, <1>1, <1>2, <1>3, <1>4, <1>5, <1>6, <1>8, <1>9, <1>10, <1>11, <1>12, <1>13,
     <1>14 DEF Next, RemoteStep, OwnerStep

-----------------------------------------------------------------------------
(* The count. *)

LEMMA NoneSubmitted == Taken => Occurs("Spawn") = 0
<1> SUFFICES ASSUME Taken PROVE Occurs("Spawn") = 0
  OBVIOUS
<1>1. {i \in 1..Len(fifo) : fifo[i] = "Spawn"} = {}
  BY DEF Taken
<1> QED
  BY <1>1, FS_EmptySet DEF Occurs

LEMMA OneSubmitted == ASSUME Submitted PROVE Occurs("Spawn") = 1
<1>1. {i \in 1..Len(fifo) : fifo[i] = "Spawn"} = {1}
  BY DEF Submitted
<1> QED
  BY <1>1, FS_Singleton DEF Occurs

LEMMA CountsTyped == TypeOK => Held \in Nat /\ Direct \in Nat /\ refs \in Nat
<1> SUFFICES ASSUME TypeOK PROVE Held \in Nat /\ Direct \in Nat /\ refs \in Nat
  OBVIOUS
<1>1. refs \in Nat
  BY DEF TypeOK
<1> QED
  BY <1>1, HeldTyped, NumbersTyped

LEMMA CountsTypedStep ==
  ASSUME TypeOK, TypeOK'
  PROVE  /\ Held \in Nat /\ Direct \in Nat /\ refs \in Nat
         /\ Held' \in Nat /\ Direct' \in Nat /\ refs' \in Nat
<1>1. (TypeOK => Held \in Nat /\ Direct \in Nat /\ refs \in Nat)'
  BY CountsTyped, PTL
<1> QED
  BY <1>1, CountsTyped

LEMMA NoneSubmittedNext == ASSUME Taken' PROVE Occurs("Spawn")' = 0
<1>1. (Taken => Occurs("Spawn") = 0)'
  BY NoneSubmitted, PTL
<1> QED
  BY <1>1

\* The arithmetic of the next three lemmas: count r, balance x, references h.
LEMMA Balanced ==
  ASSUME NEW r \in Int, NEW q \in Int, NEW x \in Int, NEW y \in Int, NEW h \in Int,
         NEW g \in Int, NEW d \in Int, r + x = h, q + h = r + g + d, y = x - d
  PROVE  q + y = g
OBVIOUS

LEMMA StillUpSame ==
  ASSUME NEW r \in Int, NEW q \in Int, NEW x \in Int, NEW h \in Int, NEW g \in Int,
         r + x >= 1 + h, q + h >= r + g
  PROVE  q + x >= 1 + g
OBVIOUS

\* The count follows the references while the FIFO stays as it is,
LEMMA CountKept ==
  ASSUME CountInv, TypeOK', Taken, alive, fifo' = fifo, refs' + Held = refs + Held',
         fifo = <<>> \/ refs' + Direct >= refs + Direct'
  PROVE  Account' /\ CountStaysUp'
<1>1. Taken' /\ Len(fifo) \in Nat
  BY NumbersTyped DEF Taken, CountInv
<1>2. /\ refs \in Int /\ refs' \in Int /\ Held \in Int /\ Held' \in Int
      /\ Direct \in Int /\ Direct' \in Int
  BY CountsTypedStep DEF CountInv
<1>3. \A k \in 0..Len(fifo) : Balance(fifo, k) \in Int
  BY <1>1, BalanceInt
<1>4. refs + Balance(fifo, Len(fifo)) = Held
  BY <1>2, NoneSubmitted DEF CountInv, Account
<1>5. Account'
  <2>1. Balance(fifo, Len(fifo)) \in Int
    BY <1>1, <1>3
  <2>2. refs' + Held = refs + Held' + 0 /\ Balance(fifo, Len(fifo)) = Balance(fifo, Len(fifo)) - 0
    BY <1>2, <2>1
  <2>3. refs' + Balance(fifo, Len(fifo)) = Held'
    BY <1>2, <1>4, <2>1, <2>2, Balanced
  <2> QED
    BY <1>1, <1>2, <2>3, NoneSubmittedNext DEF Account
<1>6. CountStaysUp'
  <2> SUFFICES ASSUME NEW k \in 0..(Len(fifo) - 1)
               PROVE  refs' + Balance(fifo, k) >= 1 + Direct'
    BY DEF CountStaysUp
  <2>1. Balance(fifo, k) \in Int /\ refs + Balance(fifo, k) >= 1 + Direct
    BY <1>1, <1>3 DEF CountInv, CountStaysUp
  <2>2. refs' + Direct >= refs + Direct'
    BY DEF CountInv, TypeOK
  <2> QED
    BY <1>2, <2>1, <2>2, StillUpSame, Zenon
<1> QED
  BY <1>5, <1>6

\* when a command is appended,
LEMMA CountGrown ==
  ASSUME CountInv, TypeOK', Taken, alive, NEW x \in Ops \ {"Spawn"}, fifo' = Append(fifo, x),
         refs' = refs, Held' = Held + Delta(x), Direct' <= Direct, Held >= 1 + Direct'
  PROVE  Account' /\ CountStaysUp'
<1>0. fifo \in Seq(Ops)
  BY DEF CountInv, TypeOK
<1>1. Taken' /\ Len(fifo) \in Nat /\ Len(fifo') = Len(fifo) + 1
  BY <1>0, FifoGrows
<1>2. /\ refs \in Nat /\ Held \in Nat /\ Held' \in Nat /\ Direct \in Nat /\ Direct' \in Nat
  BY CountsTypedStep DEF CountInv
<1>3. \A k \in 0..Len(fifo) : Balance(fifo, k) \in Int
  BY <1>1, BalanceInt
<1>4. /\ \A k \in 0..Len(fifo) : Balance(fifo', k) = Balance(fifo, k)
      /\ Balance(fifo', Len(fifo) + 1) = Balance(fifo, Len(fifo)) + Delta(x)
  BY <1>0, BalanceAppend
<1>5. refs + Balance(fifo, Len(fifo)) = Held
  BY <1>2, NoneSubmitted DEF CountInv, Account
<1>6. Account'
  <2>1. refs' + Balance(fifo', Len(fifo')) = Held'
    BY <1>1, <1>2, <1>3, <1>4, <1>5 DEF Delta
  <2> QED
    BY <1>1, <1>2, <2>1, NoneSubmittedNext DEF Account
<1>7. CountStaysUp'
  <2> SUFFICES ASSUME NEW k \in 0..Len(fifo) PROVE refs + Balance(fifo, k) >= 1 + Direct'
    BY <1>1, <1>4 DEF CountStaysUp
  <2>1. CASE k = Len(fifo)
    BY <1>2, <1>5, <2>1
  <2>2. CASE k # Len(fifo)
    <3>1. k \in 0..(Len(fifo) - 1) /\ Balance(fifo, k) \in Int
      BY <1>1, <1>3, <2>2
    <3>2. refs + Balance(fifo, k) >= 1 + Direct
      BY <3>1 DEF CountInv, CountStaysUp
    <3> QED
      BY <1>2, <3>1, <3>2
  <2> QED
    BY <2>1, <2>2
<1> QED
  BY <1>6, <1>7

\* and when the owner applies the first.
Applied ==
  /\ fifo # <<>> /\ fifo' = Tail(fifo)
  /\ refs' + Held = refs + Held' + Delta(Head(fifo))
  /\ refs' + Direct >= refs + Direct' + Delta(Head(fifo))

LEMMA CountShrunk == ASSUME CountInv, TypeOK', Taken, Applied PROVE Account' /\ CountStaysUp'
<1>0. fifo \in Seq(Ops) /\ alive /\ Len(fifo) \in Nat /\ Len(fifo) > 0
  BY CountPositive DEF CountInv, TypeOK, Applied
<1>1. Taken' /\ Len(fifo') = Len(fifo) - 1
  BY <1>0, FifoShrinks DEF Applied
<1> DEFINE d == Delta(Head(fifo))
           b(k) == Balance(fifo, k)
           c(k) == Balance(fifo', k)
<1>2. /\ refs \in Int /\ refs' \in Int /\ Held \in Int /\ Held' \in Int
      /\ Direct \in Int /\ Direct' \in Int /\ d \in Int
  BY CountsTypedStep DEF CountInv, Delta
<1>3. \A k \in 0..Len(fifo) : b(k) \in Int
  BY <1>0, BalanceInt
<1>4. \A k \in 0..(Len(fifo) - 1) : c(k) = b(k + 1) - d
  BY <1>0, BalanceTail DEF Applied
<1>5. refs + b(Len(fifo)) = Held
  BY <1>0, <1>2, NoneSubmitted DEF CountInv, Account
<1>6. refs' + Held = refs + Held' + d /\ refs' + Direct >= refs + Direct' + d
  BY DEF Applied
<1>7. \A k \in 0..(Len(fifo) - 1) : refs + b(k) >= 1 + Direct
  BY <1>0 DEF CountInv, CountStaysUp
<1> HIDE DEF b, c, d
<1> PICK q \in Int, g \in Int, e \in Int : refs' = q /\ Held' = g /\ Direct' = e
  BY <1>2
<1>8. refs' + c(Len(fifo')) = Held'
  <2>1. c(Len(fifo')) = b(Len(fifo)) - d /\ b(Len(fifo)) \in Int
    BY <1>0, <1>1, <1>3, <1>4
  <2> QED
    BY <1>2, <1>5, <1>6, <2>1
<1>9. ASSUME NEW k \in 0..(Len(fifo') - 1) PROVE refs' + c(k) >= 1 + Direct'
  <2>1. /\ k \in 0..(Len(fifo) - 1) /\ k + 1 \in 0..(Len(fifo) - 1) /\ k + 1 \in 0..Len(fifo)
    BY <1>0, <1>1
  <2>2. refs + b(k + 1) >= 1 + Direct /\ c(k) = b(k + 1) - d /\ b(k + 1) \in Int
    BY <1>3, <1>4, <1>7, <2>1
  <2> QED
    BY <1>2, <1>6, <2>2
<1>10. Account'
  BY <1>1, <1>2, <1>8, NoneSubmittedNext DEF Account, c
<1>11. CountStaysUp'
  BY <1>9 DEF CountStaysUp, c
<1> QED
  BY <1>10, <1>11

-----------------------------------------------------------------------------
Counted == Account /\ CountStaysUp /\ FreedInv

LEMMA SameWakers == ASSUME UNCHANGED std PROVE Cardinality(StdWakers') = Cardinality(StdWakers)
<1>1. StdWakers' = StdWakers
  BY DEF StdWakers
<1> QED
  BY <1>1

\* A step that leaves the FIFO alone: what happens to the references.
Moves == alive /\ alive' = alive /\ fifo' = fifo

LEMMA CountMoves ==
  ASSUME CountInv, TypeOK', Taken, Moves, refs' + Held = refs + Held',
         fifo = <<>> \/ refs' + Direct >= refs + Direct'
  PROVE  Counted'
BY CountKept DEF Moves, Counted, FreedInv

LEMMA PartsTyped ==
  ASSUME CountInv
  PROVE  /\ refs \in Nat /\ Cardinality(StdWakers) \in Nat /\ leaked \in Nat /\ loc \in Nat
         /\ nlocal \in Nat /\ join \in BOOLEAN /\ std \in [Threads -> 0..MaxHeld]
BY StdFinite DEF CountInv, TypeOK

\* The last reference that is released by the owner while nothing is pending.
LEMMA ReleasedAlone ==
  ASSUME CountInv, TypeOK', Taken, alive, fifo = <<>>, fifo' = fifo, ReleaseOrdered,
         rel # "none", rel' = "none", UNCHANGED <<std, loc, join, base, leaked>>
  PROVE  Counted'
<1>1. refs = Held
  <2>1. Len(fifo) = 0 /\ Balance(fifo, 0) = 0 /\ Occurs("Spawn") = 0
    BY BalanceStart, NoneSubmitted
  <2>2. refs + 0 = Held + 0 /\ refs \in Nat /\ Held \in Nat
    BY <2>1, CountsTyped DEF CountInv, Account
  <2> QED
    BY <2>2
<1>2. /\ Cardinality(StdWakers') = Cardinality(StdWakers) /\ Cardinality(StdWakers) \in Nat
      /\ loc \in Nat /\ nlocal \in Nat /\ leaked \in Nat /\ refs \in Nat
  BY SameWakers, PartsTyped
<1>3. Held >= 1
  BY <1>2 DEF Held, Own, One
<1>4. CASE refs > 1
  <2>1. refs' = refs - 1 /\ alive' = alive /\ nlocal' = nlocal
    BY <1>4 DEF ReleaseOrdered
  <2>2. refs' + Held = refs + Held'
    BY <1>2, <2>1 DEF Held, Own, One
  <2> QED
    BY <2>1, <2>2, CountMoves DEF Moves
<1>5. CASE refs <= 1 /\ Has("FINISHED")
  <2>1. alive' = FALSE /\ nlocal' = nlocal /\ flags' = flags
    <3>1. ~(refs > 1)
      BY <1>2, <1>5
    <3> QED
      BY <1>5, <3>1 DEF ReleaseOrdered
  <2>2. Held' = Held - 1
    BY <1>2, <2>1 DEF Held, Own, One
  <2>3. Held' = 0
    BY <1>1, <1>2, <1>3, <1>5, <2>2
  <2> QED
    BY <1>5, <2>1, <2>3 DEF Counted, Account, CountStaysUp, FreedInv, Has
<1>6. CASE refs <= 1 /\ ~Has("FINISHED")
  <2>1. refs' = 1 /\ alive' = alive /\ nlocal' = nlocal + 1
    <3>1. ~(refs > 1)
      BY <1>2, <1>6
    <3> QED
      BY <1>6, <3>1 DEF ReleaseOrdered
  <2>2. Held' = Held
    BY <1>2, <2>1 DEF Held, Own, One
  <2>3. refs' + Held = refs + Held'
    BY <1>1, <1>2, <1>3, <1>6, <2>1, <2>2
  <2> QED
    BY <2>1, <2>3, CountMoves DEF Moves
<1> QED
  BY <1>2, <1>4, <1>5, <1>6

\* A release that comes out of the FIFO.
LEMMA ReleasedInOrder ==
  ASSUME CountInv, TypeOK', Taken, fifo # <<>>, fifo' = Tail(fifo), ReleaseOrdered,
         Head(fifo) \in {"Release", "WakeAndRelease"},
         UNCHANGED <<std, loc, join, base, rel, leaked>>
  PROVE  Counted'
<1>1. /\ Cardinality(StdWakers') = Cardinality(StdWakers) /\ Cardinality(StdWakers) \in Nat
      /\ loc \in Nat /\ nlocal \in Nat /\ leaked \in Nat /\ refs \in Nat
      /\ Direct \in Nat /\ Held \in Nat
  BY SameWakers, PartsTyped, CountsTyped DEF CountInv
<1>2. alive /\ refs >= 1 + Direct /\ Len(fifo) \in Nat /\ Len(fifo) > 0 /\ fifo \in Seq(Ops)
  BY CountPositive DEF CountInv, TypeOK
<1>3. Delta(Head(fifo)) = 0 - 1 /\ Direct' = Direct
  BY DEF Delta, Direct
<1>4. CASE refs > 1
  <2>1. refs' = refs - 1 /\ alive' = alive /\ nlocal' = nlocal
    BY <1>4 DEF ReleaseOrdered
  <2>2. Held' = Held
    BY <1>1, <2>1 DEF Held, Own
  <2>3. Applied
    BY <1>1, <1>3, <2>1, <2>2 DEF Applied
  <2> QED
    BY <1>2, <2>1, <2>3, CountShrunk DEF Counted, FreedInv
<1>5. CASE refs <= 1
  <2>1. refs = 1 /\ Direct = 0
    BY <1>1, <1>2, <1>5
  <2>2. Balance(fifo, 1) = 0 - 1
    <3>1. Balance(Tail(fifo), 0) = Balance(fifo, 0 + 1) - Delta(Head(fifo)) /\ Balance(Tail(fifo), 0) = 0
      BY <1>2, BalanceTail, BalanceStart
    <3>2. Balance(fifo, 1) \in Int
      BY BalanceInt
    <3> QED
      BY <1>3, <3>1, <3>2
  <2>3. Len(fifo) = 1
    <3>1. ASSUME Len(fifo) # 1 PROVE FALSE
      <4>1. 1 \in 0..(Len(fifo) - 1)
        <5> PICK n \in Nat : Len(fifo) = n
          BY <1>2
        <5>1. n > 0 /\ n # 1
          BY <1>2, <3>1
        <5> QED
          BY <5>1
      <4>2. refs + Balance(fifo, 1) >= 1 + Direct
        BY <1>2, <4>1 DEF CountInv, CountStaysUp
      <4> QED
        BY <2>1, <2>2, <4>2
    <3> QED
      BY <3>1
  <2>4. fifo' = <<>>
    BY <1>2, <2>3
  <2>5. Held = 0
    <3>1. refs + Balance(fifo, 1) = Held + 0
      BY <1>2, <2>3, NoneSubmitted DEF CountInv, Account
    <3> QED
      BY <1>1, <2>1, <2>2, <3>1
  <2>6. CASE Has("FINISHED")
    <3>1. alive' = FALSE /\ nlocal' = nlocal /\ flags' = flags
      BY <2>1, <2>6 DEF ReleaseOrdered
    <3>2. Held' = Held
      BY <1>1, <3>1 DEF Held, Own
    <3> QED
      BY <2>4, <2>5, <2>6, <3>1, <3>2 DEF Counted, Account, CountStaysUp, FreedInv, Has
  <2>7. CASE ~Has("FINISHED")
    <3>1. refs' = 1 /\ alive' = alive /\ nlocal' = nlocal + 1
      BY <2>1, <2>7 DEF ReleaseOrdered
    <3>2. Held' = Held + 1
      BY <1>1, <3>1 DEF Held, Own, One
    <3>3. Applied
      BY <1>3, <2>1, <2>5, <3>1, <3>2 DEF Applied
    <3> QED
      BY <1>2, <3>1, <3>3, CountShrunk DEF Counted, FreedInv
  <2> QED
    BY <2>6, <2>7
<1> QED
  BY <1>1, <1>4, <1>5

\* One procedure at a time, for a task whose submission has been taken.
Step == CountInv /\ TypeOK' /\ Taken /\ alive

Wakers == Cardinality(StdWakers)

LEMMA WakersKept == ASSUME UNCHANGED std PROVE Wakers' = Wakers
BY SameWakers DEF Wakers

LEMMA StepTyped ==
  ASSUME Step
  PROVE  /\ refs \in Nat /\ Wakers \in Nat /\ leaked \in Nat /\ loc \in Nat
         /\ nlocal \in Nat /\ join \in BOOLEAN /\ std \in [Threads -> 0..MaxHeld]
         /\ Owner \in Threads
         /\ Held = Wakers + leaked + loc + nlocal + One(join) + One(base # "idle") + One(rel # "none")
BY PartsTyped DEF Step, Wakers, Held, Own, Threads, One

LEMMA QuietCount ==
  ASSUME Step, Moves, UNCHANGED <<refs, std, leaked, loc, nlocal, join, rel>>,
         base' = "idle" <=> base = "idle"
  PROVE  Counted'
<1>1. refs \in Nat /\ Direct \in Nat /\ Held \in Nat /\ Held' = Held /\ Direct' = Direct
  <2>1. Held' = Held /\ Direct' = Direct
    BY WakersKept DEF Held, Own, Direct, Wakers, One
  <2> QED
    BY <2>1, CountsTyped DEF Step, CountInv
<1>2. refs' + Held = refs + Held' /\ refs' + Direct >= refs + Direct'
  BY <1>1
<1> QED
  BY <1>2, CountMoves DEF Step

\* A reference changes hands: the count follows the holders.
LEMMA MovedCount ==
  ASSUME Step, Moves, refs' + Held = refs + Held', fifo = <<>> \/ refs' + Direct >= refs + Direct'
  PROVE  Counted'
BY CountMoves DEF Step

LEMMA RemoteCount ==
  ASSUME Step, NEW r \in Remotes, RemoteStep(r) \/ RemoteUse(r) PROVE Counted'
<1> USE DEF counts, queues, joinVars, ownerVars, shutdown, ghosts
<1>0. r \in Threads
  BY DEF Threads
<1>1. ASSUME NEW op, NEW src, RemoteBorrowOp(r, op, src) PROVE Counted'
  BY <1>1, QuietCount DEF RemoteBorrowOp, Moves, Step
<1>2. ASSUME NEW op, RemoteConsumeOp(r, op) PROVE Counted'
  BY <1>2, QuietCount DEF RemoteConsumeOp, Moves, Step
<1>3. CASE RemoteTouch(r)
  BY <1>3, QuietCount DEF RemoteTouch, Moves, Step
<1>4. CASE RemoteLateDrop(r)
  <2>1. /\ UNCHANGED <<refs, loc, nlocal, join, base, rel>> /\ leaked' = leaked + 1
        /\ std[r] > 0 /\ std' = [std EXCEPT ![r] = @ - 1] /\ Moves
    BY <1>4 DEF RemoteLateDrop, Moves, Step, CanConsume
  <2>2. Wakers' = Wakers - 1
    BY <1>0, <2>1, StepTyped, StdRemoved DEF Wakers
  <2>3. refs' + Held = refs + Held' /\ refs' + Direct >= refs + Direct'
    BY <2>1, <2>2, StepTyped DEF Held, Own, Direct, One, Wakers
  <2> QED
    BY <2>1, <2>3, MovedCount
<1>5. CASE RemotePush(r)
  <2> DEFINE op == rop[r].op
  <2>1. /\ op \in Ops \ {"Spawn"} /\ fifo' = Append(fifo, op)
        /\ UNCHANGED <<alive, refs, leaked, loc, nlocal, join, base, rel>>
    BY <1>5 DEF RemotePush, Step, CountInv, RemoteInv, RemoteOK, NoOp
  <2>2. /\ op = "AddRef" => std[r] < MaxHeld
        /\ op \in {"Release", "WakeAndRelease"} => std[r] > 0
        /\ std' = [std EXCEPT ![r] = CASE op = "AddRef" -> @ + 1
                                       [] op = "Wake" -> @
                                       [] OTHER -> @ - 1]
    BY <1>5, <1>0, StepTyped DEF RemotePush, Step, CountInv, RemoteInv, RemoteOK
  <2> HIDE DEF op
  <2>3. Wakers' = Wakers + Delta(op)
    <3>1. CASE op = "AddRef"
      BY <1>0, <2>2, <3>1, StepTyped, StdAdded DEF Wakers, Delta
    <3>2. CASE op = "Wake"
      <4>1. std' = std
        BY <1>0, <2>2, <3>2, StepTyped
      <4>2. Wakers' = Wakers /\ Delta(op) = 0 /\ Wakers \in Nat
        BY <3>2, <4>1, WakersKept, StepTyped DEF Delta
      <4> QED
        BY <4>2
    <3>3. CASE op \in {"Release", "WakeAndRelease"}
      <4>1. std' = [std EXCEPT ![r] = @ - 1] /\ std[r] > 0
        BY <2>2, <3>3
      <4>2. Wakers' = Wakers - 1 /\ Delta(op) = 0 - 1 /\ Wakers \in Nat
        BY <1>0, <3>3, <4>1, StepTyped, StdRemoved DEF Wakers, Delta
      <4> QED
        BY <4>2
    <3> QED
      BY <2>1, <3>1, <3>2, <3>3 DEF Ops
  <2>4. Held' = Held + Delta(op) /\ Direct' = Direct
    <3> PICK d \in Int : Delta(op) = d
      BY DEF Delta
    <3>1. Own' = Own /\ Direct' = Direct /\ leaked' = leaked
      BY <2>1 DEF Own, Direct, One
    <3>2. Held' = Wakers' + leaked' + Own' /\ Held = Wakers + leaked + Own
      BY DEF Held, Wakers
    <3>3. Own \in Nat /\ leaked \in Nat /\ Wakers \in Nat
      BY NumbersTyped, StepTyped DEF Step, CountInv
    <3> QED
      BY <2>3, <3>1, <3>2, <3>3
  <2>5. Held >= 1 + Direct
    <3>1. base = "poll" \/ Wakers > 0
      <4>1. rop[r] # NoOp
        BY <1>5 DEF RemotePush, NoOp
      <4> QED
        BY <4>1, OperationHasSource, StdPositive, StepTyped DEF Step, Wakers
    <3> QED
      BY <3>1, StepTyped DEF Held, Own, Direct, Wakers, One
  <2>6. Direct \in Nat
    BY CountsTyped DEF Step, CountInv
  <2>7. Account' /\ CountStaysUp'
    BY <2>1, <2>4, <2>5, <2>6, CountGrown DEF Step
  <2> QED
    BY <2>1, <2>7 DEF Counted, FreedInv, Step
<1> QED
  BY <1>1, <1>2, <1>3, <1>4, <1>5 DEF RemoteStep, RemoteUse

LEMMA MoveCount ==
  ASSUME Step, NEW t \in Threads, NEW u \in Threads, MoveWaker(t, u) PROVE Counted'
<1> USE DEF counts, queues, joinVars, ownerVars, shutdown, ghosts
<1>1. /\ UNCHANGED <<refs, loc, nlocal, join, base, rel, leaked>>
      /\ t # u /\ std[t] > 0 /\ std[u] < MaxHeld
      /\ std' = [std EXCEPT ![t] = @ - 1, ![u] = @ + 1] /\ Moves
  BY DEF MoveWaker, Moves, Step, CanConsume
<1>2. Wakers' = Wakers
  BY <1>1, StepTyped, StdMoved DEF Wakers
<1>3. refs' + Held = refs + Held' /\ refs' + Direct >= refs + Direct'
  BY <1>1, <1>2, StepTyped DEF Held, Own, Direct, One, Wakers
<1> QED
  BY <1>1, <1>3, MovedCount

\* Code on the owner thread has no release under way.
LEMMA WakeLocalCount ==
  ASSUME Step, rel = "none", NEW ref \in {"borrowed", "standard", "native"}, WakeLocal(ref)
  PROVE  /\ refs' \in Int /\ nlocal' \in Int /\ rel' \in {"none", "local"}
         /\ refs' + nlocal + One(ref # "borrowed") = refs + nlocal' + One(rel' # "none")
         /\ refs' + One(ref = "native") >= refs
<1>1. refs \in Nat /\ nlocal \in Nat
  BY StepTyped
<1>2. CASE Wakeable /\ ~Has("RUNNING")
  <2>1. nlocal' = nlocal + 1 /\ rel' = rel /\ refs' = IF ref = "borrowed" THEN refs + 1 ELSE refs
    BY <1>2 DEF WakeLocal
  <2> QED
    BY <1>1, <2>1 DEF One
<1>3. CASE ~(Wakeable /\ ~Has("RUNNING"))
  <2>1. CASE ref = "borrowed"
    <3>1. UNCHANGED <<refs, rel, nlocal>>
      BY <1>3, <2>1 DEF WakeLocal
    <3> QED
      BY <1>1, <2>1, <3>1 DEF One
  <2>2. CASE ref = "standard"
    <3>1. UNCHANGED <<refs, nlocal>> /\ rel' = "local"
      BY <1>3, <2>2 DEF WakeLocal
    <3> QED
      BY <1>1, <2>2, <3>1 DEF One
  <2>3. CASE ref = "native"
    <3>1. nlocal' = nlocal /\ IF refs > 1 THEN refs' = refs - 1 /\ rel' = rel
                                           ELSE refs' = refs /\ rel' = "local"
      BY <1>3, <2>3 DEF WakeLocal, ReleaseUnshared
    <3> QED
      BY <1>1, <2>3, <3>1 DEF One
  <2> QED
    BY <2>1, <2>2, <2>3
<1> QED
  BY <1>2, <1>3

LEMMA OwnerCount == ASSUME Step, OwnerUse PROVE Counted'
<1> USE DEF counts, queues, joinVars, ownerVars, shutdown, ghosts
<1>0. Owner \in Threads /\ std \in [Threads -> 0..MaxHeld]
  BY StepTyped
<1>1. ASSUME NEW src \in {Owner, Poll}, OwnerClone(src) PROVE Counted'
  <2>1. /\ UNCHANGED <<leaked, loc, nlocal, join, base, rel>> /\ refs' = refs + 1 /\ Moves
        /\ std[Owner] < MaxHeld /\ std' = [std EXCEPT ![Owner] = @ + 1]
    BY <1>1 DEF OwnerClone, Moves, Step
  <2>2. Wakers' = Wakers + 1
    BY <1>0, <2>1, StdAdded DEF Wakers
  <2>3. refs' + Held = refs + Held' /\ refs' + Direct >= refs + Direct'
    BY <2>1, <2>2, StepTyped DEF Held, Own, Direct, One, Wakers
  <2> QED
    BY <2>1, <2>3, MovedCount
<1>2. ASSUME NEW src \in {Owner, Poll}, LocalClone(src) PROVE Counted'
  <2>1. UNCHANGED <<std, leaked, nlocal, join, base, rel>> /\ refs' = refs + 1 /\ loc' = loc + 1 /\ Moves
    BY <1>2 DEF LocalClone, Moves, Step
  <2>2. Wakers' = Wakers
    BY <2>1, WakersKept
  <2>3. refs' + Held = refs + Held' /\ refs' + Direct >= refs + Direct'
    BY <2>1, <2>2, StepTyped DEF Held, Own, Direct, One, Wakers
  <2> QED
    BY <2>1, <2>3, MovedCount
<1>3. ASSUME WakeLocal("borrowed"), rel = "none", Moves, UNCHANGED <<std, leaked, loc, join, base>>
      PROVE  Counted'
  <2>1. /\ refs' \in Int /\ nlocal' \in Int /\ rel' \in {"none", "local"}
        /\ refs' + nlocal + 0 = refs + nlocal' + One(rel' # "none") /\ refs' + 0 >= refs
    BY <1>3, WakeLocalCount DEF One
  <2>2. Wakers' = Wakers
    BY <1>3, WakersKept
  <2>3. refs' + Held = refs + Held' /\ refs' + Direct >= refs + Direct'
    <3> PICK q \in Int, n \in Int : refs' = q /\ nlocal' = n
      BY <2>1
    <3> QED
      BY <1>3, <2>1, <2>2, StepTyped DEF Held, Own, Direct, One, Wakers
  <2> QED
    BY <1>3, <2>3, MovedCount
<1>4. ASSUME NEW src \in {Owner, Poll}, OwnerWakeByRef(src) PROVE Counted'
  BY <1>3, <1>4 DEF OwnerWakeByRef, UserCode, Moves
<1>5. CASE LocalWakeByRef
  BY <1>3, <1>5 DEF LocalWakeByRef, UserCode, Moves
<1>6. CASE OwnerWake
  <2>1. /\ UNCHANGED <<leaked, loc, join, base>> /\ Moves /\ rel = "none"
        /\ std[Owner] > 0 /\ std' = [std EXCEPT ![Owner] = @ - 1]
    BY <1>6 DEF OwnerWake, Moves, UserCode, CanConsume
  <2>2. /\ refs' \in Int /\ nlocal' \in Int /\ rel' \in {"none", "local"}
        /\ refs' + nlocal + 1 = refs + nlocal' + One(rel' # "none") /\ refs' + 0 >= refs
    BY <1>6, <2>1, WakeLocalCount DEF OwnerWake, One
  <2>3. Wakers' = Wakers - 1
    BY <1>0, <2>1, StdRemoved DEF Wakers
  <2>4. refs' + Held = refs + Held' /\ refs' + Direct >= refs + Direct'
    <3> PICK q \in Int, n \in Int : refs' = q /\ nlocal' = n
      BY <2>2
    <3> QED
      BY <2>1, <2>2, <2>3, StepTyped DEF Held, Own, Direct, One, Wakers
  <2> QED
    BY <2>1, <2>4, MovedCount
<1>7. CASE LocalWake
  <2>1. UNCHANGED <<std, leaked, join, base>> /\ Moves /\ rel = "none" /\ loc' = loc - 1
    BY <1>7 DEF LocalWake, Moves, UserCode
  <2>2. /\ refs' \in Int /\ nlocal' \in Int /\ rel' \in {"none", "local"}
        /\ refs' + nlocal + 1 = refs + nlocal' + One(rel' # "none") /\ refs' + 1 >= refs
    BY <1>7, <2>1, WakeLocalCount DEF LocalWake, One
  <2>3. Wakers' = Wakers
    BY <2>1, WakersKept
  <2>4. refs' + Held = refs + Held' /\ refs' + Direct >= refs + Direct'
    <3> PICK q \in Int, n \in Int : refs' = q /\ nlocal' = n
      BY <2>2
    <3> QED
      BY <2>1, <2>2, <2>3, StepTyped DEF Held, Own, Direct, One, Wakers
  <2> QED
    BY <2>1, <2>4, MovedCount
<1>8. CASE OwnerDropWaker
  <2>1. /\ UNCHANGED <<refs, loc, nlocal, join, base>> /\ Moves /\ rel = "none"
        /\ std[Owner] > 0 /\ std' = [std EXCEPT ![Owner] = @ - 1]
        /\ \/ rel' = "local" /\ leaked' = leaked
           \/ leaked' = leaked + 1 /\ rel' = rel
    BY <1>8 DEF OwnerDropWaker, Moves, UserCode, CanConsume
  <2>2. Wakers' = Wakers - 1
    BY <1>0, <2>1, StdRemoved DEF Wakers
  <2>3. refs' + Held = refs + Held' /\ refs' + Direct >= refs + Direct'
    BY <2>1, <2>2, StepTyped DEF Held, Own, Direct, One, Wakers
  <2> QED
    BY <2>1, <2>3, MovedCount
<1>9. ASSUME UNCHANGED <<std, leaked, nlocal, base>>, Moves, rel = "none", ReleaseUnshared,
             \/ loc' = loc - 1 /\ join' = join
             \/ loc' = loc /\ join /\ ~join'
      PROVE  Counted'
  <2>1. \/ refs' = refs - 1 /\ rel' = rel
        \/ refs' = refs /\ rel' = "local"
    BY <1>9 DEF ReleaseUnshared
  <2>2. Wakers' = Wakers
    BY <1>9, WakersKept
  <2>3. refs' + Held = refs + Held' /\ refs' + Direct >= refs + Direct'
    <3>1. CASE refs' = refs - 1 /\ rel' = rel
      BY <1>9, <2>2, <3>1, StepTyped DEF Held, Own, Direct, One, Wakers
    <3>2. CASE refs' = refs /\ rel' = "local"
      BY <1>9, <2>2, <3>2, StepTyped DEF Held, Own, Direct, One, Wakers
    <3> QED
      BY <2>1, <3>1, <3>2
  <2> QED
    BY <1>9, <2>3, MovedCount
<1>10. CASE LocalDrop
  BY <1>9, <1>10 DEF LocalDrop, UserCode, Moves
<1>11. CASE LocalIntoWaker
  <2>1. CASE sd # "open"
    BY <1>9, <1>11, <2>1 DEF LocalIntoWaker, UserCode, Moves
  <2>2. CASE sd = "open"
    <3>1. /\ UNCHANGED <<refs, leaked, nlocal, join, base, rel>> /\ Moves /\ loc' = loc - 1
          /\ std[Owner] < MaxHeld /\ std' = [std EXCEPT ![Owner] = @ + 1]
      BY <1>11, <2>2 DEF LocalIntoWaker, UserCode, Moves
    <3>2. Wakers' = Wakers + 1
      BY <1>0, <3>1, StdAdded DEF Wakers
    <3>3. refs' + Held = refs + Held' /\ refs' + Direct >= refs + Direct'
      BY <3>1, <3>2, StepTyped DEF Held, Own, Direct, One, Wakers
    <3> QED
      BY <3>1, <3>3, MovedCount
  <2> QED
    BY <2>1, <2>2
<1>12. CASE JoinPoll \/ JoinSetCancel
  BY <1>12, QuietCount DEF JoinPoll, JoinSetCancel, Moves, UserCode
<1>13. CASE JoinDrop
  <2>1. UNCHANGED <<std, leaked, loc, base>> /\ Moves /\ rel = "none" /\ join /\ ~join'
    BY <1>13 DEF JoinDrop, UserCode, Moves
  <2>2. \/ nlocal' = nlocal /\ refs' = refs /\ rel' = "local"
        \/ nlocal' = nlocal + 1 /\ refs' = refs /\ rel' = rel
        \/ nlocal' = nlocal /\ ReleaseUnshared
    BY <1>13 DEF JoinDrop
  <2>3. Wakers' = Wakers
    BY <2>1, WakersKept
  <2>4. ASSUME \/ nlocal' = nlocal /\ refs' = refs /\ rel' = "local"
               \/ nlocal' = nlocal + 1 /\ refs' = refs /\ rel' = rel
        PROVE  Counted'
    <3>1. refs' + Held = refs + Held' /\ refs' + Direct >= refs + Direct'
      BY <2>1, <2>3, <2>4, StepTyped DEF Held, Own, Direct, One, Wakers
    <3> QED
      BY <2>1, <3>1, MovedCount
  <2> QED
    BY <1>9, <2>1, <2>2, <2>4
<1> QED
  BY <1>1, <1>2, <1>4, <1>5, <1>6, <1>7, <1>8, <1>10, <1>11, <1>12, <1>13 DEF OwnerUse

LEMMA ReleaseCount == ASSUME Step, ReleaseLocal \/ ReleaseTouched PROVE Counted'
<1> USE DEF counts, queues, joinVars, ownerVars, shutdown, ghosts
<1>0. fifo \in Seq(Ops) /\ FifoInv
  BY DEF Step, CountInv, TypeOK
<1>1. CASE ReleaseLocal /\ ~touched
  <2>1. fifo = <<>>
    <3>1. \A i \in 1..Len(fifo) : FALSE
      BY <1>0, <1>1 DEF FifoInv, Step, Taken
    <3> QED
      BY <1>0, <3>1
  <2> QED
    BY <1>1, <2>1, ReleasedAlone DEF ReleaseLocal, Step
<1>2. CASE ReleaseLocal /\ touched
  <2>1. /\ UNCHANGED <<refs, std, leaked, loc, nlocal, join, base>> /\ Moves
        /\ rel # "none" /\ rel # "clear" /\ rel' # "none" /\ (rel' # "clear" \/ fifo = <<>>)
    BY <1>0, <1>2 DEF ReleaseLocal, Moves, FifoInv, Step
  <2>2. Wakers' = Wakers
    BY <2>1, WakersKept
  <2>3. refs' + Held = refs + Held'
    BY <2>1, <2>2, StepTyped DEF Held, Own, One, Wakers
  <2>4. fifo = <<>> \/ refs' + Direct >= refs + Direct'
    BY <2>1, StepTyped DEF Direct, One
  <2> QED
    BY <2>1, <2>3, <2>4, MovedCount
<1>3. CASE ReleaseTouched
  <2>0. UNCHANGED <<std, leaked, loc, join, base>> /\ rel' = "none" /\ rel \in {"clear", "pending"}
    BY <1>3 DEF ReleaseTouched
  <2>1. CASE ReleaseOrdered /\ fifo' = fifo /\ fifo = <<>>
    BY <2>0, <2>1, ReleasedAlone DEF Step
  <2>2. CASE ReleaseOrdered /\ fifo' = fifo /\ rel = "clear" /\ refs > 1
    <3>1. refs' = refs - 1 /\ nlocal' = nlocal /\ Moves
      BY <2>2 DEF ReleaseOrdered, Moves, Step
    <3>2. Wakers' = Wakers
      BY <2>0, WakersKept
    <3>3. refs' + Held = refs + Held'
      BY <2>0, <2>2, <3>1, <3>2, StepTyped DEF Held, Own, One, Wakers
    <3>4. refs' + Direct >= refs + Direct'
      BY <2>0, <2>2, <3>1, StepTyped DEF Direct, One
    <3> QED
      BY <3>1, <3>3, <3>4, MovedCount
  <2>3. CASE fifo' = Append(fifo, "Release") /\ UNCHANGED <<alive, refs, nlocal>>
    <3>1. Wakers' = Wakers
      BY <2>0, WakersKept
    <3>2. Held' = Held + (0 - 1) /\ Held >= 1 + Direct' /\ Direct' <= Direct
      <4>1. Held' = Held + (0 - 1)
        BY <2>0, <2>3, <3>1, StepTyped, SMTT(60) DEF Held, Own, One, Wakers
      <4>2. CASE rel = "clear"
        <5>1. Held >= 1 + Direct'
          BY <2>0, <2>3, <4>2, StepTyped, SMTT(60) DEF Held, Own, Direct, One, Wakers
        <5>2. Direct' <= Direct
          BY <2>0, <2>3, <4>2, StepTyped DEF Direct, One
        <5> QED
          BY <4>1, <5>1, <5>2
      <4>3. CASE rel = "pending"
        <5>1. Held >= 1 + Direct'
          BY <2>0, <2>3, <4>3, StepTyped, SMTT(60) DEF Held, Own, Direct, One, Wakers
        <5>2. Direct' <= Direct
          BY <2>0, <2>3, <4>3, StepTyped DEF Direct, One
        <5> QED
          BY <4>1, <5>1, <5>2
      <4> QED
        BY <2>0, <4>2, <4>3
    <3>3. "Release" \in Ops \ {"Spawn"} /\ Delta("Release") = 0 - 1
      BY DEF Ops, Delta
    <3>4. Held' = Held + Delta("Release")
      BY <3>2, <3>3
    <3>5. Account' /\ CountStaysUp'
      BY <2>3, <3>2, <3>3, <3>4, CountGrown DEF Step
    <3> QED
      BY <2>3, <3>5 DEF Counted, FreedInv, Step
  <2> QED
    BY <1>0, <1>3, <2>1, <2>2, <2>3 DEF ReleaseTouched, FifoInv
<1> QED
  BY <1>1, <1>2, <1>3

LEMMA RunnerCount ==
  ASSUME Step, PopLocal \/ RunTask \/ DropRunnable \/ PollPending \/ PollReady \/ PollPanics
                 \/ CloseReturns \/ CloseFirst
  PROVE  Counted'
<1> USE DEF counts, queues, joinVars, ownerVars, shutdown, ghosts

\* The reference of the run passes to the queue or to a release.
<1>1. ASSUME UNCHANGED <<refs, std, leaked, loc, join>>, Moves, rel = "none",
             \/ base = "idle" /\ nlocal' = nlocal - 1 /\ base' # "idle" /\ rel' = "none"
             \/ base # "idle" /\ nlocal' = nlocal /\ base' # "idle" /\ rel' = "none"
             \/ base # "idle" /\ nlocal' = nlocal /\ base' = "idle" /\ rel' = "local"
             \/ base # "idle" /\ nlocal' = nlocal + 1 /\ base' = "idle" /\ rel' = "none"
      PROVE  Counted'
  <2>1. Wakers' = Wakers
    BY <1>1, WakersKept
  <2>2. refs' + Held = refs + Held'
    BY <1>1, <2>1, StepTyped DEF Held, Own, One, Wakers
  <2>3. refs' + Direct >= refs + Direct'
    BY <1>1, StepTyped DEF Direct, One
  <2> QED
    BY <1>1, <2>2, <2>3, MovedCount
<1>2. base = "hand" => rel = "none"
  BY DEF Step, CountInv, StageInv
<1>3. CASE PopLocal
  BY <1>1, <1>3 DEF PopLocal, Scheduler, Moves, Step
<1>4. CASE RunTask
  BY <1>1, <1>2, <1>4 DEF RunTask, Discard, Moves, Step
<1>5. CASE DropRunnable
  BY <1>1, <1>2, <1>5 DEF DropRunnable, Discard, Moves, Step
<1>6. CASE PollPending
  BY <1>1, <1>6 DEF PollPending, Discard, Returns, Moves, Step
<1>7. CASE PollReady \/ CloseReturns
  BY <1>1, <1>7 DEF PollReady, CloseReturns, Complete, Returns, Moves, Step
<1>8. CASE PollPanics
  BY <1>8, QuietCount DEF PollPanics, Returns, Moves, Step
<1>9. CASE CloseFirst /\ Has("RUNNING")
  BY <1>9, QuietCount DEF CloseFirst, Moves, Step
<1>10. CASE CloseFirst /\ ~Has("RUNNING")
  <2>1. /\ UNCHANGED <<std, leaked, loc, nlocal, join, rel>> /\ refs' = refs + 1 /\ Moves
        /\ base = "idle" /\ base' = "closing"
    BY <1>10 DEF CloseFirst, DrainIdle, Moves, Step, CountInv, StageInv, TypeOK
  <2>2. Wakers' = Wakers
    BY <2>1, WakersKept
  <2>3. refs' + Held = refs + Held' /\ refs' + Direct >= refs + Direct'
    BY <2>1, <2>2, StepTyped DEF Held, Own, Direct, One, Wakers
  <2> QED
    BY <2>1, <2>3, MovedCount
<1> QED
  BY <1>3, <1>4, <1>5, <1>6, <1>7, <1>8, <1>9, <1>10

LEMMA PopFifoCount == ASSUME Step, PopFifo PROVE Counted'
<1> USE DEF counts, queues, joinVars, ownerVars, shutdown, ghosts
<1> DEFINE op == Head(fifo)
<1>1. /\ fifo # <<>> /\ fifo' = Tail(fifo) /\ UNCHANGED <<std, leaked, loc, join, rel>>
      /\ base # "hand"
  BY DEF PopFifo, Scheduler
<1>2. op \in Ops \ {"Spawn"}
  <2>1. Len(fifo) \in Nat /\ Len(fifo) > 0 /\ op = fifo[1] /\ op \in Ops
    BY <1>1 DEF Step, CountInv, TypeOK
  <2> QED
    BY <2>1 DEF Step, Taken
<1>3. Wakers' = Wakers
  BY <1>1, WakersKept

\* A command that does not release the last reference.
<1>4. ASSUME alive' = alive, nlocal' = nlocal, refs' + Held = refs + Held' + Delta(op),
             refs' + Direct >= refs + Direct' + Delta(op)
      PROVE  Counted'
  <2>1. Applied
    BY <1>1, <1>4 DEF Applied
  <2> QED
    BY <1>4, <2>1, CountShrunk DEF Counted, FreedInv, Step
<1>5. CASE op = "AddRef"
  <2>1. refs' = refs + 1 /\ alive' = alive /\ nlocal' = nlocal /\ base' = base /\ Delta(op) = 1
    BY <1>5 DEF PopFifo, ApplyAddRef, Delta
  <2>2. Held' = Held /\ Direct' = Direct
    BY <1>1, <1>3, <2>1 DEF Held, Own, Direct, One, Wakers
  <2>3. refs \in Nat /\ Held \in Nat /\ Direct \in Nat
    BY CountsTyped DEF Step, CountInv
  <2> QED
    BY <1>4, <2>1, <2>2, <2>3
<1>6. ASSUME op \in {"Release", "WakeAndRelease"}, ApplyRelease PROVE Counted'
  BY <1>1, <1>6, ReleasedInOrder DEF ApplyRelease, Step
<1>7. ASSUME op \in {"Wake", "WakeAndRelease"}, Wakeable, ApplyWake(op = "WakeAndRelease")
      PROVE  Counted'
  <2>1. Delta(op) = IF op = "WakeAndRelease" THEN 0 - 1 ELSE 0
    BY <1>7 DEF Delta
  <2>2. /\ alive' = alive /\ nlocal' = nlocal
        /\ base' = IF Has("RUNNING") THEN base ELSE "hand"
        /\ refs' = (refs + One(~Has("RUNNING"))) - One(op = "WakeAndRelease")
    BY <1>7 DEF ApplyWake
  <2>3. ~Has("RUNNING") => base = "idle"
    BY <1>1 DEF Step, CountInv, StageInv, TypeOK
  <2>4. Held \in Nat /\ refs \in Nat /\ Direct \in Nat /\ Direct' = Direct
    BY <1>1, CountsTyped DEF Step, CountInv, Direct
  <2>5. CASE Has("RUNNING")
    <3>1. base' = base /\ refs' = refs - (IF op = "WakeAndRelease" THEN 1 ELSE 0)
      BY <2>2, <2>4, <2>5 DEF One
    <3>2. Held' = Held
      BY <1>1, <1>3, <2>2, <3>1 DEF Held, Own, Wakers
    <3> QED
      BY <1>4, <2>1, <2>2, <2>4, <3>1, <3>2
  <2>6. CASE ~Has("RUNNING")
    <3>1. base' = "hand" /\ base = "idle" /\ refs' = refs + 1 - (IF op = "WakeAndRelease" THEN 1 ELSE 0)
      BY <2>2, <2>3, <2>4, <2>6 DEF One
    <3>2. Held' = Held + 1
      BY <1>1, <1>3, <2>2, <3>1, StepTyped, SMTT(60) DEF Held, Own, Wakers, One
    <3> QED
      BY <1>4, <2>1, <2>2, <2>4, <3>1, <3>2
  <2> QED
    BY <2>5, <2>6
<1>8. CASE op = "Release"
  BY <1>6, <1>8 DEF PopFifo
<1>9. CASE op \in {"Wake", "WakeAndRelease"}
  <2>1. ApplyWake(op = "WakeAndRelease")
    BY <1>9 DEF PopFifo
  <2>2. CASE Wakeable
    BY <1>7, <1>9, <2>1, <2>2
  <2>3. CASE ~Wakeable /\ op = "WakeAndRelease"
    BY <1>6, <2>1, <2>3 DEF ApplyWake
  <2>4. CASE ~Wakeable /\ op = "Wake"
    <3>1. UNCHANGED <<alive, refs, nlocal, base>> /\ Delta(op) = 0
      BY <2>1, <2>4 DEF ApplyWake, Delta
    <3>2. Held' = Held /\ Direct' = Direct
      BY <1>1, <1>3, <3>1 DEF Held, Own, Direct, One, Wakers
    <3>3. refs \in Nat /\ Held \in Nat /\ Direct \in Nat
      BY CountsTyped DEF Step, CountInv
    <3> QED
      BY <1>4, <3>1, <3>2, <3>3
  <2> QED
    BY <1>9, <2>2, <2>3, <2>4
<1> QED
  BY <1>2, <1>5, <1>8, <1>9 DEF Ops

LEMMA CountStep == CountInv /\ TypeOK' /\ [Next]_vars => Counted'
<1> SUFFICES ASSUME CountInv, TypeOK', [Next]_vars PROVE Counted'
  OBVIOUS
<1> USE DEF counts, queues, joinVars, ownerVars, shutdown, ghosts
<1>1. Counted
  BY DEF CountInv, Counted
<1>2. ASSUME UNCHANGED <<alive, refs, flags, fifo, std, leaked, loc, nlocal, join, base, rel>>
      PROVE  Counted'
  <2>1. Held' = Held /\ Direct' = Direct /\ Occurs("Spawn")' = Occurs("Spawn")
    BY <1>2, SameWakers DEF Held, Own, Direct, One, Occurs
  <2> QED
    BY <1>1, <1>2, <2>1 DEF Counted, Account, CountStaysUp, FreedInv, Has
<1>3. CASE ShutdownStart \/ ShutdownBarrier \/ ShutdownDone \/ UNCHANGED vars
  BY <1>2, <1>3 DEF ShutdownStart, ShutdownBarrier, ShutdownDone, vars
<1>4. CASE Next /\ ~alive
  BY <1>3, <1>4, FreedSteps

\* The owner takes the submission: the runner now has the reference.
<1>5. CASE Next /\ Submitted
  <2>1. CASE PopFifo /\ Head(fifo) = "Spawn"
    <3>1. /\ fifo' = <<>> /\ UNCHANGED <<alive, refs, nlocal, std, leaked, loc, join, rel>>
          /\ base = "idle" /\ base' = "hand" /\ alive
      BY <1>5, <2>1 DEF PopFifo, ApplySpawn, Submitted
    <3>2. Balance(fifo', Len(fifo')) = 0 /\ Occurs("Spawn")' = 0
      <4>1. Taken' /\ Len(fifo') = 0
        BY <3>1 DEF Taken
      <4> QED
        BY <4>1, BalanceStart, NoneSubmittedNext
    <3>3. refs = Held + 1
      <4>1. Balance(fifo, Len(fifo)) = 0
        <5>1. Len(fifo) = 0 + 1 /\ fifo \in Seq(Ops) /\ fifo # <<>> /\ Delta(Head(fifo)) = 0
          BY <1>5 DEF Submitted, Ops, Delta
        <5>2. Balance(Tail(fifo), 0) = Balance(fifo, 0 + 1) - Delta(Head(fifo)) /\ Balance(Tail(fifo), 0) = 0
          BY <5>1, BalanceTail, BalanceStart
        <5>3. Balance(fifo, 0 + 1) \in Int
          BY BalanceInt
        <5> QED
          BY <5>1, <5>2, <5>3
      <4>2. refs + 0 = Held + 1 /\ refs \in Nat /\ Held \in Nat
        BY <1>5, <4>1, OneSubmitted, CountsTyped DEF CountInv, Account, Submitted
      <4> QED
        BY <4>2
    <3>4. Held' = Held + 1
      <4>1. Cardinality(StdWakers') = Cardinality(StdWakers)
        BY <3>1, SameWakers
      <4> QED
        BY <3>1, <4>1, PartsTyped DEF Held, Own, One
    <3>5. Held \in Nat
      BY CountsTyped DEF CountInv
    <3>6. refs' + 0 = Held' + 0
      BY <3>1, <3>3, <3>4, <3>5
    <3> QED
      BY <3>1, <3>2, <3>6 DEF Counted, Account, CountStaysUp, FreedInv
  <2> QED
    BY <1>3, <1>5, <2>1, SubmittedSteps
<1>6. CASE Next /\ alive /\ ~Submitted
  <2>1. Step
    BY <1>6 DEF Step, CountInv
  <2>2. CASE JoinStore \/ JoinCheck
    BY <2>1, <2>2, QuietCount DEF JoinStore, JoinCheck, Moves, UserCode
  <2> QED
    BY <1>3, <1>6, <2>1, <2>2, RemoteCount, MoveCount, OwnerCount, ReleaseCount, RunnerCount,
       PopFifoCount DEF Next, OwnerStep
<1> QED
  BY <1>3, <1>4, <1>5, <1>6

-----------------------------------------------------------------------------
(* The theorems about the count. *)

LEMMA CountInit == Init => CountInv
<1> SUFFICES ASSUME Init PROVE CountInv
  OBVIOUS
<1>1. TypeOK
  <2>1. /\ alive \in BOOLEAN /\ touched \in BOOLEAN /\ join \in BOOLEAN /\ awaiter \in BOOLEAN
        /\ jwoken \in BOOLEAN /\ owed \in BOOLEAN
    BY Zenon DEF Init, Spawned
  <2>2. flags \subseteq Flags /\ fifo \in Seq(Ops) /\ refs \in Nat /\ nlocal \in Nat
    <3>1. fifo \in Seq(Ops)
      <4>1. fifo = <<>> \/ fifo = <<"Spawn">>
        BY DEF Init, Spawned
      <4>2. <<"Spawn">> \in Seq(Ops) /\ <<>> \in Seq(Ops)
        BY DEF Ops
      <4> QED
        BY <4>1, <4>2, Zenon
    <3>2. flags \subseteq Flags
      BY DEF Init, Spawned, Flags
    <3> QED
      BY <3>1, <3>2 DEF Init, Spawned
  <2>3. /\ std \in [Threads -> 0..MaxHeld] /\ loc \in 0..MaxHeld /\ ops \in 0..MaxOps
        /\ leaked \in Nat /\ drops \in Nat
    BY DEF Init
  <2>4. rop \in [Remotes -> [op : Ops \cup {"none"}, src : Sources,
                             at : {"idle", "admitted", "touched"}]]
    BY DEF Init, NoOp, Sources, Threads
  <2> QED
    BY <2>1, <2>2, <2>3, <2>4 DEF Init, TypeOK
<1>2. RemoteInv
  BY DEF Init, RemoteInv, RemoteOK, NoOp, Ops
<1>3. (Submitted \/ Taken) /\ FifoInv
  BY DEF Init, Spawned, Submitted, Taken, FifoInv, Has
<1>4. StageInv
  BY DEF Init, Spawned, StageInv, Has, One
<1>5. Cardinality(StdWakers) = 0
  BY StdNone DEF Init
<1>6. Account /\ CountStaysUp
  <2>1. CASE fifo = <<>>
    <3>1. Len(fifo) = 0 /\ Balance(fifo, 0) = 0 /\ Occurs("Spawn") = 0
      BY <2>1, BalanceStart, NoneSubmitted DEF Taken
    <3>2. refs = Held
      BY <1>5, <2>1 DEF Init, Spawned, Held, Own, One
    <3>3. refs \in Nat /\ Held \in Nat
      BY <1>1, CountsTyped
    <3> QED
      BY <3>1, <3>2, <3>3 DEF Account, CountStaysUp
  <2>2. CASE fifo = <<"Spawn">>
    <3>1. Submitted
      BY <2>2 DEF Init, Spawned, Submitted, Has
    <3>2. Balance(fifo, 0) = 0 /\ Balance(fifo, 1) = 0 /\ Occurs("Spawn") = 1 /\ Len(fifo) = 1
      <4>1. fifo \in Seq(Ops) /\ fifo # <<>> /\ Delta(Head(fifo)) = 0 /\ Len(fifo) = 1
        BY <2>2 DEF Ops, Delta
      <4>2. Balance(Tail(fifo), 0) = Balance(fifo, 0 + 1) - Delta(Head(fifo)) /\ Balance(Tail(fifo), 0) = 0
        BY <4>1, BalanceTail, BalanceStart
      <4>3. Balance(fifo, 0 + 1) \in Int
        BY BalanceInt
      <4> QED
        BY <3>1, <4>1, <4>2, <4>3, BalanceStart, OneSubmitted
    <3>3. refs = 1 /\ Held = 0 /\ Direct = 0
      BY <1>5, <2>2 DEF Init, Spawned, Held, Own, Direct, One
    <3> QED
      BY <3>2, <3>3 DEF Account, CountStaysUp
  <2> QED
    BY <2>1, <2>2 DEF Init, Spawned
<1> QED
  BY <1>1, <1>2, <1>3, <1>4, <1>6 DEF Init, CountInv, FreedInv

LEMMA CountInductive == CountInv /\ [Next]_vars => CountInv'
BY TypeStep, RemoteKept, FifoStep, StageStep, CountStep DEF CountInv, Counted

LEMMA CountInvariant == Spec => []CountInv
BY CountInit, CountInductive, PTL DEF Spec

LEMMA HoldersTyped ==
  ASSUME CountInv
  PROVE  Holders = Held + Occurs("Spawn") /\ Held \in Nat /\ \A op : Occurs(op) \in Nat
<1>1. Len(fifo) \in Nat
  BY NumbersTyped DEF CountInv
<1>2. \A op : Occurs(op) \in Nat
  BY <1>1, UptoNat DEF Occurs, Upto
<1>3. Holders = Held + Occurs("Spawn")
  BY <1>2, PartsTyped DEF Holders, Held, Own, One
<1> QED
  BY <1>2, <1>3, CountsTyped DEF CountInv

\* No procedure of task.rs leaves a variable without its type: in particular no
\* release takes the reference count below zero, on any schedule.
THEOREM TypesKept == Spec => []TypeOK
<1>1. CountInv => TypeOK
  BY DEF CountInv
<1> QED
  BY <1>1, CountInvariant, PTL

\* The owner's count is at all times the number of references, but for the
\* commands in the FIFO, for any number of threads, wakers and operations.
THEOREM CountIsExact == Spec => []RefsAccount
<1>1. CountInv => RefsAccount
  <2> SUFFICES ASSUME CountInv, alive
               PROVE  refs + Occurs("AddRef")
                        = Holders + Occurs("Release") + Occurs("WakeAndRelease")
    BY DEF RefsAccount
  <2> DEFINE a == Occurs("AddRef")
             b == Occurs("Release")
             c == Occurs("WakeAndRelease")
             d == Occurs("Spawn")
  <2>1. refs + (a - b - c) = Held + d
    BY DEF CountInv, Account, Balance, Upto, Occurs
  <2>2. a \in Nat /\ b \in Nat /\ c \in Nat /\ d \in Nat /\ Holders = Held + d /\ Held \in Nat /\ refs \in Nat
    BY HoldersTyped, PartsTyped
  <2> HIDE DEF a, b, c, d
  <2>3. refs + a = Holders + b + c
    BY <2>1, <2>2
  <2> QED
    BY <2>3 DEF a, b, c
<1> QED
  BY <1>1, CountInvariant, PTL

\* A task is freed only when nothing can reach it any more, and its future is
\* dropped exactly once, before that (Runnable::run, close, last_ref).
THEOREM FreedIsUnreachable == Spec => []NoUseAfterFree
<1>1. CountInv => NoUseAfterFree
  <2> SUFFICES ASSUME CountInv PROVE NoUseAfterFree
    OBVIOUS
  <2>1. ASSUME ~alive PROVE ~(Holders > 0) /\ fifo = <<>> /\ \A r \in Remotes : rop[r] = NoOp
    <3>1. Held = 0 /\ fifo = <<>>
      BY <2>1 DEF CountInv, FreedInv
    <3>2. Occurs("Spawn") = 0
      BY <3>1, NoneSubmitted DEF Taken
    <3>3. Cardinality(StdWakers) = 0 /\ base = "idle"
      BY <3>1, PartsTyped, SMTT(60) DEF Held, Own, One
    <3>4. \A t \in Threads : ~(std[t] > 0)
      BY <3>3, StdPositive, PartsTyped
    <3>5. Holders = 0
      BY <3>1, <3>2, HoldersTyped
    <3>6. \A r \in Remotes : rop[r] = NoOp
      BY <3>3, <3>4, OperationHasSource
    <3> QED
      BY <3>1, <3>5, <3>6
  <2>2. drops = One(Has("FINISHED")) /\ (Has("FINISHED") <=> stage # "running")
    BY DEF CountInv, StageInv
  <2>3. ~alive => stage = "consumed"
    <3>1. ~alive => ~join /\ Has("FINISHED")
      BY PartsTyped DEF CountInv, FreedInv, Held, Own, One
    <3> QED
      BY <3>1 DEF CountInv, StageInv, TypeOK
  <2> QED
    BY <2>1, <2>2, <2>3 DEF NoUseAfterFree
<1> QED
  BY <1>1, CountInvariant, PTL

-----------------------------------------------------------------------------
(* Wakes and the join handle. *)

LEMMA InFifoAppend ==
  ASSUME fifo \in Seq(Ops), NEW x \in Ops, fifo' = Append(fifo, x), NEW S, InFifo(S) \/ x \in S
  PROVE  InFifo(S)'
<1>1. /\ Len(fifo') = Len(fifo) + 1 /\ fifo'[Len(fifo) + 1] = x /\ Len(fifo) \in Nat
      /\ \A i \in 1..Len(fifo) : fifo'[i] = fifo[i]
  BY AppendProperties
<1> QED
  BY <1>1 DEF InFifo

LEMMA InFifoTail ==
  ASSUME fifo \in Seq(Ops), fifo # <<>>, fifo' = Tail(fifo), NEW S, InFifo(S), Head(fifo) \notin S
  PROVE  InFifo(S)'
<1>1. /\ Len(fifo') = Len(fifo) - 1 /\ Len(fifo) \in Nat /\ Len(fifo) # 0 /\ Head(fifo) = fifo[1]
      /\ \A i \in 1..Len(fifo') : fifo'[i] = fifo[i + 1]
  BY HeadTailProperties
<1>2. PICK i \in 1..Len(fifo) : fifo[i] \in S
  BY DEF InFifo
<1>3. i - 1 \in 1..Len(fifo') /\ fifo'[i - 1] = fifo[i]
  BY <1>1, <1>2
<1> QED
  BY <1>2, <1>3 DEF InFifo

\* What keeps both: nothing is taken from the queues or from the runner.
Noted == ScheduledInv /\ WakeNoted

LEMMA NotedKept ==
  ASSUME TaskInv, UNCHANGED <<flags, base, owed>>, nlocal' \in {nlocal, nlocal + 1},
         \A S : InFifo(S) => InFifo(S)', sd' = "open" => sd = "open"
  PROVE  Noted'
<1>1. nlocal \in Nat
  BY DEF TaskInv, CountInv, TypeOK
<1>2. nlocal > 0 => nlocal' > 0
  BY <1>1
<1>3. InFifo({"Spawn"}) => InFifo({"Spawn"})'
  OBVIOUS
<1>4. InFifo({"Spawn", "Wake", "WakeAndRelease"}) => InFifo({"Spawn", "Wake", "WakeAndRelease"})'
  OBVIOUS
<1> QED
  BY <1>2, <1>3, <1>4 DEF TaskInv, Noted, ScheduledInv, WakeNoted, Has

LEMMA FifoSame == ASSUME UNCHANGED fifo, NEW S, InFifo(S) PROVE InFifo(S)'
BY DEF InFifo

LEMMA WakeLocalNoted ==
  ASSUME TaskInv, NEW ref, WakeLocal(ref), UNCHANGED <<fifo, base, sd>> PROVE Noted'
<1>1. nlocal \in Nat /\ ScheduledInv /\ WakeNoted
  BY DEF TaskInv, CountInv, TypeOK
<1>2. \A S : InFifo(S) => InFifo(S)'
  BY FifoSame
<1>3. CASE Wakeable /\ ~Has("RUNNING")
  <2>1. nlocal' > 0
    <3>1. nlocal' = nlocal + 1
      BY <1>3 DEF WakeLocal
    <3> QED
      BY <1>1, <3>1
  <2> QED
    BY <2>1 DEF Noted, ScheduledInv, WakeNoted
<1>4. CASE ~Wakeable
  <2>1. nlocal' = nlocal /\ flags' = flags /\ (Has("FINISHED") \/ Has("SCHEDULED"))
    BY <1>4 DEF WakeLocal, Wakeable
  <2>2. InFifo({"Spawn"}) => InFifo({"Spawn", "Wake", "WakeAndRelease"})
    BY DEF InFifo
  <2>3. /\ InFifo({"Spawn"}) => InFifo({"Spawn"})'
        /\ InFifo({"Spawn", "Wake", "WakeAndRelease"}) => InFifo({"Spawn", "Wake", "WakeAndRelease"})'
    BY <1>2
  <2> QED
    BY <1>1, <2>1, <2>2, <2>3 DEF Noted, ScheduledInv, WakeNoted, Has
<1>5. CASE Has("RUNNING") /\ Wakeable
  <2>1. flags' = flags \cup {"SCHEDULED"}
    BY <1>5 DEF WakeLocal
  <2> QED
    BY <1>5, <2>1 DEF Noted, ScheduledInv, WakeNoted, Has
<1> QED
  BY <1>3, <1>4, <1>5

LEMMA ReleaseOrderedNoted ==
  ASSUME TaskInv, ReleaseOrdered, UNCHANGED <<base, owed, sd>>, \A S : InFifo(S) => InFifo(S)'
  PROVE  Noted'
<1>1. CASE UNCHANGED <<flags, nlocal>>
  BY <1>1, NotedKept
<1>2. CASE nlocal' = nlocal + 1
  <2>1. nlocal' > 0
    BY <1>2 DEF TaskInv, CountInv, TypeOK
  <2> QED
    BY <2>1 DEF Noted, ScheduledInv, WakeNoted
<1> QED
  BY <1>1, <1>2 DEF ReleaseOrdered

LEMMA PopFifoNoted == ASSUME TaskInv, PopFifo PROVE Noted'
<1> DEFINE op == Head(fifo)
<1>0. nlocal \in Nat /\ fifo \in Seq(Ops) /\ ScheduledInv /\ WakeNoted /\ StageInv /\ CountInv
  BY DEF TaskInv, CountInv, TypeOK
<1>1. /\ fifo # <<>> /\ fifo' = Tail(fifo) /\ UNCHANGED <<owed, sd>> /\ base # "hand"
  BY DEF PopFifo, Scheduler, ghosts, shutdown
<1>2. op \in Ops
  BY <1>0, <1>1
<1>3. CASE op = "Spawn"
  <2>1. base' = "hand"
    BY <1>3 DEF PopFifo, ApplySpawn
  <2> QED
    BY <2>1 DEF Noted, ScheduledInv, WakeNoted
<1>4. op # "Spawn" => ~InFifo({"Spawn"})
  <2>1. op = fifo[1] /\ (Submitted => fifo[1] = "Spawn")
    BY <1>0, <1>1 DEF Submitted
  <2> QED
    BY <1>0, <2>1 DEF CountInv, Taken, InFifo
<1>5. ASSUME op \in {"AddRef", "Release"} PROVE
        InFifo({"Spawn", "Wake", "WakeAndRelease"}) => InFifo({"Spawn", "Wake", "WakeAndRelease"})'
  BY <1>0, <1>1, <1>5, InFifoTail
<1>6. ASSUME op # "Spawn", ReleaseOrdered, base' = base,
             \/ Has("FINISHED") \/ Has("SCHEDULED")
             \/ InFifo({"Spawn", "Wake", "WakeAndRelease"}) =>
                  InFifo({"Spawn", "Wake", "WakeAndRelease"})'
      PROVE  Noted'
  <2>1. CASE UNCHANGED <<flags, nlocal>>
    BY <1>0, <1>1, <1>4, <1>6, <2>1 DEF Noted, ScheduledInv, WakeNoted, Has
  <2>2. CASE nlocal' = nlocal + 1
    <3>1. nlocal' > 0
      BY <1>0, <2>2
    <3> QED
      BY <3>1 DEF Noted, ScheduledInv, WakeNoted
  <2> QED
    BY <1>6, <2>1, <2>2 DEF ReleaseOrdered
<1>7. CASE op = "AddRef"
  <2>1. UNCHANGED <<flags, nlocal, base>>
    BY <1>7 DEF PopFifo, ApplyAddRef
  <2> QED
    BY <1>0, <1>1, <1>4, <1>5, <1>7, <2>1 DEF Noted, ScheduledInv, WakeNoted, Has
<1>8. CASE op = "Release"
  BY <1>5, <1>6, <1>8 DEF PopFifo, ApplyRelease
<1>9. CASE op \in {"Wake", "WakeAndRelease"}
  <2>1. ApplyWake(op = "WakeAndRelease")
    BY <1>9 DEF PopFifo
  <2>2. CASE Wakeable
    <3>1. flags' = flags \cup {"SCHEDULED"} /\ base' = (IF Has("RUNNING") THEN base ELSE "hand")
      BY <2>1, <2>2 DEF ApplyWake
    <3> QED
      BY <3>1 DEF Noted, ScheduledInv, WakeNoted, Has
  <2>3. CASE ~Wakeable /\ ApplyRelease
    BY <1>6, <1>9, <2>3 DEF ApplyRelease, Wakeable
  <2>4. CASE ~Wakeable /\ UNCHANGED <<flags, nlocal, base>>
    BY <1>0, <1>1, <1>4, <1>9, <2>4 DEF Noted, ScheduledInv, WakeNoted, Has, Wakeable
  <2> QED
    BY <2>1, <2>2, <2>3, <2>4 DEF ApplyWake
<1> QED
  BY <1>2, <1>3, <1>7, <1>8, <1>9 DEF Ops

LEMMA NotedStep == TaskInv /\ [Next]_vars => Noted'
<1> SUFFICES ASSUME TaskInv, [Next]_vars PROVE Noted'
  OBVIOUS
<1> USE DEF counts, queues, joinVars, ownerVars, shutdown, ghosts
<1>0. nlocal \in Nat /\ fifo \in Seq(Ops) /\ ScheduledInv /\ WakeNoted /\ StageInv /\ CountInv
  BY DEF TaskInv, CountInv, TypeOK
<1>1. ASSUME UNCHANGED <<flags, base, owed, nlocal, fifo>>, sd' = "open" => sd = "open" PROVE Noted'
  BY <1>0, <1>1, NotedKept, FifoSame
<1>2. ASSUME NEW r \in Remotes, RemotePush(r) PROVE Noted'
  <2>1. rop[r].op \in Ops
    BY <1>0, <1>2 DEF RemotePush, CountInv, RemoteInv, RemoteOK, NoOp
  <2>2. /\ fifo' = Append(fifo, rop[r].op) /\ UNCHANGED <<flags, base, nlocal, sd>>
        /\ owed' => owed \/ rop[r].op \in {"Wake", "WakeAndRelease"}
    BY <1>2 DEF RemotePush
  <2>3. /\ InFifo({"Spawn"}) => InFifo({"Spawn"})'
        /\ InFifo({"Spawn", "Wake", "WakeAndRelease"}) \/ rop[r].op \in {"Wake", "WakeAndRelease"}
             => InFifo({"Spawn", "Wake", "WakeAndRelease"})'
    BY <1>0, <2>1, <2>2, InFifoAppend
  <2> QED
    BY <1>0, <2>2, <2>3 DEF Noted, ScheduledInv, WakeNoted, Has
<1>3. ASSUME NEW r \in Remotes, RemoteUse(r) \/ RemoteTouch(r) PROVE Noted'
  BY <1>1, <1>3 DEF RemoteUse, RemoteTouch, RemoteBorrowOp, RemoteConsumeOp, RemoteLateDrop
<1>4. ASSUME NEW t \in Threads, NEW u \in Threads, MoveWaker(t, u) PROVE Noted'
  BY <1>1, <1>4 DEF MoveWaker
<1>5. ASSUME NEW src, OwnerWakeByRef(src) PROVE Noted'
  BY <1>5, WakeLocalNoted DEF OwnerWakeByRef
<1>6. CASE OwnerWake
  BY <1>6, WakeLocalNoted DEF OwnerWake
<1>7. CASE LocalWakeByRef
  BY <1>7, WakeLocalNoted DEF LocalWakeByRef
<1>8. CASE LocalWake
  BY <1>8, WakeLocalNoted DEF LocalWake
<1>9. ASSUME NEW src, OwnerClone(src) \/ LocalClone(src) PROVE Noted'
  BY <1>1, <1>9 DEF OwnerClone, LocalClone
<1>10. CASE OwnerDropWaker \/ LocalDrop \/ LocalIntoWaker
  BY <1>1, <1>10 DEF OwnerDropWaker, LocalDrop, LocalIntoWaker
<1>11. CASE JoinPoll \/ JoinStore \/ JoinCheck
  BY <1>1, <1>11 DEF JoinPoll, JoinStore, JoinCheck
<1>12. ASSUME UNCHANGED <<base, owed, fifo, sd>>, nlocal' \in {nlocal, nlocal + 1},
              NEW F \in SUBSET {"CANCEL_ON_DROP", "DETACHED", "CLOSE", "SCHEDULED"},
              flags' = flags \cup F, "SCHEDULED" \in F => nlocal' = nlocal + 1
       PROVE  Noted'
  <2>1. /\ InFifo({"Spawn"}) => InFifo({"Spawn"})'
        /\ InFifo({"Spawn", "Wake", "WakeAndRelease"}) => InFifo({"Spawn", "Wake", "WakeAndRelease"})'
    BY <1>12, FifoSame
  <2>2. (nlocal > 0 => nlocal' > 0) /\ ("SCHEDULED" \in F => nlocal' > 0)
    BY <1>0, <1>12
  <2> QED
    BY <1>0, <1>12, <2>1, <2>2 DEF Noted, ScheduledInv, WakeNoted, Has
<1>13. CASE JoinSetCancel
  <2>1. /\ UNCHANGED <<base, owed, fifo, sd, nlocal>> /\ flags' = flags \cup {"CANCEL_ON_DROP"}
    BY <1>13 DEF JoinSetCancel
  <2> QED
    BY <1>12, <2>1
<1>14. CASE JoinDrop
  <2>1. UNCHANGED <<base, owed, fifo, sd>>
    BY <1>14 DEF JoinDrop
  <2>2. CASE Has("FINISHED")
    BY <1>1, <1>14, <2>1, <2>2 DEF JoinDrop
  <2>3. CASE ~Has("FINISHED") /\ nlocal' = nlocal + 1
    <3>1. nlocal' > 0
      BY <1>0, <2>3
    <3> QED
      BY <3>1 DEF Noted, ScheduledInv, WakeNoted
  <2>4. CASE ~Has("FINISHED") /\ nlocal' # nlocal + 1
    <3>1. nlocal' = nlocal /\ flags' = flags \cup {"DETACHED"} \cup (IF Has("CANCEL_ON_DROP") THEN {"CLOSE"} ELSE {})
      BY <1>14, <2>4 DEF JoinDrop
    <3> DEFINE F == {"DETACHED"} \cup (IF Has("CANCEL_ON_DROP") THEN {"CLOSE"} ELSE {})
    <3>2. /\ F \in SUBSET {"CANCEL_ON_DROP", "DETACHED", "CLOSE", "SCHEDULED"}
          /\ "SCHEDULED" \notin F /\ flags' = flags \cup F
      BY <3>1
    <3> HIDE DEF F
    <3> QED
      BY <1>12, <2>1, <3>1, <3>2
  <2> QED
    BY <2>2, <2>3, <2>4
<1>15. CASE ReleaseLocal
  <2>1. CASE ~touched
    BY <1>15, <2>1, ReleaseOrderedNoted, FifoSame DEF ReleaseLocal
  <2>2. CASE touched
    BY <1>1, <1>15, <2>2 DEF ReleaseLocal
  <2> QED
    BY <2>1, <2>2
<1>16. CASE ReleaseTouched
  <2>1. CASE ReleaseOrdered /\ fifo' = fifo
    BY <1>16, <2>1, ReleaseOrderedNoted, FifoSame DEF ReleaseTouched
  <2>2. CASE fifo' = Append(fifo, "Release") /\ UNCHANGED <<flags, nlocal>>
    <3>1. \A S : InFifo(S) => InFifo(S)'
      BY <1>0, <2>2, InFifoAppend DEF Ops
    <3> QED
      BY <1>16, <2>2, <3>1, NotedKept DEF ReleaseTouched
  <2> QED
    BY <1>16, <2>1, <2>2 DEF ReleaseTouched
<1>17. CASE PopLocal
  <2>1. base' = "hand"
    BY <1>17 DEF PopLocal
  <2> QED
    BY <2>1 DEF Noted, ScheduledInv, WakeNoted
<1>18. ASSUME NEW fl \in SUBSET Flags, Discard(fl) PROVE Noted'
  BY <1>18 DEF Discard, Noted, ScheduledInv, WakeNoted, Has
<1>19. CASE RunTask
  <2>1. CASE Discard(flags)
    BY <1>0, <1>18, <2>1 DEF CountInv, TypeOK
  <2>2. CASE flags' = (flags \ {"SCHEDULED"}) \cup {"RUNNING"} /\ owed' = FALSE
    BY <2>2 DEF Noted, ScheduledInv, WakeNoted, Has
  <2> QED
    BY <1>19, <2>1, <2>2 DEF RunTask
<1>20. CASE DropRunnable
  BY <1>0, <1>18, <1>20 DEF DropRunnable, CountInv, TypeOK
<1>21. CASE PollPending
  <2> DEFINE st == flags \ {"RUNNING"}
  <2>0. st \in SUBSET Flags /\ base = "poll" /\ Has("RUNNING")
    BY <1>0, <1>21 DEF CountInv, TypeOK, PollPending, Returns, StageInv
  <2>1. CASE Discard(st)
    BY <1>18, <2>0, <2>1
  <2>2. CASE flags' = st /\ nlocal' = nlocal + 1
    <3>1. nlocal' > 0
      BY <1>0, <2>2
    <3> QED
      BY <3>1 DEF Noted, ScheduledInv, WakeNoted
  <2>3. CASE flags' = st /\ "SCHEDULED" \notin st /\ UNCHANGED <<nlocal, fifo, owed, sd>>
    <3>1. InFifo({"Spawn", "Wake", "WakeAndRelease"}) => InFifo({"Spawn", "Wake", "WakeAndRelease"})'
      BY <2>3, FifoSame
    <3> QED
      BY <1>0, <2>0, <2>3, <3>1 DEF Noted, ScheduledInv, WakeNoted, Has
  <2> QED
    BY <1>21, <2>1, <2>2, <2>3 DEF PollPending
<1>22. CASE PollReady \/ CloseReturns
  <2>1. "FINISHED" \in flags'
    BY <1>22 DEF PollReady, CloseReturns, Complete
  <2> QED
    BY <2>1 DEF Noted, ScheduledInv, WakeNoted, Has
<1>23. CASE PollPanics
  <2>1. base' = "closing" /\ "SCHEDULED" \notin flags'
    BY <1>23 DEF PollPanics
  <2> QED
    BY <2>1 DEF Noted, ScheduledInv, WakeNoted, Has
<1>24. CASE CloseFirst
  <2>1. /\ sd' # "open" /\ UNCHANGED <<nlocal, fifo>> /\ "RUNNING" \in flags'
    BY <1>24 DEF CloseFirst, DrainIdle, Has
  <2> QED
    BY <2>1 DEF Noted, ScheduledInv, WakeNoted, Has
<1>25. CASE ShutdownStart \/ ShutdownBarrier \/ ShutdownDone \/ UNCHANGED vars
  BY <1>1, <1>25 DEF ShutdownStart, ShutdownBarrier, ShutdownDone, vars
<1> QED
  BY <1>2, <1>3, <1>4, <1>5, <1>6, <1>7, <1>8, <1>9, <1>10, <1>11, <1>13, <1>14, <1>15,
     <1>16, <1>17, <1>19, <1>20, <1>21, <1>22, <1>23, <1>24, <1>25, PopFifoNoted
     DEF Next, RemoteStep, OwnerUse, OwnerStep

LEMMA JoinStep == TaskInv /\ [Next]_vars => AwaiterInv' /\ JoinTold'
<1> SUFFICES ASSUME TaskInv, [Next]_vars PROVE AwaiterInv' /\ JoinTold'
  OBVIOUS
<1> USE DEF counts, queues, joinVars, ownerVars, shutdown, ghosts
<1>0. AwaiterInv /\ JoinTold /\ StageInv
  BY DEF TaskInv, CountInv
<1>1. ASSUME UNCHANGED <<join, jpoll, awaiter, jwoken>>, "FINISHED" \in flags' <=> Has("FINISHED")
      PROVE  AwaiterInv' /\ JoinTold'
  BY <1>0, <1>1 DEF AwaiterInv, JoinTold, Has
<1>2. CASE JoinPoll
  BY <1>0, <1>2 DEF JoinPoll, AwaiterInv, JoinTold, Has
<1>3. CASE JoinStore
  BY <1>0, <1>3 DEF JoinStore, AwaiterInv, JoinTold, Has
<1>4. CASE JoinCheck
  BY <1>0, <1>4 DEF JoinCheck, AwaiterInv, JoinTold, Has
<1>5. CASE JoinDrop
  BY <1>5 DEF JoinDrop, AwaiterInv, JoinTold
<1>6. ASSUME Complete, UNCHANGED <<join, jpoll>>, base \in {"poll", "closing"}
      PROVE  AwaiterInv' /\ JoinTold'
  <2>1. ~Has("FINISHED") /\ (join <=> ~Has("DETACHED"))
    BY <1>0, <1>6 DEF StageInv
  <2>2. join /\ jpoll = "pending" => awaiter /\ ~Has("DETACHED")
    BY <1>0, <2>1 DEF AwaiterInv
  <2>3. "FINISHED" \in flags' /\ jwoken' = (jwoken \/ (awaiter /\ ~Has("DETACHED")))
    BY <1>6 DEF Complete
  <2> QED
    BY <1>6, <2>2, <2>3 DEF AwaiterInv, JoinTold, Has
<1>7. CASE PollReady \/ CloseReturns
  BY <1>6, <1>7 DEF PollReady, CloseReturns, Returns
<1>8. ASSUME NEW r \in Remotes, RemoteStep(r) \/ RemoteUse(r) PROVE AwaiterInv' /\ JoinTold'
  BY <1>1, <1>8 DEF RemoteStep, RemoteUse, RemoteTouch, RemotePush, RemoteBorrowOp, RemoteConsumeOp,
     RemoteLateDrop, Has
<1>9. ASSUME NEW t \in Threads, NEW u \in Threads, MoveWaker(t, u) PROVE AwaiterInv' /\ JoinTold'
  BY <1>1, <1>9 DEF MoveWaker, Has
<1>10. ASSUME NEW src, OwnerClone(src) \/ OwnerWakeByRef(src) \/ LocalClone(src)
       PROVE  AwaiterInv' /\ JoinTold'
  BY <1>1, <1>10 DEF OwnerClone, OwnerWakeByRef, LocalClone, WakeLocal, Has
<1>11. CASE OwnerWake \/ OwnerDropWaker \/ LocalDrop \/ LocalWakeByRef \/ LocalWake
              \/ LocalIntoWaker \/ JoinSetCancel
  BY <1>1, <1>11 DEF OwnerWake, OwnerDropWaker, LocalDrop, LocalWakeByRef, LocalWake,
     LocalIntoWaker, JoinSetCancel, WakeLocal, Has
<1>12. CASE ReleaseLocal \/ ReleaseTouched
  BY <1>1, <1>12 DEF ReleaseLocal, ReleaseTouched, ReleaseOrdered, Has
<1>13. CASE PopFifo
  <2>1. UNCHANGED <<join, jpoll, awaiter, jwoken>>
    BY <1>13 DEF PopFifo
  <2>2. "FINISHED" \in flags' <=> Has("FINISHED")
    BY <1>13 DEF PopFifo, ApplySpawn, ApplyAddRef, ApplyRelease, ApplyWake, ReleaseOrdered, Has
  <2> QED
    BY <1>1, <2>1, <2>2
<1>14. CASE PopLocal \/ RunTask \/ DropRunnable
  BY <1>1, <1>14 DEF PopLocal, RunTask, DropRunnable, Discard, Has
<1>15. CASE PollPending \/ PollPanics \/ CloseFirst
  BY <1>1, <1>15 DEF PollPending, PollPanics, CloseFirst, Discard, Has
<1>16. CASE ShutdownStart \/ ShutdownBarrier \/ ShutdownDone \/ UNCHANGED vars
  BY <1>1, <1>16 DEF ShutdownStart, ShutdownBarrier, ShutdownDone, vars, Has
<1> QED
  BY <1>2, <1>3, <1>4, <1>5, <1>7, <1>8, <1>9, <1>10, <1>11, <1>12, <1>13, <1>14, <1>15,
     <1>16 DEF Next, OwnerUse, OwnerStep

\* While the runtime runs, an issued wake is kept until the task is polled again,
\* wherever it came from, and a pending join is woken by the end of its task
\* (wake_local, WakeEntry::into_runnable, Runnable::run, poll_join, complete).
THEOREM WakesAreKept == Spec => []NoLostWake
<1>1. Init => TaskInv
  <2> SUFFICES ASSUME Init PROVE TaskInv
    OBVIOUS
  <2>1. nlocal > 0 \/ InFifo({"Spawn"})
    BY DEF Init, Spawned, InFifo
  <2>2. nlocal > 0 \/ InFifo({"Spawn", "Wake", "WakeAndRelease"})
    BY <2>1 DEF InFifo
  <2>3. jpoll = "no"
    BY DEF Init
  <2> QED
    BY <2>1, <2>2, <2>3, CountInit DEF TaskInv, ScheduledInv, WakeNoted, AwaiterInv, JoinTold
<1>2. TaskInv /\ [Next]_vars => TaskInv'
  BY CountInductive, NotedStep, JoinStep DEF TaskInv, Noted
<1>3. TaskInv => NoLostWake
  BY DEF TaskInv, NoLostWake, WakeNoted, JoinTold, InFifo
<1> QED
  BY <1>1, <1>2, <1>3, PTL DEF Spec

-----------------------------------------------------------------------------
(* The run queue. *)

HIDE TaskRefsAssumption DEF TaskRefsAssumption
USE RunQueueAssumption DEF admission, queueVars, driver, bounds

-----------------------------------------------------------------------------
(* The admission counter. *)

LEMMA AdmittedFinite == IsFiniteSet(Admitted)
BY FS_Subset DEF Admitted

\* A producer that gets a permit, or gives one up, changes the number of
\* permits that are alive by one.
LEMMA AdmittedOne ==
  ASSUME NEW p \in Producers, p \notin Admitted, Admitted' = Admitted \cup {p}
  PROVE  Cardinality(Admitted') = Cardinality(Admitted) + 1
BY AdmittedFinite, FS_AddElement

LEMMA ReleasedOne ==
  ASSUME NEW p \in Producers, p \in Admitted, Admitted' = Admitted \ {p}
  PROVE  Cardinality(Admitted') = Cardinality(Admitted) - 1
BY AdmittedFinite, FS_RemoveElement

LEMMA CountIsNat == Cardinality(Admitted) \in Nat
BY AdmittedFinite, FS_CardinalityType

AdmInv == QueueTypeOK /\ AdmissionCount

\* The type invariant needs the admission count: `inflight` is decremented
\* without a test and only the count shows that it is positive there.
LEMMA QueueTypeStep == AdmInv /\ [QueueNext]_rqVars => AdmInv'
<1> SUFFICES ASSUME AdmInv, [QueueNext]_rqVars PROVE AdmInv'
  OBVIOUS
<1> USE DEF AdmInv, QueueTypeOK, AdmissionCount
<1> USE DEF Publishers, ProducerPlaces, OwnerPlaces, PollPlaces, DriverPlaces, ShutdownPlaces
<1>1. ASSUME NEW p \in Producers, Admit(p) PROVE AdmInv'
  <2>1. p \notin Admitted /\ Admitted' = Admitted \cup {p}
    BY <1>1 DEF Admit, At, Admitted
  <2>2. AdmissionCount'
    BY <1>1, <2>1, AdmittedOne DEF Admit
  <2> QED
    BY <1>1, <2>2 DEF Admit, At
<1>2. ASSUME NEW p \in Producers, Push(p) PROVE AdmInv'
  <2>1. Admitted' = Admitted
    BY <1>2 DEF Push, At, Admitted
  <2> QED
    BY <1>2, <2>1 DEF Push, At
<1>3. ASSUME NEW p \in Producers, Release(p) PROVE AdmInv'
  <2>1. p \in Admitted /\ Admitted' = Admitted \ {p}
    BY <1>3 DEF Release, At, Admitted
  <2>2. inflight' = Cardinality(Admitted') /\ inflight' = inflight - 1
    BY <1>3, <2>1, ReleasedOne DEF Release
  <2>3. inflight' \in Nat
    <3>1. IsFiniteSet(Admitted')
      BY <2>1, AdmittedFinite, FS_Subset
    <3> QED
      BY <2>2, <3>1, FS_CardinalityType, ZenonT(60)
  <2> QED
    BY <1>3, <2>2, <2>3 DEF Release, At
<1>4. ASSUME NEW p \in Producers, Claim(p) PROVE AdmInv'
  <2>1. Admitted' = Admitted
    BY <1>4 DEF Claim, At, Admitted
  <2> QED
    BY <1>4, <2>1 DEF Claim, At
<1>5. ASSUME NEW p \in Producers, Notify(p) PROVE AdmInv'
  <2>1. Admitted' = Admitted
    BY <1>5 DEF Notify, At, Admitted
  <2> QED
    BY <1>5, <2>1 DEF Notify, At
<1>6. ASSUME ppc' = ppc, inflight' = inflight PROVE AdmissionCount'
  BY <1>6 DEF Admitted
<1> USE DEF Goto
<1>7. ASSUME StartBusy PROVE idle' \in BOOLEAN /\ token' \in BOOLEAN
  BY <1>7, Zenon DEF StartBusy
<1>8. CASE ScheduleLocal
  BY <1>6, <1>7, <1>8 DEF ScheduleLocal
<1>9. CASE OwnerRelease
  <2>1. idle' \in BOOLEAN /\ token' \in BOOLEAN
    BY <1>7, <1>9 DEF OwnerRelease
  <2>2. wakeQueue' \in Seq(Publishers)
    <3>1. QueueOwner \in Publishers /\ (wakeQueue' = wakeQueue \/ wakeQueue' = Append(wakeQueue, QueueOwner))
      BY <1>9 DEF OwnerRelease
    <3> QED
      BY <3>1
  <2>3. done' \in [Publishers -> Nat] /\ sent' \in [Publishers -> Nat]
    BY <1>9 DEF OwnerRelease
  <2> QED
    BY <1>6, <1>9, <2>1, <2>2, <2>3 DEF OwnerRelease
<1>10. CASE RootReady
  BY <1>6, <1>10 DEF RootReady
<1>11. CASE PollStart
  BY <1>6, <1>11 DEF PollStart
<1>12. CASE ClearNotified
  BY <1>6, <1>12 DEF ClearNotified
<1>13. CASE RunLocal
  BY <1>6, <1>13 DEF RunLocal
<1>25. CASE TaskReturns
  BY <1>6, <1>25 DEF TaskReturns
<1>26. CASE LocalDone
  BY <1>6, <1>26 DEF LocalDone
<1>14. CASE CheckRemote
  <2>1. opc' \in OwnerPlaces
    BY <1>14 DEF CheckRemote
  <2>2. budget' \in Nat
    BY <1>14 DEF CheckRemote
  <2> QED
    BY <1>6, <1>14, <2>1, <2>2 DEF CheckRemote
<1>24. CASE RemoteDone
  BY <1>6, <1>24 DEF RemoteDone
<1>15. ASSUME Consume PROVE wakeQueue' \in Seq(Publishers) /\ done' \in [Publishers -> Nat]
  BY <1>15 DEF Consume
<1>16. CASE RunRemote
  BY <1>6, <1>15, <1>16 DEF RunRemote
<1>17. CASE RunRemoteOrphan
  BY <1>6, <1>7, <1>15, <1>17 DEF RunRemoteOrphan
<1>18. CASE FinalCheck
  <2>1. blocking' \in BOOLEAN /\ idle' \in BOOLEAN
    BY <1>18, Zenon DEF FinalCheck
  <2> QED
    BY <1>6, <1>18, <2>1 DEF FinalCheck
<1>19. CASE DriverStep \/ IoEvent
  BY <1>6, <1>19 DEF DriverStep, TickDone, WaitReturns, EventsDone, IoEvent, Wake
<1>20. CASE BlockOn
  <2>1. opc' \in OwnerPlaces /\ runs' \in Nat /\ local' \in Nat
    BY <1>20 DEF BlockOn
  <2>2. idle' \in BOOLEAN /\ token' \in BOOLEAN
    BY <1>7, <1>20 DEF BlockOn
  <2> QED
    BY <1>6, <1>20, <2>1, <2>2 DEF BlockOn
<1>21. CASE Close
  BY <1>6, <1>21 DEF Close
<1>22. CASE ShutdownStep
  BY <1>6, <1>15, <1>22 DEF ShutdownStep, Barrier, DrainFifo, DrainLocal, DrainDone
<1>23. CASE UNCHANGED rqVars
  BY <1>6, <1>23 DEF rqVars
<1> QED
  BY <1>1, <1>2, <1>3, <1>4, <1>5, <1>8, <1>9, <1>10, <1>11, <1>12, <1>13, <1>14,
     <1>16, <1>17, <1>18, <1>19, <1>20, <1>21, <1>22, <1>23, <1>24, <1>25, <1>26
     DEF QueueNext, Produce, QueueUserCode, PollStep, Terminated

LEMMA AdmInit == QueueInit => AdmInv
<1> SUFFICES ASSUME QueueInit PROVE AdmInv
  OBVIOUS
<1>1. Admitted = {}
  BY DEF QueueInit, Admitted
<1>2. AdmissionCount
  BY <1>1, FS_EmptySet DEF QueueInit, AdmissionCount
<1>3. wakeQueue \in Seq(Publishers) /\ opc \in OwnerPlaces /\ ppc \in [Producers -> ProducerPlaces]
  BY DEF QueueInit, ProducerPlaces, OwnerPlaces, PollPlaces
<1>4. sent \in [Publishers -> Nat] /\ done \in [Publishers -> Nat]
  BY DEF QueueInit
<1> QED
  BY <1>2, <1>3, <1>4 DEF QueueInit, AdmInv, QueueTypeOK

\* Type correctness of the run queue and its driver.
THEOREM TypeCorrect == QueueSpec => []QueueTypeOK
<1>1. AdmInv => QueueTypeOK
  BY DEF AdmInv
<1> QED
  BY <1>1, AdmInit, QueueTypeStep, PTL DEF QueueSpec

-----------------------------------------------------------------------------
(* No lost wakeup. *)

WInv == AdmInv /\ WakeupInv

LEMMA WakeupStep == WInv /\ [QueueNext]_rqVars => WakeupInv'
<1> SUFFICES ASSUME WInv, [QueueNext]_rqVars PROVE WakeupInv'
  OBVIOUS
<1> USE DEF WInv, AdmInv, QueueTypeOK, WakeupInv, RunsInPoll, ClosedPlaces, NotifiedOwned,
        Parked, ParkedIdle, ParkedRemote, ParkedLocal, WillNotify, Publishers,
        ProducerPlaces, OwnerPlaces, PollPlaces, DriverPlaces, ShutdownPlaces, Goto
<1>1. ASSUME NEW p \in Producers, Produce(p) PROVE WakeupInv'
  <2>1. CASE Admit(p)
    BY <2>1 DEF Admit, At
  <2>2. CASE Push(p)
    BY <2>2 DEF Push, At
  <2>3. CASE Release(p)
    BY <2>3 DEF Release, At
  <2>4. CASE Claim(p)
    BY <2>4 DEF Claim, At
  <2>5. CASE Notify(p)
    BY <2>5 DEF Notify, At
  <2> QED
    BY <1>1, <2>1, <2>2, <2>3, <2>4, <2>5 DEF Produce
<1>2. CASE ScheduleLocal
  BY <1>2 DEF ScheduleLocal, InUserCode, StartBusy
<1>3. CASE OwnerRelease
  BY <1>3 DEF OwnerRelease, InUserCode, StartBusy
<1>4. CASE RootReady
  BY <1>4 DEF RootReady
<1>5. CASE PollStart \/ ClearNotified
  BY <1>5 DEF PollStart, ClearNotified, MayMissNotified
<1>6. CASE RunLocal \/ TaskReturns \/ LocalDone \/ CheckRemote
  BY <1>6 DEF RunLocal, TaskReturns, LocalDone, CheckRemote
<1>7. CASE RunRemote \/ RunRemoteOrphan \/ RemoteDone
  BY <1>7, SMTT(60) DEF RunRemote, RunRemoteOrphan, RemoteDone, Consume, StartBusy
<1>8. CASE FinalCheck
  BY <1>8 DEF FinalCheck
<1>9. CASE DriverStep \/ IoEvent
  BY <1>9, SMTT(60) DEF DriverStep, TickDone, WaitReturns, EventsDone, IoEvent, Wake
<1>10. CASE BlockOn \/ Close
  BY <1>10 DEF BlockOn, Close, StartBusy
<1>11. CASE ShutdownStep
  BY <1>11 DEF ShutdownStep, Barrier, DrainFifo, DrainLocal, DrainDone, Consume
<1>12. CASE UNCHANGED rqVars
  BY <1>12 DEF rqVars
<1> QED
  BY <1>1, <1>2, <1>3, <1>4, <1>5, <1>6, <1>7, <1>8, <1>9, <1>10, <1>11, <1>12
     DEF QueueNext, QueueUserCode, PollStep, Terminated

LEMMA WInvariant == QueueSpec => []WInv
<1>1. QueueInit => WakeupInv
  BY DEF QueueInit, WakeupInv, RunsInPoll, ClosedPlaces, NotifiedOwned, ShutdownPlaces,
     Parked, ParkedIdle, ParkedRemote, ParkedLocal
<1> QED
  BY <1>1, AdmInit, QueueTypeStep, WakeupStep, PTL DEF QueueSpec, WInv

\* The driver never sleeps over queued work, whatever the number of producers
\* and however their five steps interleave with the owner.
THEOREM WakeupNeverLost == QueueSpec => []NoLostWakeup
<1>1. WInv => NoLostWakeup
  BY DEF WInv, WakeupInv, ParkedRemote, ParkedLocal, Parked, NoLostWakeup
<1> QED
  BY <1>1, WInvariant, PTL

\* A producer that finds `notified` set may leave the wakeup to another one.
THEOREM CoalescingCorrect == QueueSpec => []CoalescingIsSafe
<1>1. WInv => CoalescingIsSafe
  BY DEF WInv, WakeupInv, NotifiedOwned, ShutdownPlaces, CoalescingIsSafe
<1> QED
  BY <1>1, WInvariant, PTL

-----------------------------------------------------------------------------
(* Shutdown. *)

LEMMA QuiescedStep == WInv /\ Quiesced /\ [QueueNext]_rqVars => Quiesced'
<1> SUFFICES ASSUME WInv, Quiesced, [QueueNext]_rqVars PROVE Quiesced'
  OBVIOUS
<1> USE DEF Quiesced, Goto
<1>1. ASSUME NEW p \in Producers, Produce(p) PROVE Quiesced'
  <2>1. CASE Admit(p)
    BY <2>1 DEF Admit, WInv, WakeupInv, ClosedPlaces, ShutdownPlaces
  <2>2. CASE Push(p) \/ Release(p) \/ Claim(p) \/ Notify(p)
    BY <2>2 DEF Push, Release, Claim, Notify, At, Admitted, WInv, AdmInv, QueueTypeOK
  <2> QED
    BY <1>1, <2>1, <2>2 DEF Produce
<1>2. ASSUME ppc' = ppc PROVE Admitted' = Admitted
  BY <1>2 DEF Admitted
<1>3. CASE Barrier
  <2>1. Cardinality(Admitted) = 0
    BY <1>3 DEF Barrier, WInv, AdmInv, AdmissionCount
  <2>2. Admitted = {}
    BY <2>1, AdmittedFinite, FS_EmptySet
  <2> QED
    BY <1>2, <1>3, <2>2 DEF Barrier
<1>4. CASE QueueUserCode \/ IoEvent \/ BlockOn \/ Close
  BY <1>2, <1>4 DEF QueueUserCode, ScheduleLocal, OwnerRelease, RootReady, IoEvent, Wake,
     BlockOn, Close
<1>5. CASE PollStep
  BY <1>2, <1>5 DEF PollStep, PollStart, ClearNotified, RunLocal, TaskReturns, LocalDone,
     CheckRemote, RunRemote, RunRemoteOrphan, RemoteDone, FinalCheck
<1>6. CASE DriverStep
  BY <1>2, <1>6 DEF DriverStep, TickDone, WaitReturns, Wake, EventsDone
<1>7. CASE DrainFifo \/ DrainLocal \/ DrainDone
  BY <1>2, <1>7 DEF DrainFifo, DrainLocal, DrainDone
<1>8. CASE UNCHANGED rqVars
  BY <1>2, <1>8 DEF rqVars
<1> QED
  BY <1>1, <1>3, <1>4, <1>5, <1>6, <1>7, <1>8 DEF QueueNext, ShutdownStep, Terminated

QInv == WInv /\ Quiesced

LEMMA QInvariant == QueueSpec => []QInv
<1>1. QueueInit => Quiesced
  BY DEF QueueInit, Quiesced
<1> QED
  BY <1>1, WInvariant, QuiescedStep, PTL DEF QueueSpec, QInv

\* Once the barrier of shutdown has let the owner through, no other thread can
\* push a command.
THEOREM BarrierHolds == QueueSpec => []NoPublicationAfterBarrier
<1>1. QInv => NoPublicationAfterBarrier
  BY DEF QInv, Quiesced, Admitted, NoPublicationAfterBarrier
<1> QED
  BY <1>1, QInvariant, PTL

LEMMA StaysDrainedStep == QInv /\ StaysDrained /\ [QueueNext]_rqVars => StaysDrained'
<1> SUFFICES ASSUME QInv, StaysDrained, [QueueNext]_rqVars PROVE StaysDrained'
  OBVIOUS
<1> USE DEF StaysDrained, Goto
<1>1. ASSUME NEW p \in Producers, Produce(p) PROVE StaysDrained'
  BY <1>1 DEF Produce, Admit, Push, Release, Claim, Notify, At, QInv, Quiesced, Admitted
<1>2. CASE QueueUserCode
  BY <1>2 DEF QueueUserCode, ScheduleLocal, OwnerRelease, RootReady, InUserCode, QInv, WInv,
     WakeupInv, RunsInPoll
<1>3. CASE PollStep
  BY <1>3 DEF PollStep, PollStart, ClearNotified, RunLocal, TaskReturns, LocalDone,
     CheckRemote, RunRemote, RunRemoteOrphan, RemoteDone, FinalCheck
<1>4. CASE DriverStep \/ IoEvent \/ BlockOn \/ Close \/ ShutdownStep
  BY <1>4 DEF DriverStep, TickDone, WaitReturns, Wake, EventsDone, IoEvent, BlockOn, Close,
     ShutdownStep, Barrier, DrainFifo, DrainLocal, DrainDone
<1>5. CASE UNCHANGED rqVars
  BY <1>5 DEF rqVars
<1> QED
  BY <1>1, <1>2, <1>3, <1>4, <1>5 DEF QueueNext, Terminated

-----------------------------------------------------------------------------
(* Every command is consumed exactly once. *)

LEMMA IndicesFinite ==
  ASSUME NEW s \in Seq(Publishers), NEW t
  PROVE  IsFiniteSet({i \in 1..Len(s) : s[i] = t})
<1>1. Len(s) \in Int
  BY LenProperties
<1> QED
  BY <1>1, FS_Interval, FS_Subset

LEMMA CountAppend ==
  ASSUME NEW s \in Seq(Publishers), NEW a \in Publishers, NEW t \in Publishers
  PROVE  Cardinality({i \in 1..Len(Append(s, a)) : Append(s, a)[i] = t})
           = Cardinality({i \in 1..Len(s) : s[i] = t}) + (IF a = t THEN 1 ELSE 0)
<1> DEFINE S == {i \in 1..Len(s) : s[i] = t}
           A == {i \in 1..Len(Append(s, a)) : Append(s, a)[i] = t}
<1> SUFFICES Cardinality(A) = Cardinality(S) + (IF a = t THEN 1 ELSE 0)
  OBVIOUS
<1>1. IsFiniteSet(S)
  BY IndicesFinite
<1>2. Len(s) + 1 \notin S
  OBVIOUS
<1>3. CASE a = t
  <2>1. A = S \cup {Len(s) + 1}
    BY <1>3
  <2> QED
    BY <1>1, <1>2, <1>3, <2>1, FS_AddElement
<1>4. CASE a # t
  <2>1. A = S
    BY <1>4
  <2>2. Cardinality(S) \in Nat
    BY <1>1, FS_CardinalityType
  <2> HIDE DEF S, A
  <2> QED
    BY <1>4, <2>1, <2>2
<1> QED
  BY <1>3, <1>4

LEMMA CountTail ==
  ASSUME NEW s \in Seq(Publishers), s # <<>>, NEW t \in Publishers
  PROVE  Cardinality({i \in 1..Len(s) : s[i] = t})
           = Cardinality({i \in 1..Len(Tail(s)) : Tail(s)[i] = t})
             + (IF Head(s) = t THEN 1 ELSE 0)
<1> DEFINE S == {i \in 1..Len(s) : s[i] = t}
           T == {i \in 1..Len(Tail(s)) : Tail(s)[i] = t}
           U == {i \in 2..Len(s) : s[i] = t}
           f == [i \in T |-> i + 1]
<1> SUFFICES Cardinality(S) = Cardinality(T) + (IF Head(s) = t THEN 1 ELSE 0)
  OBVIOUS
<1>1. IsFiniteSet(S) /\ IsFiniteSet(T)
  <2>1. Tail(s) \in Seq(Publishers)
    OBVIOUS
  <2> QED
    BY <2>1, IndicesFinite
<1>2. Len(Tail(s)) = Len(s) - 1 /\ \A i \in 1..Len(Tail(s)) : Tail(s)[i] = s[i + 1]
  OBVIOUS
<1>3. f \in Bijection(T, U)
  <2>1. \A i \in T : f[i] \in U
    BY <1>2
  <2>2. \A i, j \in T : f[i] = f[j] => i = j
    OBVIOUS
  <2>3. \A j \in U : \E i \in T : f[i] = j
    <3> TAKE j \in U
    <3>1. j - 1 \in T /\ f[j - 1] = j
      BY <1>2
    <3> QED
      BY <3>1
  <2> QED
    BY <2>1, <2>2, <2>3 DEF Bijection, Injection, Surjection, IsInjective
<1>4. IsFiniteSet(U) /\ Cardinality(U) = Cardinality(T)
  <2> HIDE DEF T, U, f
  <2>1. ExistsBijection(T, U)
    BY <1>3 DEF ExistsBijection
  <2> QED
    BY <1>1, <2>1, FS_Bijection
<1>5. 1 \notin U /\ Cardinality(U) \in Nat
  BY <1>4, FS_CardinalityType
<1>6. CASE Head(s) = t
  <2>1. S = U \cup {1}
    BY <1>6
  <2> HIDE DEF S, T, U
  <2> QED
    BY <1>4, <1>5, <1>6, <2>1, FS_AddElement
<1>7. CASE Head(s) # t
  <2>1. S = U
    BY <1>7
  <2> HIDE DEF S, T, U
  <2> QED
    BY <1>4, <1>5, <1>7, <2>1
<1> QED
  BY <1>6, <1>7

\* What the steps do to the commands: one is pushed, one is consumed, or the
\* owner applies one on the spot, or the FIFO and both counts are unchanged.
PushedBy(t)   == wakeQueue' = Append(wakeQueue, t) /\ sent' = [sent EXCEPT ![t] = @ + 1] /\ done' = done
AppliedBy(t)  == wakeQueue' = wakeQueue /\ sent' = [sent EXCEPT ![t] = @ + 1]
                 /\ done' = [done EXCEPT ![t] = @ + 1]
Consumed      == Consume /\ sent' = sent
NoCommandMove == wakeQueue' = wakeQueue /\ sent' = sent /\ done' = done

LEMMA CommandMoves ==
  ASSUME [QueueNext]_rqVars
  PROVE  \/ \E t \in Publishers : PushedBy(t) \/ AppliedBy(t)
         \/ Consumed \/ NoCommandMove
<1> USE DEF PushedBy, AppliedBy, Consumed, NoCommandMove
<1>1. ASSUME NEW p \in Producers, Produce(p)
      PROVE  PushedBy(p) \/ NoCommandMove
  BY <1>1 DEF Produce, Admit, Push, Release, Claim, Notify
<1>2. CASE QueueUserCode
  <2>1. PushedBy(QueueOwner) \/ AppliedBy(QueueOwner) \/ NoCommandMove
    BY <1>2 DEF QueueUserCode, ScheduleLocal, OwnerRelease, RootReady
  <2> QED
    BY <2>1 DEF Publishers
<1>3. CASE PollStep
  BY <1>3 DEF PollStep, PollStart, ClearNotified, RunLocal, TaskReturns, LocalDone,
     CheckRemote, RunRemote, RunRemoteOrphan, RemoteDone, FinalCheck
<1>4. CASE DriverStep \/ IoEvent \/ BlockOn \/ Close \/ ShutdownStep
  BY <1>4 DEF DriverStep, TickDone, WaitReturns, Wake, EventsDone, IoEvent, BlockOn, Close,
     ShutdownStep, Barrier, DrainFifo, DrainLocal, DrainDone
<1>5. CASE UNCHANGED rqVars
  BY <1>5 DEF rqVars
<1> HIDE DEF PushedBy, AppliedBy, Consumed, NoCommandMove
<1> QED
  BY <1>1, <1>2, <1>3, <1>4, <1>5 DEF QueueNext, Terminated, Publishers

LEMMA ConservationStep == QueueTypeOK /\ Conservation /\ [QueueNext]_rqVars => Conservation'
<1> SUFFICES ASSUME QueueTypeOK, Conservation, [QueueNext]_rqVars, NEW t \in Publishers
             PROVE  sent'[t] = done'[t] + Cardinality(Waiting(t)')
  BY DEF Conservation
<1> DEFINE n == Cardinality(Waiting(t))
<1>1. /\ wakeQueue \in Seq(Publishers) /\ sent \in [Publishers -> Nat] /\ done \in [Publishers -> Nat]
      /\ sent[t] = done[t] + n
  BY DEF QueueTypeOK, Conservation
<1>2. n \in Nat
  BY <1>1, IndicesFinite, FS_CardinalityType DEF Waiting
<1>3. ASSUME NEW u \in Publishers, PushedBy(u)
      PROVE  sent'[t] = done'[t] + Cardinality(Waiting(t)')
  <2>1. Cardinality(Waiting(t)') = n + (IF u = t THEN 1 ELSE 0)
    <3>1. Waiting(t)' = {i \in 1..Len(Append(wakeQueue, u)) : Append(wakeQueue, u)[i] = t}
      BY <1>3 DEF PushedBy, Waiting
    <3>2. Cardinality({i \in 1..Len(Append(wakeQueue, u)) : Append(wakeQueue, u)[i] = t})
            = Cardinality({i \in 1..Len(wakeQueue) : wakeQueue[i] = t}) + (IF u = t THEN 1 ELSE 0)
      BY <1>1, CountAppend
    <3> QED
      BY <3>1, <3>2, Zenon DEF Waiting
  <2> HIDE DEF n
  <2> QED
    BY <1>1, <1>2, <1>3, <2>1 DEF PushedBy
<1>4. ASSUME NEW u \in Publishers, AppliedBy(u)
      PROVE  sent'[t] = done'[t] + Cardinality(Waiting(t)')
  <2>1. Cardinality(Waiting(t)') = n
    BY <1>4 DEF AppliedBy, Waiting
  <2> HIDE DEF n
  <2> QED
    BY <1>1, <1>2, <1>4, <2>1 DEF AppliedBy
<1>5. CASE Consumed
  <2>1. n = Cardinality(Waiting(t)') + (IF Head(wakeQueue) = t THEN 1 ELSE 0)
    BY <1>1, <1>5, CountTail, ZenonT(60) DEF Consumed, Consume, Waiting
  <2>2. Cardinality(Waiting(t)') \in Nat
    <3>1. wakeQueue' \in Seq(Publishers)
      BY <1>1, <1>5 DEF Consumed, Consume
    <3> QED
      BY <3>1, IndicesFinite, FS_CardinalityType DEF Waiting
  <2> HIDE DEF n
  <2> QED
    BY <1>1, <1>2, <1>5, <2>1, <2>2, SMTT(60) DEF Consumed, Consume
<1>6. CASE NoCommandMove
  BY <1>1, <1>6 DEF NoCommandMove, Waiting
<1> QED
  BY <1>3, <1>4, <1>5, <1>6, CommandMoves

\* A runtime that has been dropped holds no runnable and no command, and every
\* command pushed in its life was consumed exactly once.
THEOREM ShutdownDrains == QueueSpec => []DrainedWhenDown
<1>1. QueueInit => StaysDrained /\ Conservation
  <2> SUFFICES ASSUME QueueInit, NEW t \in Publishers
               PROVE  sent[t] = done[t] + Cardinality(Waiting(t))
    BY DEF QueueInit, StaysDrained, Conservation
  <2>1. Waiting(t) = {}
    BY DEF QueueInit, Waiting
  <2>2. Cardinality(Waiting(t)) = 0
    BY <2>1, FS_EmptySet
  <2> QED
    BY <2>2 DEF QueueInit
<1>2. QInv /\ StaysDrained /\ Conservation => DrainedWhenDown
  <2> SUFFICES ASSUME QInv, StaysDrained, Conservation, opc = "down"
               PROVE  wakeQueue = <<>> /\ local = 0 /\ sent = done
    BY DEF DrainedWhenDown
  <2>1. wakeQueue = <<>> /\ local = 0
    BY DEF StaysDrained
  <2>2. ASSUME NEW t \in Publishers PROVE sent[t] = done[t]
    <3>1. Waiting(t) = {}
      BY <2>1 DEF Waiting
    <3>2. Cardinality(Waiting(t)) = 0
      BY <3>1, FS_EmptySet
    <3> QED
      BY <3>2 DEF Conservation, QInv, WInv, AdmInv, QueueTypeOK
  <2> QED
    BY <2>1, <2>2 DEF QInv, WInv, AdmInv, QueueTypeOK
<1>3. QInv => QueueTypeOK
  BY DEF QInv, WInv, AdmInv
<1> QED
  BY <1>1, <1>2, <1>3, QInvariant, StaysDrainedStep, ConservationStep, PTL DEF QueueSpec

-----------------------------------------------------------------------------
(* The queue implements a mailbox. *)

MailboxStepTaken == Box!Next \/ UNCHANGED Box!vars

\* A step of a producer or of user code posts a command or is invisible.
LEMMA SendersMapped ==
  ASSUME QInv, (\E p \in Producers : Produce(p)) \/ QueueUserCode
  PROVE  MailboxStepTaken
<1> USE DEF QInv, WInv, AdmInv, QueueTypeOK, WakeupInv, RunsInPoll, ClosedPlaces, ShutdownPlaces,
            Quiesced, Admitted
<1> USE DEF MailboxStepTaken, Box!Next, Box!vars, OwnerPhase
<1>1. ASSUME NEW p \in Producers, Admit(p) PROVE Box!Accept(p)
  BY <1>1 DEF Admit, At, Box!Accept
<1>2. ASSUME NEW p \in Producers, Push(p) PROVE Box!Post(p)
  BY <1>2 DEF Push, At, Box!Post
<1>3. ASSUME NEW p \in Producers, Release(p) \/ Claim(p) \/ Notify(p) PROVE UNCHANGED Box!vars
  BY <1>3 DEF Release, Claim, Notify, At
<1>4. CASE ScheduleLocal \/ RootReady
  BY <1>4 DEF ScheduleLocal, RootReady
<1>5. CASE OwnerRelease
  BY <1>5 DEF OwnerRelease, InUserCode, Box!OwnerPost, Box!OwnerBypass
<1> QED
  BY <1>1, <1>2, <1>3, <1>4, <1>5 DEF Produce, QueueUserCode

\* A step of the owner takes the oldest command, changes the phase or is
\* invisible.
LEMMA OwnerMapped ==
  ASSUME QInv, PollStep \/ DriverStep \/ IoEvent \/ BlockOn \/ Close \/ ShutdownStep
  PROVE  MailboxStepTaken
<1> USE DEF QInv, WInv, AdmInv, QueueTypeOK, WakeupInv, RunsInPoll, ClosedPlaces, ShutdownPlaces,
            Quiesced, Admitted, Goto
<1> USE DEF MailboxStepTaken, Box!Next, Box!vars, OwnerPhase, Box!Move
<1>1. CASE PollStart
  BY <1>1 DEF PollStart, Box!Leave
<1>2. CASE RunRemote \/ RunRemoteOrphan \/ DrainFifo
  BY <1>2 DEF RunRemote, RunRemoteOrphan, DrainFifo, Consume, driver, Box!Take
<1>3. CASE ClearNotified \/ RunLocal \/ TaskReturns \/ LocalDone \/ CheckRemote \/ RemoteDone
           \/ FinalCheck
  BY <1>3 DEF ClearNotified, RunLocal, TaskReturns, LocalDone, CheckRemote, RemoteDone,
     FinalCheck
<1>4. CASE DriverStep \/ IoEvent
  BY <1>4 DEF DriverStep, IoEvent, TickDone, WaitReturns, EventsDone, Wake
<1>5. CASE BlockOn
  BY <1>5 DEF BlockOn, Box!Return
<1>6. CASE Close
  BY <1>6 DEF Close, Box!Close
<1>7. CASE Barrier \/ DrainLocal
  BY <1>7 DEF Barrier, DrainLocal
<1>8. CASE DrainDone
  BY <1>8 DEF DrainDone, Box!Finish
<1> QED
  BY <1>1, <1>2, <1>3, <1>4, <1>5, <1>6, <1>7, <1>8 DEF PollStep, ShutdownStep

\* The run queue implements the mailbox its senders see: for any number of
\* producers no step of publication, poll, driver or shutdown drops, reorders
\* or repeats a command, or accepts one after the queue has closed.
THEOREM MailboxImplemented == QueueSpec => Box!Safety
<1>1. QueueInit => Box!Init
  BY DEF QueueInit, Box!Init, OwnerPhase, Publishers
<1>2. QInv /\ [QueueNext]_rqVars => [Box!Next]_Box!vars
  <2> SUFFICES ASSUME QInv, [QueueNext]_rqVars PROVE MailboxStepTaken
    BY DEF MailboxStepTaken
  <2>1. CASE UNCHANGED rqVars
    BY <2>1 DEF rqVars, MailboxStepTaken, Box!vars, OwnerPhase
  <2> QED
    BY <2>1, SendersMapped, OwnerMapped DEF QueueNext, Terminated
<1> QED
  BY <1>1, <1>2, QInvariant, PTL DEF QueueSpec, Box!Safety

=============================================================================
