---------------------------- MODULE ThreadsProofs ----------------------------
(***************************************************************************)
(* Proofs about the parts of the runtime that other threads call:          *)
(* BlockingPool for any sets of tasks and workers and any thread limit,    *)
(* and Remote for any number of submitters, any batch and any number of    *)
(* polls.                                                                  *)
(***************************************************************************)
EXTENDS BlockingPool, Remote, TLAPS, FiniteSetTheorems, SequenceTheorems

-----------------------------------------------------------------------------
(* The blocking pool. *)

USE PoolAssumption DEF resultVars

LEMMA HoldersFinite == IsFiniteSet(SlotHolders)
<1>1. IsFiniteSet(Workers \cup Tasks)
  BY FS_Union
<1> QED
  BY <1>1, FS_Subset DEF SlotHolders

LEMMA HolderAdded ==
  ASSUME NEW h, h \notin SlotHolders, SlotHolders' = SlotHolders \cup {h}
  PROVE  Cardinality(SlotHolders') = Cardinality(SlotHolders) + 1
BY HoldersFinite, FS_AddElement

LEMMA HolderRemoved ==
  ASSUME NEW h, h \in SlotHolders, SlotHolders' = SlotHolders \ {h}
  PROVE  /\ Cardinality(SlotHolders') = Cardinality(SlotHolders) - 1
         /\ Cardinality(SlotHolders') \in Nat
<1>1. IsFiniteSet(SlotHolders')
  BY HoldersFinite, FS_Subset
<1> QED
  BY <1>1, HoldersFinite, FS_RemoveElement, FS_CardinalityType

\* A slot passes from a submission to the worker it starts.
LEMMA HolderReplaced ==
  ASSUME NEW g, NEW h, g \in SlotHolders, h \notin SlotHolders,
         SlotHolders' = (SlotHolders \ {g}) \cup {h}
  PROVE  Cardinality(SlotHolders') = Cardinality(SlotHolders)
<1> DEFINE rest == SlotHolders \ {g}
<1>1. /\ IsFiniteSet(SlotHolders) /\ IsFiniteSet(rest) /\ Cardinality(SlotHolders) \in Nat
      /\ Cardinality(rest) = Cardinality(SlotHolders) - 1
  BY HoldersFinite, FS_RemoveElement, FS_CardinalityType
<1>2. h \notin rest /\ SlotHolders' = rest \cup {h}
  OBVIOUS
<1> HIDE DEF rest
<1>3. Cardinality(SlotHolders') = Cardinality(rest) + 1
  <2>1. Cardinality(rest \cup {h}) = Cardinality(rest) + 1
    BY <1>1, <1>2, FS_AddElement
  <2> QED
    BY <1>2, <2>1
<1>4. Cardinality(rest) + 1 = Cardinality(SlotHolders)
  BY <1>1
<1> QED
  BY <1>3, <1>4

PoolInv == TypeOK /\ LimitRespected

LEMMA PoolInit == Init => PoolInv
<1> SUFFICES ASSUME Init PROVE PoolInv
  OBVIOUS
<1>1. SlotHolders = {}
  BY DEF Init, SlotHolders
<1>2. LimitRespected
  BY <1>1, FS_EmptySet DEF Init, LimitRespected
<1>3. TypeOK
  BY DEF Init, TypeOK
<1> QED
  BY <1>2, <1>3 DEF PoolInv

\* One step per action; the count of slots moves with the set of holders.
LEMMA PoolStep == PoolInv /\ [Next]_vars => PoolInv'
<1> SUFFICES ASSUME PoolInv, [Next]_vars PROVE PoolInv'
  OBVIOUS
<1> USE DEF PoolInv, TypeOK, Submit, Work
<1>0. counter = Cardinality(SlotHolders) /\ counter <= ThreadLimit
  BY DEF LimitRespected
<1>1. ASSUME SlotHolders' = SlotHolders, counter' = counter PROVE LimitRespected'
  BY <1>0, <1>1 DEF LimitRespected
<1>2. ASSUME NEW t \in Tasks, NEW w \in Workers, HandOver(t, w) PROVE PoolInv'
  <2>1. SlotHolders' = SlotHolders
    BY <1>2 DEF HandOver, SlotHolders
  <2> QED
    BY <1>1, <1>2, <2>1 DEF HandOver
<1>3. ASSUME NEW t \in Tasks, Enqueue(t) PROVE PoolInv'
  <2>1. SlotHolders' = SlotHolders
    BY <1>3 DEF Enqueue, SlotHolders
  <2> QED
    BY <1>1, <1>3, <2>1 DEF Enqueue
<1>4. ASSUME NEW t \in Tasks, ReserveSlot(t) PROVE PoolInv'
  <2>1. CASE counter < ThreadLimit
    <3>1. t \notin SlotHolders /\ SlotHolders' = SlotHolders \cup {t}
      BY <1>4, <2>1 DEF ReserveSlot, SlotHolders
    <3>2. Cardinality(SlotHolders') = Cardinality(SlotHolders) + 1
      BY <3>1, HolderAdded
    <3>3. LimitRespected'
      BY <1>0, <1>4, <2>1, <3>2 DEF ReserveSlot, LimitRespected
    <3> QED
      BY <1>4, <2>1, <3>3 DEF ReserveSlot
  <2>2. CASE ~(counter < ThreadLimit)
    <3>1. SlotHolders' = SlotHolders
      BY <1>4, <2>2 DEF ReserveSlot, SlotHolders
    <3> QED
      BY <1>1, <1>4, <2>2, <3>1 DEF ReserveSlot
  <2> QED
    BY <2>1, <2>2
<1>5. ASSUME NEW t \in Tasks, NEW w \in Workers, SpawnWorker(t, w) PROVE PoolInv'
  <2>1. t \in SlotHolders /\ w \notin SlotHolders /\ SlotHolders' = (SlotHolders \ {t}) \cup {w}
    BY <1>5 DEF SpawnWorker, SlotHolders
  <2>2. LimitRespected'
    BY <1>0, <1>5, <2>1, HolderReplaced DEF SpawnWorker, LimitRespected
  <2> QED
    BY <1>5, <2>2 DEF SpawnWorker
<1>6. ASSUME NEW t \in Tasks, SpawnFails(t) PROVE PoolInv'
  <2>1. t \in SlotHolders /\ SlotHolders' = SlotHolders \ {t}
    BY <1>6 DEF SpawnFails, SlotHolders
  <2>2. counter' = Cardinality(SlotHolders') /\ counter' \in Nat /\ counter' <= ThreadLimit
    <3>1. /\ Cardinality(SlotHolders') = Cardinality(SlotHolders) - 1
          /\ Cardinality(SlotHolders') \in Nat
      BY <2>1, HolderRemoved
    <3> QED
      BY <1>0, <1>6, <3>1 DEF SpawnFails
  <2> QED
    BY <1>6, <2>2 DEF SpawnFails, LimitRespected
<1>7. ASSUME NEW t \in Tasks, Purge(t) \/ PurgeRecv(t) PROVE PoolInv'
  <2>1. SlotHolders' = SlotHolders
    BY <1>7 DEF Purge, PurgeRecv, SlotHolders
  <2>2. LimitRespected'
    BY <1>1, <1>7, <2>1 DEF Purge, PurgeRecv
  <2>3. high' \in Seq(Tasks) /\ outcome' \in [Tasks -> {"pending", "ran", "skipped", "dropped"}]
    <3>1. CASE Purge(t)
      BY <3>1 DEF Purge
    <3>2. CASE PurgeRecv(t) /\ high # <<>>
      <4>1. Head(high) \in Tasks /\ Tail(high) \in Seq(Tasks)
        BY <3>2
      <4> QED
        BY <3>2, <4>1 DEF PurgeRecv
    <3>3. CASE PurgeRecv(t) /\ high = <<>>
      BY <3>3 DEF PurgeRecv
    <3> QED
      BY <1>7, <3>1, <3>2, <3>3
  <2> QED
    BY <1>7, <2>2, <2>3 DEF Purge, PurgeRecv
<1>8. ASSUME NEW t \in Tasks, Detach(t) \/ DropResult(t) PROVE PoolInv'
  <2>1. SlotHolders' = SlotHolders
    BY <1>8 DEF Detach, DropResult, SlotHolders
  <2> QED
    BY <1>1, <1>8, <2>1 DEF Detach, DropResult
<1>9. ASSUME NEW w \in Workers, TakeQueued(w) PROVE PoolInv'
  <2>1. SlotHolders' = SlotHolders
    BY <1>9 DEF TakeQueued, SlotHolders
  <2>2. Head(high) \in Tasks /\ Tail(high) \in Seq(Tasks)
    BY <1>9 DEF TakeQueued
  <2> QED
    BY <1>1, <1>9, <2>1, <2>2 DEF TakeQueued
<1>10. ASSUME NEW w \in Workers, RunTask(w) PROVE PoolInv'
  <2>1. SlotHolders' = SlotHolders
    BY <1>10 DEF RunTask, SlotHolders
  <2> QED
    BY <1>1, <1>10, <2>1 DEF RunTask
<1>11. ASSUME NEW w \in Workers, ReleaseSlot(w) \/ Disconnected(w) PROVE PoolInv'
  <2>1. w \in SlotHolders /\ SlotHolders' = SlotHolders \ {w}
    BY <1>11 DEF ReleaseSlot, Disconnected, SlotHolders
  <2>2. counter' = Cardinality(SlotHolders') /\ counter' \in Nat /\ counter' <= ThreadLimit
    <3>1. /\ Cardinality(SlotHolders') = Cardinality(SlotHolders) - 1
          /\ Cardinality(SlotHolders') \in Nat
      BY <2>1, HolderRemoved
    <3> QED
      BY <1>0, <1>11, <3>1 DEF ReleaseSlot, Disconnected
  <2> QED
    BY <1>11, <2>2 DEF ReleaseSlot, Disconnected, LimitRespected
<1>12. ASSUME NEW w \in Workers, Expire(w) \/ Recheck(w) PROVE PoolInv'
  <2>1. SlotHolders' = SlotHolders
    BY <1>12 DEF Expire, Recheck, SlotHolders
  <2> QED
    BY <1>1, <1>12, <2>1 DEF Expire, Recheck
<1>13. ASSUME NEW w \in Workers, Reenter(w) PROVE PoolInv'
  <2>1. CASE counter < ThreadLimit
    <3>1. w \notin SlotHolders /\ SlotHolders' = SlotHolders \cup {w}
      BY <1>13, <2>1 DEF Reenter, SlotHolders
    <3>2. Cardinality(SlotHolders') = Cardinality(SlotHolders) + 1
      BY <3>1, HolderAdded
    <3>3. LimitRespected'
      BY <1>0, <1>13, <2>1, <3>2 DEF Reenter, LimitRespected
    <3> QED
      BY <1>13, <2>1, <3>3 DEF Reenter
  <2>2. CASE ~(counter < ThreadLimit)
    <3>1. SlotHolders' = SlotHolders
      BY <1>13, <2>2 DEF Reenter, SlotHolders
    <3> QED
      BY <1>1, <1>13, <2>2, <3>1 DEF Reenter
  <2> QED
    BY <2>1, <2>2
<1>14. CASE DropPool \/ UNCHANGED vars
  BY <1>1, <1>14 DEF DropPool, vars, SlotHolders
<1> QED
  BY <1>2, <1>3, <1>4, <1>5, <1>6, <1>7, <1>8, <1>9, <1>10, <1>11, <1>12, <1>13, <1>14
     DEF Next, SubmitStep, WorkerStep

\* At most thread_limit closures run at once, and the counter of the pool is
\* exactly the number of workers that hold a slot or are being started.
THEOREM LimitHolds == Spec => [](TypeOK /\ LimitRespected)
<1> QED
  BY PoolInit, PoolStep, PTL DEF Spec, PoolInv

-----------------------------------------------------------------------------

\* A full pool has a thread that holds a slot.
LEMMA FullPoolHasHolder ==
  ASSUME LimitRespected, counter # 0
  PROVE  \/ \E w \in Workers : wpc[w] \in {"idle", "busy", "expired"}
         \/ \E t \in Tasks : spc[t] = "spawning"
<1>1. SlotHolders # {}
  BY HoldersFinite, FS_EmptySet DEF LimitRespected
<1> QED
  BY <1>1 DEF SlotHolders

LEMMA StrandedStep == PoolInv /\ NoStrandedTask /\ [Next]_vars => NoStrandedTask'
<1> SUFFICES ASSUME PoolInv, NoStrandedTask, [Next]_vars PROVE NoStrandedTask'
  OBVIOUS
<1> USE DEF PoolInv, TypeOK, NoStrandedTask, Submit, Work
<1>1. ASSUME NEW t \in Tasks, NEW w \in Workers, HandOver(t, w) \/ SpawnWorker(t, w)
      PROVE  NoStrandedTask'
  BY <1>1 DEF HandOver, SpawnWorker
<1>2. ASSUME NEW t \in Tasks, Enqueue(t) \/ SpawnFails(t) \/ Detach(t) \/ DropResult(t)
      PROVE  NoStrandedTask'
  BY <1>2 DEF Enqueue, SpawnFails, Detach, DropResult
<1>3. ASSUME NEW t \in Tasks, ReserveSlot(t) PROVE NoStrandedTask'
  <2>1. CASE counter < ThreadLimit
    BY <1>3, <2>1 DEF ReserveSlot
  <2>2. CASE ~(counter < ThreadLimit)
    BY <1>3, <2>2, FullPoolHasHolder DEF ReserveSlot
  <2> QED
    BY <2>1, <2>2
<1>4. ASSUME NEW t \in Tasks, Purge(t) PROVE NoStrandedTask'
  BY <1>4, FullPoolHasHolder DEF Purge
<1>5. ASSUME NEW t \in Tasks, PurgeRecv(t) PROVE NoStrandedTask'
  BY <1>5 DEF PurgeRecv
<1>6. ASSUME NEW w \in Workers, TakeQueued(w) \/ RunTask(w) \/ Recheck(w)
      PROVE  NoStrandedTask'
  BY <1>6 DEF TakeQueued, RunTask, Recheck
<1>7. ASSUME NEW w \in Workers, Expire(w) \/ ReleaseSlot(w) \/ Disconnected(w)
      PROVE  NoStrandedTask'
  BY <1>7 DEF Expire, ReleaseSlot, Disconnected
<1>8. ASSUME NEW w \in Workers, Reenter(w) PROVE NoStrandedTask'
  <2>1. CASE counter < ThreadLimit
    BY <1>8, <2>1 DEF Reenter
  <2>2. CASE ~(counter < ThreadLimit)
    <3>1. \/ \E v \in Workers : wpc[v] \in {"idle", "busy", "expired"}
          \/ \E t \in Tasks : spc[t] = "spawning"
      BY <2>2, FullPoolHasHolder
    <3>2. CASE \E v \in Workers : wpc[v] \in {"idle", "busy", "expired"}
      <4>1. PICK v \in Workers : wpc[v] \in {"idle", "busy", "expired"}
        BY <3>2
      <4>2. v # w /\ wpc'[v] # "none"
        BY <1>8, <4>1 DEF Reenter
      <4> QED
        BY <4>2
    <3>3. CASE \E t \in Tasks : spc[t] = "spawning"
      BY <1>8, <3>3 DEF Reenter
    <3> QED
      BY <3>1, <3>2, <3>3
  <2> QED
    BY <2>1, <2>2
<1>9. CASE DropPool \/ UNCHANGED vars
  BY <1>9 DEF DropPool, vars
<1> QED
  BY <1>1, <1>2, <1>3, <1>4, <1>5, <1>6, <1>7, <1>8, <1>9 DEF Next, SubmitStep, WorkerStep

\* The two fences and the purge loop are enough: a queued closure always has a
\* thread that is going to look after it, whatever expires or fails to start.
THEOREM QueueNeverStranded == Spec => []NoStrandedTask
<1>1. Init => NoStrandedTask
  BY DEF Init, NoStrandedTask
<1> QED
  BY <1>1, PoolInit, PoolStep, StrandedStep, PTL DEF Spec

\* Only a closure whose result was dropped without detaching is skipped.
THEOREM SkipsAreCancellations == Spec => []SkippedOnlyIfCancelled
<1>1. Init => SkippedOnlyIfCancelled
  BY DEF Init, SkippedOnlyIfCancelled
<1>2. PoolInv /\ SkippedOnlyIfCancelled /\ [Next]_vars => SkippedOnlyIfCancelled'
  <2> SUFFICES ASSUME PoolInv, SkippedOnlyIfCancelled, [Next]_vars
               PROVE  SkippedOnlyIfCancelled'
    OBVIOUS
  <2> USE DEF PoolInv, TypeOK, SkippedOnlyIfCancelled
  <2>1. ASSUME NEW w \in Workers, RunTask(w) PROVE SkippedOnlyIfCancelled'
    BY <2>1 DEF RunTask, Work
  <2>2. ASSUME NEW t \in Tasks, PurgeRecv(t) PROVE SkippedOnlyIfCancelled'
    BY <2>2 DEF PurgeRecv
  <2>3. ASSUME NEW t \in Tasks, Detach(t) \/ DropResult(t) PROVE SkippedOnlyIfCancelled'
    BY <2>3 DEF Detach, DropResult
  <2>4. ASSUME UNCHANGED <<receiver, detached, outcome>> PROVE SkippedOnlyIfCancelled'
    BY <2>4
  <2> QED
    BY <2>1, <2>2, <2>3, <2>4 DEF Next, SubmitStep, WorkerStep, Enqueue, ReserveSlot,
       SpawnFails, Purge, SpawnWorker, HandOver, TakeQueued, Recheck, Reenter, Disconnected,
       Expire, ReleaseSlot, DropPool, vars
<1> QED
  BY <1>1, <1>2, PoolInit, PoolStep, PTL DEF Spec

HIDE PoolAssumption DEF resultVars

-----------------------------------------------------------------------------
(* Remote jobs.  The queue and the job have an inductive invariant each: the   *)
(* steps of the one leave the variables of the other alone or are steps of the *)
(* other.                                                                      *)

USE SpawnerAssumption, RemoteAssumption DEF SpawnerAssumption, RemoteAssumption

-----------------------------------------------------------------------------
(* The queue. *)

Admitted == {j \in Jobs : subpc[j] \in {"admitted", "pushed"}}

InQueue(j) == \E i \in 1..Len(queue) : queue[i] = j

\* A parked or running drain task can be woken: its waker is registered, or it
\* has been woken already.
CanBeWoken == dpc \in {"parked", "registered", "popping"} => scheduled \/ waker

\* While `notified` suppresses wakes, the one it stands for is on its way.
WakeUnderWay ==
  notified /\ dpc \in {"parked", "popping"} =>
    scheduled \/ \E j \in Jobs : subpc[j] = "waking"

\* Behind the barrier nobody publishes.
BarrierPassed ==
  /\ closed <=> dpc \in {"closing", "draining", "gone"}
  /\ dpc \in {"draining", "gone"} => Admitted = {}
  /\ dpc = "gone" => queue = <<>>

\* A job is about to be pushed, or queued, started or closed.
JobSomewhere ==
  \A j \in Jobs :
    subpc[j] \notin {"new", "admitted"} /\ job[j] = "new" => InQueue(j)

SpawnerInv ==
  /\ SpawnerTypeOK /\ CanBeWoken /\ WakeUnderWay /\ BarrierPassed /\ JobSomewhere
  /\ NoLostJob

SpawnerStep ==
  \/ \E j \in Jobs : Admit(j) \/ Reject(j) \/ Push(j) \/ Leave(j) \/ Notify(j) \/ Wake(j)
  \/ DrainPoll \/ ClearNotified \/ StartJob \/ QueueEmpty \/ BatchDone
  \/ DropDrain \/ Barrier \/ CloseQueued

-----------------------------------------------------------------------------
(* The job. *)

\* DONE is published after the last access of whoever finishes the job.
DonePublished ==
  /\ "DONE" \in state <=> rpc \in {"release", "notify", "gone"}
  /\ jpc = "take" => "DONE" \in state

\* What the runner has read is still true of the bits it acts on.
SeenFresh ==
  rpc = "check" =>
    /\ seen \subseteq state \cup {"JOINABLE"}
    /\ "JOINABLE" \in state => "JOINABLE" \in seen
    /\ "JOINABLE" \notin seen /\ "CANCELLED" \in state => "CANCELLED" \in seen

\* Only a handle that exists cancels.
HandleBits ==
  /\ "JOINABLE" \in state <=> jpc # "dropped"
  /\ cancelling => "CANCELLED" \in state /\ jpc # "dropped"

\* A runner whose handle exists can be woken by it.
RunnerCanBeWoken ==
  rpc \in {"recheck", "poll", "parked"} /\ jpc # "dropped" => runWaker \/ runnable

\* A runner that does not look at the bits again is scheduled to do so.
CancelHeard ==
  "CANCELLED" \in state /\ ~cancelling /\ rpc \in {"poll", "parked"} => runnable

WakerReleased == rpc \in {"notify", "gone"} => ~runWaker

JobInv ==
  /\ J!TypeOK /\ DonePublished /\ SeenFresh /\ HandleBits /\ RunnerCanBeWoken
  /\ CancelHeard /\ WakerReleased

JobStep ==
  \/ J!SpawnLocal \/ J!CloseUnstarted \/ J!RunnerStep \/ J!DropRunner \/ J!FutureWakes
  \/ J!JoinPoll \/ J!JoinStep \/ J!Cancel \/ J!Detach

-----------------------------------------------------------------------------
LEMMA RemoteSplits ==
  [RemoteNext]_allVars => [SpawnerStep]_spawnerVars /\ [JobStep]_jobVars
<1> USE DEF RemoteNext, allVars, SpawnerStep, JobStep
<1>1. ASSUME NEW j \in Jobs, Submission(j)
      PROVE  [SpawnerStep]_spawnerVars /\ [JobStep]_jobVars
  BY <1>1 DEF Submission, Publish, RejectJob
<1>2. CASE Draining \/ DropDrainTask
  BY <1>2 DEF Draining, DropDrainTask, DrainTask, StartNext, CloseNext
<1>3. CASE RunnerTask \/ DropRunnerTask \/ Wakes
  BY <1>3 DEF RunnerTask, DropRunnerTask, Wakes
<1>4. CASE HandlePolled \/ HandleStep \/ CancelJob \/ DropHandle
  BY <1>4 DEF HandlePolled, HandleStep, CancelJob, DropHandle
<1> QED
  BY <1>1, <1>2, <1>3, <1>4

LEMMA JobInit == J!Init => JobInv
<1> SUFFICES ASSUME J!Init PROVE JobInv
  OBVIOUS
<1>1. polls \in 0..MaxPolls
  BY DEF J!Init
<1>2. J!TypeOK
  BY <1>1 DEF J!Init, J!TypeOK, J!Bits
<1> QED
  BY <1>2 DEF J!Init, JobInv, DonePublished, SeenFresh, HandleBits, RunnerCanBeWoken,
     CancelHeard, WakerReleased

\* One step per action; nothing but the joiner's polls and the future's own
\* wakes is counted.
LEMMA JobPreserved == JobInv /\ [JobStep]_jobVars => JobInv'
<1> SUFFICES ASSUME JobInv, [JobStep]_jobVars PROVE JobInv'
  OBVIOUS
<1> USE DEF J!Run, J!Join, J!runner, J!joiner
<1>0. polls' \in 0..MaxPolls
  <2>1. polls \in 0..MaxPolls
    BY DEF JobInv, J!TypeOK
  <2>2. polls' = polls \/ (polls < MaxPolls /\ polls' = polls + 1)
    BY DEF JobStep, J!RunnerStep, J!JoinStep, J!SpawnLocal, J!CloseUnstarted, J!DropRunner,
       J!RunnerPoll, J!RunnerCheck, J!RunnerRecheck, J!FuturePending, J!FutureReady,
       J!CloseJob, J!PublishDone, J!TakeRunWaker, J!WakeJoiner, J!FutureWakes, J!JoinPoll,
       J!JoinRegister, J!JoinRecheck, J!JoinTake, J!WakeRunner, J!Cancel, J!Detach, jobVars
  <2> QED
    BY <2>1, <2>2
<1> USE <1>0 DEF JobInv, J!TypeOK, J!Bits, DonePublished, SeenFresh, HandleBits,
                 RunnerCanBeWoken, CancelHeard, WakerReleased
<1>1. CASE J!SpawnLocal
  BY <1>1 DEF J!SpawnLocal
<1>2. CASE J!CloseUnstarted
  BY <1>2 DEF J!CloseUnstarted
<1>3. CASE J!DropRunner
  BY <1>3 DEF J!DropRunner
<1>4. CASE J!RunnerPoll
  BY <1>4, ZenonT(60) DEF J!RunnerPoll
<1>5. CASE J!RunnerCheck
  BY <1>5, ZenonT(60) DEF J!RunnerCheck
<1>6. CASE J!RunnerRecheck
  BY <1>6 DEF J!RunnerRecheck
<1>7. CASE J!FuturePending
  BY <1>7 DEF J!FuturePending
<1>8. CASE J!FutureReady
  BY <1>8 DEF J!FutureReady
<1>9. CASE J!CloseJob
  BY <1>9 DEF J!CloseJob
<1>10. CASE J!PublishDone
  BY <1>10 DEF J!PublishDone
<1>11. CASE J!TakeRunWaker
  BY <1>11, ZenonT(60) DEF J!TakeRunWaker
<1>12. CASE J!WakeJoiner
  BY <1>12 DEF J!WakeJoiner
<1>13. CASE J!FutureWakes
  BY <1>13 DEF J!FutureWakes
<1>14. CASE J!JoinPoll
  BY <1>14, ZenonT(60) DEF J!JoinPoll
<1>15. CASE J!JoinRegister
  BY <1>15 DEF J!JoinRegister
<1>16. CASE J!JoinRecheck
  BY <1>16 DEF J!JoinRecheck
<1>17. CASE J!JoinTake
  BY <1>17 DEF J!JoinTake
<1>18. CASE J!Cancel
  BY <1>18 DEF J!Cancel
<1>19. CASE J!Detach
  BY <1>19 DEF J!Detach
<1>20. CASE J!WakeRunner
  <2>1. runnable' \in BOOLEAN /\ (runnable \/ (runWaker /\ rpc # "gone") => runnable')
    BY <1>20, Zenon DEF J!WakeRunner
  <2>2. /\ cancelling /\ cancelling' = FALSE /\ runWaker' = FALSE
        /\ UNCHANGED <<state, stage, joinWaker, rpc, seen, jpc, jwoken, result, polls>>
    BY <1>20 DEF J!WakeRunner
  <2>3. RunnerCanBeWoken' /\ CancelHeard'
    BY <2>1, <2>2, Zenon
  <2>4. J!TypeOK'
    BY <2>1, <2>2, ZenonT(60)
  <2> QED
    BY <2>2, <2>3, <2>4
<1>21. CASE UNCHANGED jobVars
  BY <1>21 DEF jobVars
<1> QED
  BY <1>1, <1>2, <1>3, <1>4, <1>5, <1>6, <1>7, <1>8, <1>9, <1>10, <1>11, <1>12, <1>13, <1>14,
     <1>15, <1>16, <1>17, <1>18, <1>19, <1>20, <1>21
     DEF JobStep, J!RunnerStep, J!JoinStep

-----------------------------------------------------------------------------
LEMMA AdmittedFinite == IsFiniteSet(Admitted) /\ Cardinality(Admitted) \in Nat
<1>1. IsFiniteSet(Admitted)
  BY FS_Subset DEF Admitted
<1> QED
  BY <1>1, FS_CardinalityType

\* What is pushed to a queue, or remains of it, is in it; Head is what leaves.
LEMMA QueueGrows ==
  ASSUME NEW j \in Jobs, queue \in Seq(Jobs), queue' = Append(queue, j)
  PROVE  /\ queue' \in Seq(Jobs) /\ queue' # <<>> /\ InQueue(j)'
         /\ \A k \in Jobs : InQueue(k) => InQueue(k)'
<1>1. /\ Len(queue') = Len(queue) + 1 /\ queue'[Len(queue) + 1] = j
      /\ \A i \in 1..Len(queue) : queue'[i] = queue[i]
      /\ queue' \in Seq(Jobs) /\ Len(queue) \in Nat
  BY AppendProperties
<1> QED
  BY <1>1 DEF InQueue

LEMMA QueueShrinks ==
  ASSUME queue \in Seq(Jobs), queue # <<>>, queue' = Tail(queue)
  PROVE  /\ queue' \in Seq(Jobs) /\ Head(queue) \in Jobs
         /\ \A k \in Jobs : InQueue(k) /\ k # Head(queue) => InQueue(k)'
<1>1. /\ Len(queue') = Len(queue) - 1 /\ Len(queue) \in Nat /\ Len(queue) # 0
      /\ \A i \in 1..Len(queue') : queue'[i] = queue[i + 1]
      /\ queue' \in Seq(Jobs) /\ Head(queue) = queue[1] /\ Head(queue) \in Jobs
  BY HeadTailProperties
<1>2. ASSUME NEW k \in Jobs, InQueue(k), k # Head(queue) PROVE InQueue(k)'
  <2>1. PICK i \in 1..Len(queue) : queue[i] = k
    BY <1>2 DEF InQueue
  <2>2. i - 1 \in 1..Len(queue') /\ queue'[i - 1] = k
    BY <1>1, <1>2, <2>1
  <2> QED
    BY <2>2 DEF InQueue
<1> QED
  BY <1>1, <1>2

LEMMA SpawnerStarts == SpawnerInit => SpawnerInv
<1> SUFFICES ASSUME SpawnerInit PROVE SpawnerInv
  OBVIOUS
<1>1. Admitted = {}
  BY DEF SpawnerInit, Admitted
<1>2. SpawnerTypeOK
  <2>1. admitted = Cardinality({j \in Jobs : subpc[j] \in {"admitted", "pushed"}})
    BY <1>1, FS_EmptySet DEF SpawnerInit, Admitted
  <2>2. left \in 0..Batch
    BY DEF SpawnerInit
  <2>3. queue \in Seq(Jobs)
    BY DEF SpawnerInit
  <2> QED
    BY <2>1, <2>2, <2>3, Zenon DEF SpawnerInit, SpawnerTypeOK
<1> QED
  BY <1>1, <1>2 DEF SpawnerInit, SpawnerInv, CanBeWoken, WakeUnderWay, BarrierPassed,
     JobSomewhere, NoLostJob

LEMMA SpawnerPreserved == SpawnerInv /\ [SpawnerStep]_spawnerVars => SpawnerInv'
<1> SUFFICES ASSUME SpawnerInv, [SpawnerStep]_spawnerVars PROVE SpawnerInv'
  OBVIOUS
<1>0. admitted = Cardinality(Admitted)
  BY DEF SpawnerInv, SpawnerTypeOK, Admitted
<1> USE DEF SpawnerInv, CanBeWoken, WakeUnderWay, BarrierPassed, JobSomewhere, NoLostJob,
            Advance, Drain, submission, drain

\* The count, from the set it counts.
<1>a. ASSUME admitted' = Cardinality(Admitted'), queue' \in Seq(Jobs),
             /\ closed' \in BOOLEAN /\ notified' \in BOOLEAN /\ waker' \in BOOLEAN
             /\ scheduled' \in BOOLEAN,
             /\ subpc' \in [Jobs -> {"new", "admitted", "pushed", "left", "waking",
                                     "returned", "rejected"}]
             /\ job' \in [Jobs -> {"new", "started", "closed"}]
             /\ dpc' \in {"parked", "registered", "popping", "closing", "draining", "gone"},
             left' \in 0..Batch
      PROVE  SpawnerTypeOK'
  BY <1>a DEF SpawnerTypeOK, Admitted
<1>b. ASSUME UNCHANGED subpc PROVE Admitted' = Admitted
  BY <1>b DEF Admitted
<1>c. ASSUME UNCHANGED queue, NEW j PROVE InQueue(j)' = InQueue(j)
  BY <1>c DEF InQueue
<1> USE DEF SpawnerTypeOK
<1>1. ASSUME NEW j \in Jobs, Admit(j) PROVE SpawnerInv'
  <2>1. j \notin Admitted /\ Admitted' = Admitted \cup {j}
    BY <1>1 DEF Admit, Admitted
  <2>2. admitted' = Cardinality(Admitted')
    <3>1. Cardinality(Admitted \cup {j}) = Cardinality(Admitted) + 1
      BY <2>1, AdmittedFinite, FS_AddElement
    <3> QED
      BY <1>0, <1>1, <2>1, <3>1 DEF Admit
  <2>3. SpawnerTypeOK'
    BY <1>1, <1>a, <2>2 DEF Admit
  <2> QED
    BY <1>1, <1>c, <2>3 DEF Admit
<1>2. ASSUME NEW j \in Jobs, Reject(j) PROVE SpawnerInv'
  <2>1. Admitted' = Admitted
    BY <1>2 DEF Reject, Admitted
  <2>3. SpawnerTypeOK'
    BY <1>0, <1>2, <1>a, <2>1 DEF Reject
  <2> QED
    BY <1>2, <1>c, <2>1, <2>3 DEF Reject
<1>3. ASSUME NEW j \in Jobs, Push(j) PROVE SpawnerInv'
  <2>1. Admitted' = Admitted /\ Admitted # {}
    BY <1>3 DEF Push, Admitted
  <2>2. /\ queue' \in Seq(Jobs) /\ queue' # <<>> /\ InQueue(j)'
        /\ \A k \in Jobs : InQueue(k) => InQueue(k)'
    BY <1>3, QueueGrows DEF Push
  <2>3. SpawnerTypeOK'
    BY <1>0, <1>3, <1>a, <2>1, <2>2 DEF Push
  <2> QED
    BY <1>3, <2>1, <2>2, <2>3 DEF Push
<1>4. ASSUME NEW j \in Jobs, Leave(j) PROVE SpawnerInv'
  <2>1. j \in Admitted /\ Admitted' = Admitted \ {j}
    BY <1>4 DEF Leave, Admitted
  <2>2. admitted' = Cardinality(Admitted')
    BY <1>0, <1>4, <2>1, AdmittedFinite, FS_RemoveElement DEF Leave
  <2>3. SpawnerTypeOK'
    BY <1>4, <1>a, <2>2 DEF Leave
  <2> QED
    BY <1>4, <1>c, <2>1, <2>3 DEF Leave
<1>5. ASSUME NEW j \in Jobs, Notify(j) PROVE SpawnerInv'
  <2>1. Admitted' = Admitted
    BY <1>5 DEF Notify, Admitted
  <2>2. SpawnerTypeOK'
    BY <1>0, <1>5, <1>a, <2>1 DEF Notify
  <2> QED
    BY <1>5, <1>c, <2>1, <2>2 DEF Notify
<1>6. ASSUME NEW j \in Jobs, Wake(j) PROVE SpawnerInv'
  <2>1. Admitted' = Admitted
    BY <1>6 DEF Wake, Admitted
  <2>2. /\ scheduled' \in BOOLEAN
        /\ scheduled \/ (waker /\ dpc # "gone") => scheduled'
    BY <1>6, Zenon DEF Wake
  <2>3. SpawnerTypeOK'
    BY <1>0, <1>6, <1>a, <2>1, <2>2 DEF Wake
  <2> QED
    BY <1>6, <1>c, <2>1, <2>2, <2>3 DEF Wake
<1>7. CASE DrainPoll
  <2>1. SpawnerTypeOK'
    <3>1. left' \in 0..Batch /\ admitted' = Cardinality(Admitted')
      BY <1>0, <1>7, <1>b DEF DrainPoll
    <3> QED
      BY <1>7, <1>a, <3>1 DEF DrainPoll
  <2> QED
    BY <1>7, <1>b, <1>c, <2>1 DEF DrainPoll
<1>8. CASE ClearNotified
  BY <1>0, <1>8, <1>a, <1>b, <1>c DEF ClearNotified
<1>9. CASE StartJob
  <2>1. /\ queue' \in Seq(Jobs) /\ Head(queue) \in Jobs
        /\ \A k \in Jobs : InQueue(k) /\ k # Head(queue) => InQueue(k)'
    BY <1>9, QueueShrinks DEF StartJob
  <2>2. SpawnerTypeOK'
    BY <1>0, <1>9, <1>a, <1>b, <2>1 DEF StartJob
  <2> QED
    BY <1>9, <1>b, <2>1, <2>2 DEF StartJob
<1>10. CASE QueueEmpty \/ BatchDone
  <2>1. SpawnerTypeOK'
    BY <1>0, <1>10, <1>a, <1>b DEF QueueEmpty, BatchDone
  <2> QED
    BY <1>10, <1>b, <1>c, <2>1 DEF QueueEmpty, BatchDone
<1>11. CASE DropDrain
  BY <1>0, <1>11, <1>a, <1>b, <1>c DEF DropDrain
<1>12. CASE Barrier
  <2>1. Admitted = {}
    BY <1>0, <1>12, AdmittedFinite, FS_EmptySet DEF Barrier
  <2> QED
    BY <1>0, <1>12, <1>a, <1>b, <1>c, <2>1 DEF Barrier
<1>13. CASE CloseQueued /\ queue = <<>>
  BY <1>0, <1>13, <1>a, <1>b, <1>c DEF CloseQueued
<1>14. CASE CloseQueued /\ queue # <<>>
  <2>1. /\ queue' \in Seq(Jobs) /\ Head(queue) \in Jobs
        /\ \A k \in Jobs : InQueue(k) /\ k # Head(queue) => InQueue(k)'
    BY <1>14, QueueShrinks DEF CloseQueued
  <2>2. SpawnerTypeOK'
    BY <1>0, <1>14, <1>a, <1>b, <2>1 DEF CloseQueued
  <2> QED
    BY <1>14, <1>b, <2>1, <2>2 DEF CloseQueued
<1>15. CASE UNCHANGED spawnerVars
  BY <1>0, <1>15, <1>a, <1>b, <1>c DEF spawnerVars
<1> QED
  BY <1>1, <1>2, <1>3, <1>4, <1>5, <1>6, <1>7, <1>8, <1>9, <1>10, <1>11, <1>12, <1>13,
     <1>14, <1>15 DEF SpawnerStep

-----------------------------------------------------------------------------
RemoteInv == SpawnerInv /\ JobInv

LEMMA RemoteInvariant == RemoteSpec => []RemoteInv
<1>1. RemoteInit => RemoteInv
  BY JobInit, SpawnerStarts DEF RemoteInit, RemoteInv
<1>2. RemoteInv /\ [RemoteNext]_allVars => RemoteInv'
  BY RemoteSplits, JobPreserved, SpawnerPreserved DEF RemoteInv
<1> QED
  BY <1>1, <1>2, PTL DEF RemoteSpec

\* The joiner takes the stage of a job only when whoever finished the job is
\* past its last access to it, for any number of jobs and polls.
THEOREM StageNeverShared == RemoteSpec => []StageExclusive
<1>1. RemoteInv => StageExclusive
  BY DEF RemoteInv, JobInv, DonePublished, StageExclusive, J!StageExclusive
<1> QED
  BY <1>1, RemoteInvariant, PTL

\* Neither a job that got through admit() nor a cancellation is ever lost, and a
\* finished runner leaves no waker behind.
THEOREM NothingEverLost == RemoteSpec => []NothingLost
<1>1. RemoteInv => J!CancelNotLost /\ J!NoWakerRetained
  BY DEF RemoteInv, JobInv, CancelHeard, WakerReleased, J!CancelNotLost, J!NoWakerRetained
<1>2. SpawnerInv => ClosedForGood
  <2> SUFFICES ASSUME SpawnerInv, dpc = "gone", NEW j \in Jobs, subpc[j] # "new"
               PROVE  queue = <<>> /\ job[j] # "new"
    BY DEF SpawnerInv, BarrierPassed, ClosedForGood
  <2>1. queue = <<>> /\ ~InQueue(j) /\ j \notin Admitted
    BY DEF SpawnerInv, BarrierPassed, InQueue
  <2> QED
    BY <2>1 DEF SpawnerInv, JobSomewhere, Admitted
<1>3. RemoteInv => NothingLost
  BY <1>1, <1>2 DEF RemoteInv, SpawnerInv, NothingLost
<1> QED
  BY <1>3, RemoteInvariant, PTL
=============================================================================
