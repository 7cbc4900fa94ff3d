------------------------------- MODULE Remote -------------------------------
(***************************************************************************)
(* A future spawned on an arbiter thread from another one, from its        *)
(* submission to its join: the queue of Spawner and, for one of the jobs,  *)
(* the runner and the handle of RemoteJob (ntex-rt/src/remote.rs).         *)
(*                                                                         *)
(* The drain task and the runner are tasks of one thread, so that a poll   *)
(* of one does not overlap a poll of the other; a job that is rejected is  *)
(* closed by the thread that submitted it, which then has its handle.      *)
(***************************************************************************)
EXTENDS Spawner

CONSTANTS
  Tracked,    \* the job that is modelled in detail
  MaxPolls    \* bound: polls of the joiner, and spurious wakes

ASSUME RemoteAssumption == Tracked \in Jobs /\ MaxPolls \in Nat

VARIABLES state, stage, runWaker, joinWaker, rpc, seen, runnable, jpc, jwoken, cancelling,
          result, polls

J == INSTANCE RemoteJob

jobVars == <<state, stage, runWaker, joinWaker, rpc, seen, runnable, jpc, jwoken, cancelling,
             result, polls>>
allVars == <<spawnerVars, jobVars>>

RemoteInit == SpawnerInit /\ J!Init

-----------------------------------------------------------------------------
\* The owner thread is not inside the other task.
OwnerFree == rpc \in {"queued", "parked", "gone"} \/ subpc[Tracked] = "rejected"
RunnerMayStep ==
  dpc \in {"parked", "gone"} \/ rpc \in {"closing", "finish", "release", "notify"}

\* spawn_remote() has returned the handle.
HandleExists == subpc[Tracked] = "returned" \/ (subpc[Tracked] = "rejected" /\ rpc = "gone")

Publish(j) ==
  (Admit(j) \/ Push(j) \/ Leave(j) \/ Notify(j) \/ Wake(j)) /\ UNCHANGED jobVars

RejectJob(j) ==
  Reject(j) /\ IF j = Tracked THEN J!CloseUnstarted ELSE UNCHANGED jobVars

DrainTask ==
  /\ OwnerFree
  /\ DrainPoll \/ ClearNotified \/ QueueEmpty \/ BatchDone \/ Barrier
  /\ UNCHANGED jobVars

StartNext ==
  /\ OwnerFree /\ StartJob
  /\ IF Head(queue) = Tracked THEN J!SpawnLocal ELSE UNCHANGED jobVars

CloseNext ==
  /\ OwnerFree /\ CloseQueued
  /\ IF queue # <<>> /\ Head(queue) = Tracked THEN J!CloseUnstarted ELSE UNCHANGED jobVars

DropDrainTask == OwnerFree /\ DropDrain /\ UNCHANGED jobVars

RunnerTask == RunnerMayStep /\ J!RunnerStep /\ UNCHANGED spawnerVars
DropRunnerTask == RunnerMayStep /\ J!DropRunner /\ UNCHANGED spawnerVars
Wakes == J!FutureWakes /\ UNCHANGED spawnerVars

HandlePolled == HandleExists /\ J!JoinPoll /\ UNCHANGED spawnerVars
HandleStep == HandleExists /\ J!JoinStep /\ UNCHANGED spawnerVars
CancelJob == HandleExists /\ J!Cancel /\ UNCHANGED spawnerVars
DropHandle == HandleExists /\ J!Detach /\ UNCHANGED spawnerVars

Submission(j) == Publish(j) \/ RejectJob(j)
Draining == DrainTask \/ StartNext \/ CloseNext

RemoteNext ==
  \/ \E j \in Jobs : Submission(j)
  \/ Draining \/ DropDrainTask
  \/ RunnerTask \/ DropRunnerTask \/ Wakes
  \/ HandlePolled \/ HandleStep \/ CancelJob \/ DropHandle

\* Submitters do not stop inside submit(), the owner polls its scheduled tasks
\* and their polls return, a woken joiner is polled.  Nothing obliges anybody to
\* submit, cancel or drop.
RemoteFairness ==
  /\ \A j \in Jobs : WF_allVars(subpc[j] # "new" /\ Submission(j))
  /\ WF_allVars(Draining) /\ WF_allVars(RunnerTask)
  /\ WF_allVars(HandleStep) /\ WF_allVars(jwoken /\ HandlePolled)

RemoteSpec == RemoteInit /\ [][RemoteNext]_allVars /\ RemoteFairness

-----------------------------------------------------------------------------
(* Properties *)

\* The owner and the joiner never access the stage, a plain cell, at the same
\* time: the joiner takes it only after DONE, and whoever closed the job is then
\* past its last access.
StageExclusive == J!StageExclusive

\* No job and no cancellation is lost: a queued job will be drained, a dropped
\* drain task has started or closed every job that got through admit(), and a
\* cancellation wakes its runner and leaves no waker behind, whether it comes
\* before the job is started, while its runner registers, or while it is polled.
NothingLost ==
  /\ NoLostJob /\ ClosedForGood
  /\ J!CancelNotLost /\ J!NoWakerRetained

\* A handle that waits is answered once its job has been cancelled or is over,
\* also if the cancellation finds the job in the queue, or the queue is closed
\* under it (submit, Drain, Runner, poll_join).
JoinAnswered ==
  jpc = "waiting" /\ (state \cap {"CANCELLED", "DONE"} # {} \/ job[Tracked] = "closed")
    ~> jpc \in {"resolved", "dropped"}
=============================================================================
