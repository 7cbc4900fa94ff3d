------------------------------ MODULE RemoteJob ------------------------------
(***************************************************************************)
(* A future submitted to another thread and joined from here:              *)
(* ntex-rt/src/remote.rs.  The runner polls the future on the owner        *)
(* thread; the joiner polls, cancels and drops its handle on another one.  *)
(* They share three bits, two wakers and the stage; every access to a bit  *)
(* or a waker is a step of its own.                                        *)
(***************************************************************************)
EXTENDS Naturals

CONSTANT MaxPolls   \* bound: polls of the joiner, and spurious wakes

VARIABLES
  state,      \* Job::state, a subset of Bits
  stage,      \* Job::stage: "running", "done" (an output) or "empty"
  runWaker,   \* run_waker holds the runner's waker
  joinWaker,  \* join_waker holds the joiner's waker
  rpc,        \* where the runner task is
  seen,       \* what the runner's first load returned
  runnable,   \* the runner task is scheduled
  jpc,        \* where the joining thread is
  jwoken,     \* the joiner's waker has been woken
  cancelling, \* cancel() still has to wake the runner
  result,     \* what poll_join returned
  polls       \* bounded steps so far

runner == <<rpc, seen, runnable>>
joiner == <<jpc, jwoken, cancelling, result>>

Bits == {"DONE", "CANCELLED", "JOINABLE"}

\* Job::new for a joinable job; it is submitted to a spawner.
Init ==
  /\ state = {"JOINABLE"} /\ stage = "running"
  /\ runWaker = FALSE /\ joinWaker = FALSE
  /\ rpc = "queued" /\ seen = {} /\ runnable = FALSE
  /\ jpc = "idle" /\ jwoken = FALSE /\ cancelling = FALSE /\ result = "none"
  /\ polls = 0

-----------------------------------------------------------------------------
(* Runner::poll and Drop for Runner *)

Run(from, to) == rpc = from /\ rpc' = to

\* spawn_local(): the runner becomes a task of the owner thread.
SpawnLocal ==
  /\ Run("queued", "parked")
  /\ runnable' = TRUE
  /\ UNCHANGED <<state, stage, runWaker, joinWaker, seen, joiner, polls>>

\* The spawner closes a job that it rejects, or that it has not started.
CloseUnstarted ==
  /\ Run("queued", "closing")
  /\ UNCHANGED <<state, stage, runWaker, joinWaker, seen, runnable, joiner, polls>>

RunnerPoll ==
  /\ Run("parked", "check") /\ runnable
  /\ runnable' = FALSE /\ seen' = state
  /\ UNCHANGED <<state, stage, runWaker, joinWaker, joiner, polls>>

\* A cancelled job is closed; a joinable one registers the runner's waker.
RunnerCheck ==
  /\ Run("check", IF "DONE" \in seen THEN "gone"
                  ELSE IF "CANCELLED" \in seen THEN "closing"
                  ELSE IF "JOINABLE" \in seen THEN "recheck" ELSE "poll")
  /\ runWaker' = (runWaker \/ rpc' = "recheck")
  /\ UNCHANGED <<state, stage, joinWaker, seen, runnable, joiner, polls>>

\* Mutant: a cancellation that came before the registration is missed.
RunnerNoRecheck ==
  /\ Run("recheck", "poll")
  /\ UNCHANGED <<state, stage, runWaker, joinWaker, seen, runnable, joiner, polls>>

RunnerRecheck ==
  /\ Run("recheck", IF "CANCELLED" \in state THEN "closing" ELSE "poll")
  /\ UNCHANGED <<state, stage, runWaker, joinWaker, seen, runnable, joiner, polls>>

FuturePending ==
  /\ Run("poll", "parked")
  /\ UNCHANGED <<state, stage, runWaker, joinWaker, seen, runnable, joiner, polls>>

\* finish(Stage::Done(out)): the future is dropped, the output installed.
FutureReady ==
  /\ Run("poll", "finish")
  /\ stage' = "done"
  /\ UNCHANGED <<state, runWaker, joinWaker, seen, runnable, joiner, polls>>

\* close(), by a cancellation, the drop of the parked runner, or the spawner.
CloseJob ==
  /\ Run("closing", "finish")
  /\ stage' = "empty"
  /\ UNCHANGED <<state, runWaker, joinWaker, seen, runnable, joiner, polls>>

DropRunner ==
  /\ Run("parked", "closing")
  /\ UNCHANGED <<state, stage, runWaker, joinWaker, seen, runnable, joiner, polls>>

\* complete() in three steps
PublishDone ==
  /\ Run("finish", "release")
  /\ state' = state \cup {"DONE"}
  /\ UNCHANGED <<stage, runWaker, joinWaker, seen, runnable, joiner, polls>>

TakeRunWaker ==
  /\ Run("release", "notify")
  /\ runWaker' = FALSE
  /\ UNCHANGED <<state, stage, joinWaker, seen, runnable, joiner, polls>>

WakeJoiner ==
  /\ Run("notify", "gone")
  /\ jwoken' = (jwoken \/ joinWaker) /\ joinWaker' = FALSE
  /\ UNCHANGED <<state, stage, runWaker, seen, runnable, jpc, cancelling, result, polls>>

\* The future's own wakes.
FutureWakes ==
  /\ rpc \in {"parked", "poll"} /\ ~runnable /\ polls < MaxPolls
  /\ runnable' = TRUE /\ polls' = polls + 1
  /\ UNCHANGED <<state, stage, runWaker, joinWaker, rpc, seen, joiner>>

-----------------------------------------------------------------------------
(* RemoteJoin *)

Join(from, to) == jpc = from /\ jpc' = to

\* The joining task polls its handle when it is first polled or woken, or for
\* reasons of its own; an unfinished job gets the joiner's waker.
JoinPoll ==
  /\ ~cancelling
  /\ \/ jpc = "idle" /\ polls < MaxPolls /\ polls' = polls + 1
     \/ jpc = "waiting" /\ (jwoken \/ polls < MaxPolls)
        /\ polls' = IF jwoken THEN polls ELSE polls + 1
  /\ jwoken' = FALSE
  /\ jpc' = IF "DONE" \in state THEN "take" ELSE "register"
  /\ UNCHANGED <<state, stage, runWaker, joinWaker, runner, cancelling, result>>

JoinRegister ==
  /\ Join("register", "recheck")
  /\ joinWaker' = TRUE
  /\ UNCHANGED <<state, stage, runWaker, runner, jwoken, cancelling, result, polls>>

\* Mutant: poll_join does not look again after registering.
JoinNoRecheck ==
  /\ Join("recheck", "waiting")
  /\ UNCHANGED <<state, stage, runWaker, joinWaker, runner, jwoken, cancelling, result, polls>>

\* Mutant: the joiner takes the stage before the job is done.
JoinTakesEarly ==
  /\ Join("recheck", "take")
  /\ UNCHANGED <<state, stage, runWaker, joinWaker, runner, jwoken, cancelling, result, polls>>

JoinRecheck ==
  /\ Join("recheck", IF "DONE" \in state THEN "take" ELSE "waiting")
  /\ UNCHANGED <<state, stage, runWaker, joinWaker, runner, jwoken, cancelling, result, polls>>

JoinTake ==
  /\ Join("take", "resolved")
  /\ result' = IF stage = "done" THEN "output" ELSE "cancelled"
  /\ stage' = "empty"
  /\ UNCHANGED <<state, runWaker, joinWaker, runner, jwoken, cancelling, polls>>

\* cancel(): the bit first, then the runner's waker.
Cancel ==
  /\ jpc \in {"idle", "waiting"} /\ "CANCELLED" \notin state
  /\ state' = state \cup {"CANCELLED"} /\ cancelling' = TRUE
  /\ UNCHANGED <<stage, runWaker, joinWaker, runner, jpc, jwoken, result, polls>>

WakeRunner ==
  /\ cancelling
  /\ cancelling' = FALSE
  /\ runnable' = (runnable \/ (runWaker /\ rpc # "gone")) /\ runWaker' = FALSE
  /\ UNCHANGED <<state, stage, joinWaker, rpc, seen, jpc, jwoken, result, polls>>

\* Drop for RemoteJoin
Detach ==
  /\ jpc \in {"idle", "waiting", "resolved"} /\ ~cancelling
  /\ jpc' = "dropped"
  /\ state' = state \ {"JOINABLE"}
  /\ UNCHANGED <<stage, runWaker, joinWaker, runner, jwoken, cancelling, result, polls>>

-----------------------------------------------------------------------------
RunnerStep ==
  \/ RunnerPoll \/ RunnerCheck \/ RunnerRecheck \/ FuturePending \/ FutureReady
  \/ CloseJob \/ PublishDone \/ TakeRunWaker \/ WakeJoiner

JoinStep == JoinRegister \/ JoinRecheck \/ JoinTake \/ WakeRunner

-----------------------------------------------------------------------------
(* Properties. *)

\* Every variable keeps its type: the three bits, the stage, where the two
\* threads are (Job, Runner, RemoteJoin).
TypeOK ==
  /\ state \subseteq Bits /\ seen \subseteq Bits
  /\ stage \in {"running", "done", "empty"}
  /\ runWaker \in BOOLEAN /\ joinWaker \in BOOLEAN /\ runnable \in BOOLEAN
  /\ rpc \in {"queued", "parked", "check", "recheck", "poll", "closing", "finish", "release", "notify",
              "gone"}
  /\ jpc \in {"idle", "register", "recheck", "waiting", "take", "resolved", "dropped"}
  /\ jwoken \in BOOLEAN /\ cancelling \in BOOLEAN
  /\ result \in {"none", "output", "cancelled"} /\ polls \in 0..MaxPolls

\* The owner and the joiner never access the stage at the same time: the joiner
\* takes it only after DONE, and the owner is then past its last access.
StageExclusive ==
  jpc = "take" => rpc \in {"release", "notify", "gone"}

\* A cancellation is not lost: once cancel() has returned, the runner is gone,
\* on its way out, or scheduled; it never sleeps on a cancelled job.
CancelNotLost ==
  "CANCELLED" \in state /\ ~cancelling /\ rpc = "parked" => runnable

\* A finished runner leaves no waker behind that would keep its task alive.
NoWakerRetained == rpc = "gone" => ~runWaker
=============================================================================
