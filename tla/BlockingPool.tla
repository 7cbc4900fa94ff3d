---------------------------- MODULE BlockingPool ----------------------------
(***************************************************************************)
(* The pool of threads for blocking work: ntex-rt/src/pool.rs.             *)
(*                                                                         *)
(* A submission offers its closure to a waiting worker; if none takes it,  *)
(* it queues the closure and then tries to reserve a slot for a new        *)
(* worker.  A worker that has waited too long gives its slot back and only *)
(* then looks at the queue again.  Starting a thread may fail.             *)
(***************************************************************************)
EXTENDS Naturals, Sequences, FiniteSets

CONSTANTS
  Tasks,        \* closures, each submitted once by a thread of its own
  Workers,      \* identities of worker threads
  NoTask,       \* no closure
  ThreadLimit   \* ThreadPool::thread_limit, at least one

ASSUME PoolAssumption ==
  /\ IsFiniteSet(Tasks) /\ IsFiniteSet(Workers) /\ Tasks \cap Workers = {}
  /\ NoTask \notin Tasks
  /\ ThreadLimit \in Nat \ {0}

VARIABLES
  counter,   \* `counter`: reserved worker slots
  high,      \* the unbounded queue
  open,      \* a clone of the pool exists
  spc,       \* where each submission is
  wpc,       \* where each worker is
  wtask,     \* the closure a busy worker has
  receiver,  \* the task's BlockingResult has not been dropped
  detached,  \* the task's `detached` flag
  outcome    \* what became of each closure

vars == <<counter, high, open, spc, wpc, wtask, receiver, detached, outcome>>
resultVars == <<receiver, detached>>

Init ==
  /\ counter = 0 /\ high = <<>> /\ open = TRUE
  /\ spc = [t \in Tasks |-> "new"]
  /\ wpc = [w \in Workers |-> "none"] /\ wtask = [w \in Workers |-> NoTask]
  /\ receiver = [t \in Tasks |-> TRUE] /\ detached = [t \in Tasks |-> FALSE]
  /\ outcome = [t \in Tasks |-> "pending"]

-----------------------------------------------------------------------------
(* ThreadPool::execute *)

Submit(t, from, to) == spc[t] = from /\ spc' = [spc EXCEPT ![t] = to]

\* try_send on the rendezvous channel succeeds with a worker that waits.
HandOver(t, w) ==
  /\ open /\ Submit(t, "new", "done")
  /\ wpc[w] = "idle"
  /\ wpc' = [wpc EXCEPT ![w] = "busy"] /\ wtask' = [wtask EXCEPT ![w] = t]
  /\ UNCHANGED <<counter, high, open, resultVars, outcome>>

\* Otherwise the closure is queued.  A worker on its way into the select is
\* not waiting yet, so this may happen with an idle worker too.
Enqueue(t) ==
  /\ open /\ Submit(t, "new", "queued")
  /\ high' = Append(high, t)
  /\ UNCHANGED <<counter, open, wpc, wtask, resultVars, outcome>>

\* CounterGuard::reserve
ReserveSlot(t) ==
  /\ Submit(t, "queued", IF counter < ThreadLimit THEN "spawning" ELSE "done")
  /\ counter' = IF counter < ThreadLimit THEN counter + 1 ELSE counter
  /\ UNCHANGED <<high, open, wpc, wtask, resultVars, outcome>>

SpawnWorker(t, w) ==
  /\ Submit(t, "spawning", "done")
  /\ wpc[w] = "none"
  /\ wpc' = [wpc EXCEPT ![w] = "idle"]
  /\ UNCHANGED <<counter, high, open, wtask, resultVars, outcome>>

\* The thread cannot be started, its guard releases the slot.
SpawnFails(t) ==
  /\ Submit(t, "spawning", "failed")
  /\ counter' = counter - 1
  /\ UNCHANGED <<high, open, wpc, wtask, resultVars, outcome>>

\* Mutant: the submission gives up without looking at the queue.
GiveUp(t) ==
  /\ Submit(t, "failed", "done")
  /\ UNCHANGED <<counter, high, open, wpc, wtask, resultVars, outcome>>

\* The loop that drops queued closures while there is no slot in use; the load
\* of the counter and try_recv are separate steps.
Purge(t) ==
  /\ Submit(t, "failed", IF counter = 0 THEN "purging" ELSE "done")
  /\ UNCHANGED <<counter, high, open, wpc, wtask, resultVars, outcome>>

PurgeRecv(t) ==
  /\ Submit(t, "purging", IF high = <<>> THEN "done" ELSE "failed")
  /\ IF high = <<>>
     THEN UNCHANGED <<high, outcome>>
     ELSE /\ high' = Tail(high)
          /\ outcome' = [outcome EXCEPT ![Head(high)] = "dropped"]
  /\ UNCHANGED <<counter, open, wpc, wtask, resultVars>>

-----------------------------------------------------------------------------
(* worker() *)

Work(w, from, to) == wpc[w] = from /\ wpc' = [wpc EXCEPT ![w] = to]

\* The biased select prefers the queue.
TakeQueued(w) ==
  /\ Work(w, "idle", "busy") /\ high # <<>>
  /\ wtask' = [wtask EXCEPT ![w] = Head(high)]
  /\ high' = Tail(high)
  /\ UNCHANGED <<counter, open, spc, resultVars, outcome>>

\* The submitted closure: it does not run when its result has been dropped,
\* unless it was detached.  A panic of the closure is its result.
RunTask(w) ==
  /\ Work(w, "busy", "idle")
  /\ LET t == wtask[w]
     IN outcome' = [outcome EXCEPT ![t] = IF receiver[t] \/ detached[t] THEN "ran"
                                                                        ELSE "skipped"]
  /\ wtask' = [wtask EXCEPT ![w] = NoTask]
  /\ UNCHANGED <<counter, high, open, spc, resultVars>>

\* The select times out; then the worker's guard releases the slot.
Expire(w) ==
  /\ Work(w, "idle", "expired") /\ high = <<>> /\ open
  /\ UNCHANGED <<counter, high, open, spc, wtask, resultVars, outcome>>

ReleaseSlot(w) ==
  /\ Work(w, "expired", "released")
  /\ counter' = counter - 1
  /\ UNCHANGED <<high, open, spc, wtask, resultVars, outcome>>

\* Mutant: an expired worker does not look at the queue again.
ExitBlindly(w) ==
  /\ Work(w, "released", "none")
  /\ UNCHANGED <<counter, high, open, spc, wtask, resultVars, outcome>>

\* Work queued meanwhile keeps the worker if it gets a slot again.
Recheck(w) ==
  /\ Work(w, "released", IF high = <<>> THEN "none" ELSE "found")
  /\ UNCHANGED <<counter, high, open, spc, wtask, resultVars, outcome>>

\* Mutant: the worker comes back without a slot.
ComeBack(w) ==
  /\ Work(w, "found", "idle")
  /\ UNCHANGED <<counter, high, open, spc, wtask, resultVars, outcome>>

Reenter(w) ==
  /\ Work(w, "found", IF counter < ThreadLimit THEN "idle" ELSE "none")
  /\ counter' = IF counter < ThreadLimit THEN counter + 1 ELSE counter
  /\ UNCHANGED <<high, open, spc, wtask, resultVars, outcome>>

\* The channels are disconnected: the worker has drained the queue and exits.
Disconnected(w) ==
  /\ ~open /\ high = <<>>
  /\ Work(w, "idle", "none")
  /\ counter' = counter - 1
  /\ UNCHANGED <<high, open, spc, wtask, resultVars, outcome>>

-----------------------------------------------------------------------------
(* The caller's side of BlockingResult, and the drop of the pool. *)

\* detach() sets the flag; the receiver is dropped afterwards.
Detach(t) ==
  /\ spc[t] # "new" /\ receiver[t] /\ ~detached[t]
  /\ detached' = [detached EXCEPT ![t] = TRUE]
  /\ UNCHANGED <<counter, high, open, spc, wpc, wtask, receiver, outcome>>

DropResult(t) ==
  /\ spc[t] # "new" /\ receiver[t]
  /\ receiver' = [receiver EXCEPT ![t] = FALSE]
  /\ UNCHANGED <<counter, high, open, spc, wpc, wtask, detached, outcome>>

DropPool ==
  /\ open /\ \A t \in Tasks : spc[t] \in {"new", "done"}
  /\ open' = FALSE
  /\ UNCHANGED <<counter, high, spc, wpc, wtask, resultVars, outcome>>

-----------------------------------------------------------------------------
SubmitStep(t) ==
  \/ ReserveSlot(t) \/ SpawnFails(t) \/ Purge(t) \/ PurgeRecv(t)
  \/ \E w \in Workers : SpawnWorker(t, w)

WorkerStep(w) ==
  \/ TakeQueued(w) \/ RunTask(w) \/ Disconnected(w)
  \/ ReleaseSlot(w) \/ Recheck(w) \/ Reenter(w)

Next ==
  \/ \E t \in Tasks : \/ Enqueue(t) \/ SubmitStep(t) \/ Detach(t) \/ DropResult(t)
                      \/ \E w \in Workers : HandOver(t, w)
  \/ \E w \in Workers : WorkerStep(w) \/ Expire(w)
  \/ DropPool

\* Running threads make progress and closures return.  No time limit is
\* assumed to expire, no result to be dropped and no pool to go away.
Fairness ==
  /\ \A t \in Tasks : WF_vars(SubmitStep(t))
  /\ \A w \in Workers : WF_vars(WorkerStep(w))

Spec == Init /\ [][Next]_vars /\ Fairness

-----------------------------------------------------------------------------
(* Properties. *)

\* Every variable keeps its type; the counter of slots never goes below zero
\* (CounterGuard).
TypeOK ==
  /\ counter \in Nat /\ high \in Seq(Tasks) /\ open \in BOOLEAN
  /\ spc \in [Tasks -> {"new", "queued", "spawning", "failed", "purging", "done"}]
  /\ wpc \in [Workers -> {"none", "idle", "busy", "expired", "released", "found"}]
  /\ wtask \in [Workers -> Tasks \cup {NoTask}]
  /\ \A w \in Workers : wpc[w] = "busy" => wtask[w] \in Tasks
  /\ receiver \in [Tasks -> BOOLEAN] /\ detached \in [Tasks -> BOOLEAN]
  /\ outcome \in [Tasks -> {"pending", "ran", "skipped", "dropped"}]

\* Those whose CounterGuard exists: workers, and threads about to be started.
SlotHolders ==
  {w \in Workers : wpc[w] \in {"idle", "busy", "expired"}} \cup {t \in Tasks : spc[t] = "spawning"}

\* `counter` counts the slots that are held, and no more than thread_limit
\* closures ever run at once (CounterGuard::reserve).
LimitRespected ==
  counter = Cardinality(SlotHolders) /\ Cardinality(SlotHolders) <= ThreadLimit

\* Queued work is never stranded: some worker will look at the queue, or some
\* submission is still going to start a worker or to drop what is queued
\* (the fences in worker() and execute(), and the loop after a failed spawn).
NoStrandedTask ==
  high # <<>> =>
    \/ \E w \in Workers : wpc[w] # "none"
    \/ \E t \in Tasks : spc[t] \in {"queued", "spawning", "failed", "purging"}

\* A detached closure is never skipped, and neither is one whose result is
\* still awaited (the closure built in execute).
SkippedOnlyIfCancelled ==
  \A t \in Tasks : outcome[t] = "skipped" => ~receiver[t] /\ ~detached[t]

\* Every submitted closure runs, is skipped, or fails, even if the thread for it
\* cannot be started or the last worker expires meanwhile (execute, worker).
TasksResolve == \A t \in Tasks : spc[t] # "new" ~> outcome[t] # "pending"
=============================================================================
