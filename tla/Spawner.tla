------------------------------- MODULE Spawner -------------------------------
(***************************************************************************)
(* The queue through which other threads start tasks on an arbiter thread  *)
(* of the tokio and compio runtimes: Spawner and its Drain task in         *)
(* ntex-rt/src/remote.rs.  Submitters publish without a lock; one task of  *)
(* the owner drains the queue in batches and closes it when it is dropped. *)
(* Remote composes it with RemoteJob, which is what it starts.             *)
(***************************************************************************)
EXTENDS Naturals, Sequences, FiniteSets

CONSTANTS
  Jobs,    \* each submitted once by a thread of its own
  Batch    \* BATCH: jobs started per poll of the drain task

ASSUME SpawnerAssumption == IsFiniteSet(Jobs) /\ Batch \in Nat \ {0}

VARIABLES
  closed,     \* the CLOSED bit of `admission`
  admitted,   \* its count of publications in progress
  notified,   \* coalesces the wakes of the drain task
  waker,      \* AtomicWaker: the drain task's waker is registered
  queue,      \* published jobs
  subpc,        \* where each submission is
  job,        \* what became of each job: "new", "started" or "closed"
  dpc,        \* where the drain task is
  scheduled,  \* the drain task is scheduled
  left        \* what remains of its batch

submission == <<subpc, admitted>>
drain == <<dpc, scheduled, left>>
spawnerVars == <<closed, notified, waker, queue, submission, job, drain>>

\* start(): the drain task has been spawned and not polled yet.
SpawnerInit ==
  /\ closed = FALSE /\ admitted = 0 /\ notified = FALSE /\ waker = FALSE
  /\ queue = <<>>
  /\ subpc = [j \in Jobs |-> "new"] /\ job = [j \in Jobs |-> "new"]
  /\ dpc = "parked" /\ scheduled = TRUE /\ left = 0

-----------------------------------------------------------------------------
(* submit *)

Advance(j, from, to) == subpc[j] = from /\ subpc' = [subpc EXCEPT ![j] = to]

\* admit(): the compare-and-swap that succeeds.
Admit(j) ==
  /\ ~closed
  /\ Advance(j, "new", "admitted")
  /\ admitted' = admitted + 1
  /\ UNCHANGED <<closed, notified, waker, queue, job, drain>>

\* A rejected job is closed by its submitter.
Reject(j) ==
  /\ closed
  /\ Advance(j, "new", "rejected")
  /\ job' = [job EXCEPT ![j] = "closed"]
  /\ UNCHANGED <<closed, admitted, notified, waker, queue, drain>>

Push(j) ==
  /\ Advance(j, "admitted", "pushed")
  /\ queue' = Append(queue, j)
  /\ UNCHANGED <<closed, admitted, notified, waker, job, drain>>

Leave(j) ==
  /\ Advance(j, "pushed", "left")
  /\ admitted' = admitted - 1
  /\ UNCHANGED <<closed, notified, waker, queue, job, drain>>

Notify(j) ==
  /\ Advance(j, "left", IF notified THEN "returned" ELSE "waking")
  /\ notified' = TRUE
  /\ UNCHANGED <<closed, admitted, waker, queue, job, drain>>

Wake(j) ==
  /\ Advance(j, "waking", "returned")
  /\ scheduled' = (scheduled \/ (waker /\ dpc # "gone")) /\ waker' = FALSE
  /\ UNCHANGED <<closed, admitted, notified, queue, job, dpc, left>>

-----------------------------------------------------------------------------
(* Drain::poll *)

Drain(from, to) == dpc = from /\ dpc' = to

DrainPoll ==
  /\ Drain("parked", "registered") /\ scheduled
  /\ scheduled' = FALSE /\ waker' = TRUE /\ left' = Batch
  /\ UNCHANGED <<closed, notified, queue, submission, job>>

ClearNotified ==
  /\ Drain("registered", "popping")
  /\ notified' = FALSE
  /\ UNCHANGED <<closed, waker, queue, submission, job, scheduled, left>>

\* spawn_local for one job.
StartJob ==
  /\ Drain("popping", "popping") /\ left > 0 /\ queue # <<>>
  /\ queue' = Tail(queue) /\ left' = left - 1
  /\ job' = [job EXCEPT ![Head(queue)] = "started"]
  /\ UNCHANGED <<closed, notified, waker, submission, scheduled>>

QueueEmpty ==
  /\ Drain("popping", "parked") /\ left > 0 /\ queue = <<>>
  /\ UNCHANGED <<closed, notified, waker, queue, submission, job, scheduled, left>>

BatchDone ==
  /\ Drain("popping", "parked") /\ left = 0
  /\ scheduled' = TRUE
  /\ UNCHANGED <<closed, notified, waker, queue, submission, job, left>>

\* Drop for Drain: close(), in three steps.
DropDrain ==
  /\ Drain("parked", "closing")
  /\ closed' = TRUE
  /\ UNCHANGED <<notified, waker, queue, submission, job, scheduled, left>>

Barrier ==
  /\ Drain("closing", "draining") /\ admitted = 0
  /\ UNCHANGED <<closed, notified, waker, queue, submission, job, scheduled, left>>

CloseQueued ==
  /\ dpc = "draining"
  /\ IF queue = <<>>
     THEN dpc' = "gone" /\ UNCHANGED <<queue, job>>
     ELSE /\ queue' = Tail(queue) /\ UNCHANGED dpc
          /\ job' = [job EXCEPT ![Head(queue)] = "closed"]
  /\ UNCHANGED <<closed, notified, waker, submission, scheduled, left>>

-----------------------------------------------------------------------------
(* Properties. *)

\* Every variable keeps its type; the count of `admission` is the number of
\* submitters between admit() and the decrement, so it never reaches the
\* CLOSED bit from below.
SpawnerTypeOK ==
  /\ closed \in BOOLEAN /\ notified \in BOOLEAN /\ waker \in BOOLEAN
  /\ subpc \in [Jobs -> {"new", "admitted", "pushed", "left", "waking", "returned", "rejected"}]
  /\ admitted = Cardinality({j \in Jobs : subpc[j] \in {"admitted", "pushed"}})
  /\ queue \in Seq(Jobs)
  /\ job \in [Jobs -> {"new", "started", "closed"}]
  /\ dpc \in {"parked", "registered", "popping", "closing", "draining", "gone"}
  /\ scheduled \in BOOLEAN /\ left \in 0..Batch

\* A published job is not forgotten: while it is queued the drain task runs, is
\* scheduled, or some submitter is still going to wake it (submit, Drain::poll).
NoLostJob ==
  queue # <<>> /\ dpc = "parked" =>
    scheduled \/ \E j \in Jobs : subpc[j] \in {"pushed", "left", "waking"}

\* Nothing is published behind the back of a dropped drain task: every job that
\* got through admit() has been started or closed (close, admit).
ClosedForGood ==
  dpc = "gone" =>
    queue = <<>> /\ \A j \in Jobs : subpc[j] # "new" => job[j] # "new"
=============================================================================
