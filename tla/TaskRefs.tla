------------------------------ MODULE TaskRefs ------------------------------
(***************************************************************************)
(* One task of the native runtime: ntex-rt/src/rt/task.rs and wake.rs.     *)
(*                                                                         *)
(* Only the owner thread updates the task's flags and its reference count. *)
(* Other threads hold standard wakers; what they do with them becomes a    *)
(* command in the runtime's FIFO, so the count lags behind the references  *)
(* that exist.  A remote operation is three steps: reserve admission, mark *)
(* the task as touched, push the command (the finer steps of publication   *)
(* are module RunQueue).  A release by the owner reads whether commands    *)
(* are pending and acts on the answer in a later step.                     *)
(*                                                                         *)
(* Code on the owner thread may poll or drop the runtime from inside the   *)
(* task's own poll or destructor; commands are then consumed, and shutdown *)
(* runs, while the task is running.                                        *)
(***************************************************************************)
EXTENDS Naturals, Sequences, FiniteSets

CONSTANTS
  Remotes,    \* threads other than the owner
  Owner,      \* the runtime thread
  MaxHeld,    \* bound: standard wakers a thread holds
  MaxOps      \* bound: clones, wakes and join polls

ASSUME TaskRefsAssumption ==
  /\ IsFiniteSet(Remotes) /\ Owner \notin Remotes
  /\ MaxHeld \in Nat /\ MaxOps \in Nat

Threads == Remotes \cup {Owner}

VARIABLES
  alive,    \* the allocation has not been freed
  refs,     \* Core::refs
  flags,    \* Core::state
  touched,  \* Core::remote_touched
  stage,    \* Stage: "running", "finished" or "consumed"
  nlocal,   \* occurrences of the task in the intrusive local queue
  fifo,     \* the commands of this task in the wake queue
  std,      \* standard wakers each thread holds
  loc,      \* native LocalWakers (owner thread)
  join,     \* the join handle exists
  jpoll,    \* where a poll_join is: "no", "cloning", "stored", "pending"
  awaiter,  \* Header::awaiter holds a waker
  jwoken,   \* the join's awaiter has been woken
  base,     \* what the owner does with the task: "idle", "hand" (holds the
            \* popped Runnable), "poll", "closing" (in the destructor)
  rel,      \* an owner release under way: "none", "local", "clear", "pending"
  sd,       \* the runtime: "open", "barrier", "drain", "down"
  sdBase,   \* base when shutdown started
  rop,      \* the operation each remote thread is in
  leaked,   \* references of wakers dropped after the endpoint closed
  owed,     \* a wake has been issued and no poll has started since
  drops,    \* times the future has been dropped
  ops       \* operations so far

counts == <<refs, flags, touched, stage>>
queues == <<nlocal, fifo>>
joinVars == <<join, jpoll, awaiter, jwoken>>
ownerVars == <<base, rel>>
shutdown == <<sd, sdBase>>
ghosts == <<leaked, owed, drops>>
vars == <<alive, counts, queues, std, loc, joinVars, ownerVars, shutdown, rop, ghosts, ops>>

Flags == {"SCHEDULED", "RUNNING", "FINISHED", "CLOSE", "DETACHED", "LISTED", "CANCEL_ON_DROP"}
Ops == {"Spawn", "AddRef", "Release", "Wake", "WakeAndRelease"}
Poll == "poll-waker"   \* the waker a poll borrows from the run reference
NoOp == [op |-> "none", src |-> Owner, at |-> "idle"]

Has(f) == f \in flags
One(b) == IF b THEN 1 ELSE 0

-----------------------------------------------------------------------------
(* Spawning: task::create on the owner with a join handle, on the owner    *)
(* without one, or by another thread whose submission has been accepted.   *)

Spawned(fl, n, joined, local, queue) ==
  /\ refs = n /\ flags = fl /\ join = joined /\ nlocal = local /\ fifo = queue

Init ==
  /\ \/ Spawned({"SCHEDULED", "LISTED"}, 2, TRUE, 1, <<>>)
     \/ Spawned({"SCHEDULED", "LISTED", "DETACHED"}, 1, FALSE, 1, <<>>)
     \/ Spawned({"SCHEDULED", "DETACHED"}, 1, FALSE, 0, <<"Spawn">>)
  /\ alive = TRUE /\ touched = FALSE /\ stage = "running"
  /\ std = [t \in Threads |-> 0] /\ loc = 0
  /\ jpoll = "no" /\ awaiter = FALSE /\ jwoken = FALSE
  /\ base = "idle" /\ rel = "none" /\ sd = "open" /\ sdBase = "idle"
  /\ rop = [r \in Remotes |-> NoOp]
  /\ leaked = 0 /\ owed = TRUE /\ drops = 0 /\ ops = 0

-----------------------------------------------------------------------------
(* Remote wakers: clone_waker, wake and drop_waker with Owner::Remote. *)

Borrowed(src) == \E r \in Remotes : rop[r].op # "none" /\ rop[r].src = src

\* A thread may give up a waker only while no other thread borrows it.
CanConsume(t) == std[t] > 0 /\ (std[t] > 1 \/ ~Borrowed(t))

\* A waker can be borrowed from whoever holds it and is not giving it up; the
\* poll lends its own.
Consuming(t) == t \in Remotes /\ rop[t].op \in {"Release", "WakeAndRelease"}

CanBorrow(src) ==
  IF src = Poll THEN base = "poll" ELSE std[src] > One(Consuming(src))

CountOp == ops < MaxOps /\ ops' = ops + 1

\* admit() of publish_admitted, for clone and wake_by_ref
RemoteBorrowOp(r, op, src) ==
  /\ rop[r] = NoOp /\ sd = "open" /\ CanBorrow(src)
  /\ op = "AddRef" => std[r] < MaxHeld
  /\ CountOp
  /\ rop' = [rop EXCEPT ![r] = [op |-> op, src |-> src, at |-> "admitted"]]
  /\ UNCHANGED <<alive, counts, queues, std, loc, joinVars, ownerVars, shutdown, ghosts>>

\* the same for wake and drop, which consume the waker
RemoteConsumeOp(r, op) ==
  /\ rop[r] = NoOp /\ sd = "open" /\ CanConsume(r)
  /\ rop' = [rop EXCEPT ![r] = [op |-> op, src |-> r, at |-> "admitted"]]
  /\ UNCHANGED <<alive, counts, queues, std, loc, joinVars, ownerVars, shutdown, ghosts, ops>>

\* A closed endpoint ignores the operation: the reference is never returned.
RemoteLateDrop(r) ==
  /\ rop[r] = NoOp /\ sd # "open" /\ CanConsume(r)
  /\ std' = [std EXCEPT ![r] = @ - 1] /\ leaked' = leaked + 1
  /\ UNCHANGED <<alive, counts, queues, loc, joinVars, ownerVars, shutdown, rop, owed,
                 drops, ops>>

RemoteTouch(r) ==
  /\ rop[r].at = "admitted"
  /\ touched' = TRUE
  /\ rop' = [rop EXCEPT ![r].at = "touched"]
  /\ UNCHANGED <<alive, refs, flags, stage, queues, std, loc, joinVars, ownerVars, shutdown,
                 ghosts, ops>>

\* RemotePermit::publish: the command is linked and the permit released.
RemotePush(r) ==
  /\ rop[r].at = "touched"
  /\ fifo' = Append(fifo, rop[r].op)
  /\ std' = [std EXCEPT ![r] = CASE rop[r].op = "AddRef" -> @ + 1
                                 [] rop[r].op = "Wake" -> @
                                 [] OTHER -> @ - 1]
  /\ owed' = (owed \/ rop[r].op \in {"Wake", "WakeAndRelease"})
  /\ rop' = [rop EXCEPT ![r] = NoOp]
  /\ UNCHANGED <<alive, counts, nlocal, loc, joinVars, ownerVars, shutdown, leaked, drops,
                 ops>>

\* A waker is Send: it moves to another thread.
MoveWaker(t, u) ==
  /\ t # u /\ CanConsume(t) /\ std[u] < MaxHeld
  /\ t \in Remotes => rop[t] = NoOp
  /\ u \in Remotes => rop[u] = NoOp
  /\ CountOp
  /\ std' = [std EXCEPT ![t] = @ - 1, ![u] = @ + 1]
  /\ UNCHANGED <<alive, counts, queues, loc, joinVars, ownerVars, shutdown, rop, ghosts>>

-----------------------------------------------------------------------------
(* References on the owner thread. *)

\* mark_scheduled
Wakeable == ~Has("SCHEDULED") /\ ~Has("FINISHED")

\* Mutant: the last reference is not told from the others.
ReleaseUnsharedAlways == refs' = refs - 1 /\ UNCHANGED rel

\* release_unshared: a reference that is not the last skips the FIFO.
ReleaseUnshared ==
  IF refs > 1 THEN refs' = refs - 1 /\ UNCHANGED rel
              ELSE rel' = "local" /\ UNCHANGED refs

\* wake_local: a wake of a running task is only recorded; otherwise the task
\* is queued with a reference, a new one or the one the caller passes.  A
\* reference that was passed and is not needed is released.
WakeLocal(ref) ==
  /\ flags' = IF Wakeable THEN flags \cup {"SCHEDULED"} ELSE flags
  /\ owed' = (owed \/ ~Has("FINISHED"))
  /\ IF Wakeable /\ ~Has("RUNNING")
     THEN /\ nlocal' = nlocal + 1 /\ UNCHANGED rel
          /\ refs' = IF ref = "borrowed" THEN refs + 1 ELSE refs
     ELSE /\ UNCHANGED nlocal
          /\ CASE ref = "borrowed" -> UNCHANGED <<refs, rel>>
               [] ref = "standard" -> rel' = "local" /\ UNCHANGED refs
               [] ref = "native"   -> ReleaseUnshared

\* release_local_ordered and last_ref: the last reference frees a finished
\* task; an unfinished one is queued once more so that its future is dropped.
ReleaseOrdered ==
  IF refs > 1
  THEN refs' = refs - 1 /\ UNCHANGED <<alive, flags, nlocal>>
  ELSE IF Has("FINISHED")
  THEN refs' = 0 /\ alive' = FALSE /\ UNCHANGED <<flags, nlocal>>
  ELSE /\ refs' = 1 /\ flags' = flags \cup {"SCHEDULED", "CLOSE"}
       /\ nlocal' = nlocal + 1 /\ UNCHANGED alive

\* Mutant: the owner releases without looking for remote acquisitions.
ReleaseUnordered ==
  /\ rel = "local"
  /\ rel' = "none" /\ ReleaseOrdered
  /\ UNCHANGED <<touched, stage, fifo, std, loc, joinVars, base, shutdown, rop, ghosts, ops>>

\* release_local, then release_touched's look at the wake queue, which other
\* tasks' commands may also fill.
ReleaseLocal ==
  /\ rel = "local"
  /\ IF ~touched
     THEN rel' = "none" /\ ReleaseOrdered
     ELSE /\ rel' \in IF sd = "down" THEN {"clear"}
                      ELSE IF fifo # <<>> THEN {"pending"} ELSE {"clear", "pending"}
          /\ UNCHANGED <<alive, refs, flags, nlocal>>
  /\ UNCHANGED <<touched, stage, fifo, std, loc, joinVars, base, shutdown, rop, ghosts, ops>>

\* The rest of release_touched: directly when nothing was pending and other
\* references remain, else through the FIFO; after shutdown directly again.
ReleaseTouched ==
  /\ rel \in {"clear", "pending"}
  /\ rel' = "none"
  /\ \/ /\ (rel = "clear" /\ refs > 1) \/ sd = "down" \/ (sd = "drain" /\ fifo = <<>>)
        /\ ReleaseOrdered /\ UNCHANGED fifo
     \/ /\ rel = "pending" \/ refs <= 1
        /\ sd # "down"
        /\ fifo' = Append(fifo, "Release")
        /\ UNCHANGED <<alive, refs, flags, nlocal>>
  /\ UNCHANGED <<touched, stage, std, loc, joinVars, base, shutdown, rop, ghosts, ops>>

-----------------------------------------------------------------------------
(* Code on the owner thread: the task's own poll or destructor, another    *)
(* task, or after the runtime is gone.                                     *)

UserCode == rel = "none" /\ base # "hand" /\ sd # "barrier" /\ alive

\* clone_waker on the owner: a closed endpoint gives an inert waker instead.
OwnerClone(src) ==
  /\ UserCode /\ sd = "open" /\ CanBorrow(src) /\ std[Owner] < MaxHeld /\ CountOp
  /\ refs' = refs + 1 /\ std' = [std EXCEPT ![Owner] = @ + 1]
  /\ UNCHANGED <<alive, flags, touched, stage, queues, loc, joinVars, ownerVars, shutdown,
                 rop, ghosts>>

OwnerWakeByRef(src) ==
  /\ UserCode /\ sd = "open" /\ CanBorrow(src) /\ CountOp
  /\ WakeLocal("borrowed")
  /\ UNCHANGED <<alive, touched, stage, fifo, std, loc, joinVars, base, shutdown, rop, leaked,
                 drops>>

OwnerWake ==
  /\ UserCode /\ sd = "open" /\ CanConsume(Owner)
  /\ std' = [std EXCEPT ![Owner] = @ - 1]
  /\ WakeLocal("standard")
  /\ UNCHANGED <<alive, touched, stage, fifo, loc, joinVars, base, shutdown, rop, leaked,
                 drops, ops>>

OwnerDropWaker ==
  /\ UserCode /\ CanConsume(Owner)
  /\ std' = [std EXCEPT ![Owner] = @ - 1]
  /\ IF sd = "open" THEN rel' = "local" /\ UNCHANGED leaked
                    ELSE leaked' = leaked + 1 /\ UNCHANGED rel
  /\ UNCHANGED <<alive, counts, queues, loc, joinVars, base, shutdown, rop, owed, drops, ops>>

\* LocalWaker::from_waker with a native waker, and LocalWaker::clone
LocalClone(src) ==
  /\ UserCode /\ loc < MaxHeld /\ CountOp
  /\ loc > 0 \/ (sd = "open" /\ CanBorrow(src))
  /\ refs' = refs + 1 /\ loc' = loc + 1
  /\ UNCHANGED <<alive, flags, touched, stage, queues, std, joinVars, ownerVars, shutdown,
                 rop, ghosts>>

LocalDrop ==
  /\ UserCode /\ loc > 0
  /\ loc' = loc - 1
  /\ ReleaseUnshared
  /\ UNCHANGED <<alive, flags, touched, stage, queues, std, joinVars, base, shutdown, rop,
                 ghosts, ops>>

\* wake_local_waker, by reference; it does not look at the endpoint.
LocalWakeByRef ==
  /\ UserCode /\ loc > 0 /\ CountOp
  /\ WakeLocal("borrowed")
  /\ UNCHANGED <<alive, touched, stage, fifo, std, loc, joinVars, base, shutdown, rop, leaked,
                 drops>>

LocalWake ==
  /\ UserCode /\ loc > 0
  /\ loc' = loc - 1
  /\ WakeLocal("native")
  /\ UNCHANGED <<alive, touched, stage, fifo, std, joinVars, base, shutdown, rop, leaked,
                 drops, ops>>

\* into_waker: a standard reference is acquired, then the local one dropped.
LocalIntoWaker ==
  /\ UserCode /\ loc > 0
  /\ loc' = loc - 1
  /\ IF sd = "open"
     THEN /\ std[Owner] < MaxHeld /\ std' = [std EXCEPT ![Owner] = @ + 1]
          /\ UNCHANGED <<refs, rel>>
     ELSE UNCHANGED std /\ ReleaseUnshared
  /\ UNCHANGED <<alive, flags, touched, stage, queues, joinVars, base, shutdown, rop, ghosts,
                 ops>>

-----------------------------------------------------------------------------
(* The join handle, polled by another task than its own. *)

\* poll_join on an unfinished task clones the waker (user code), stores it and
\* drops the one it replaces (user code), then looks at the task again.
JoinPoll ==
  /\ UserCode /\ base = "idle" /\ join /\ jpoll \in {"no", "pending"} /\ CountOp
  /\ IF Has("FINISHED") THEN jpoll' = "no" /\ stage' = "consumed"
                        ELSE jpoll' = "cloning" /\ UNCHANGED stage
  /\ UNCHANGED <<alive, refs, flags, touched, queues, std, loc, join, awaiter, jwoken,
                 ownerVars, shutdown, rop, ghosts>>

JoinStore ==
  /\ UserCode /\ base = "idle" /\ jpoll = "cloning"
  /\ jpoll' = "stored" /\ awaiter' = TRUE /\ jwoken' = FALSE
  /\ UNCHANGED <<alive, counts, queues, std, loc, join, ownerVars, shutdown, rop, ghosts, ops>>

JoinCheck ==
  /\ UserCode /\ base = "idle" /\ jpoll = "stored"
  /\ IF Has("FINISHED")
     THEN jpoll' = "no" /\ awaiter' = FALSE /\ stage' = "consumed"
     ELSE jpoll' = "pending" /\ UNCHANGED <<awaiter, stage>>
  /\ UNCHANGED <<alive, refs, flags, touched, queues, std, loc, join, jwoken, ownerVars,
                 shutdown, rop, ghosts, ops>>

JoinSetCancel ==
  /\ UserCode /\ join /\ jpoll \in {"no", "pending"} /\ ~Has("CANCEL_ON_DROP")
  /\ flags' = flags \cup {"CANCEL_ON_DROP"}
  /\ UNCHANGED <<alive, refs, touched, stage, queues, std, loc, joinVars, ownerVars, shutdown,
                 rop, ghosts, ops>>

\* Drop for Task
JoinDrop ==
  /\ UserCode /\ join /\ jpoll \in {"no", "pending"}
  /\ join' = FALSE /\ jpoll' = "no"
  /\ LET cancel == Has("CANCEL_ON_DROP")
         marked == flags \cup {"DETACHED"} \cup (IF cancel THEN {"CLOSE"} ELSE {})
     IN IF Has("FINISHED")
        THEN /\ stage' = "consumed" /\ rel' = "local"
             /\ UNCHANGED <<refs, flags, nlocal, awaiter>>
        ELSE /\ awaiter' = FALSE /\ UNCHANGED stage
             /\ IF cancel /\ ~Has("SCHEDULED") /\ ~Has("RUNNING")
                THEN /\ flags' = marked \cup {"SCHEDULED"} /\ nlocal' = nlocal + 1
                     /\ UNCHANGED <<refs, rel>>
                ELSE flags' = marked /\ ReleaseUnshared /\ UNCHANGED nlocal
  /\ UNCHANGED <<alive, touched, fifo, std, loc, jwoken, base, shutdown, rop, ghosts, ops>>

-----------------------------------------------------------------------------
(* The scheduler and Runnable::run. *)

\* The scheduler runs, or the drain of shutdown does; both may be nested in
\* the task's own poll or destructor.
Scheduler == rel = "none" /\ base # "hand" /\ sd \in {"open", "drain"}

PopLocal ==
  /\ Scheduler /\ base = "idle" /\ nlocal > 0
  /\ sd = "drain" => fifo = <<>>
  /\ nlocal' = nlocal - 1 /\ base' = "hand"
  /\ UNCHANGED <<alive, counts, fifo, std, loc, joinVars, rel, shutdown, rop, ghosts, ops>>

\* WakeEntry::into_runnable: a submission is listed and handed to the runner.
ApplySpawn ==
  /\ flags' = flags \cup {"LISTED"} /\ base' = "hand"
  /\ UNCHANGED <<alive, refs, nlocal>>

ApplyAddRef == refs' = refs + 1 /\ UNCHANGED <<alive, flags, nlocal, base>>

ApplyRelease == ReleaseOrdered /\ UNCHANGED base

\* Mutant: no reference is taken for the runnable.
ApplyWakeUncounted(consumes) ==
  IF Wakeable
  THEN /\ flags' = flags \cup {"SCHEDULED"}
       /\ base' = IF Has("RUNNING") THEN base ELSE "hand"
       /\ refs' = refs - One(consumes)
       /\ UNCHANGED <<alive, nlocal>>
  ELSE IF consumes THEN ApplyRelease ELSE UNCHANGED <<alive, refs, flags, nlocal, base>>

\* A wake that makes the task runnable takes a reference for the runner before
\* a consumed waker gives up its own.
ApplyWake(consumes) ==
  IF Wakeable
  THEN /\ flags' = flags \cup {"SCHEDULED"}
       /\ base' = IF Has("RUNNING") THEN base ELSE "hand"
       /\ refs' = (refs + One(~Has("RUNNING"))) - One(consumes)
       /\ UNCHANGED <<alive, nlocal>>
  ELSE IF consumes THEN ApplyRelease ELSE UNCHANGED <<alive, refs, flags, nlocal, base>>

PopFifo ==
  /\ Scheduler /\ fifo # <<>>
  /\ fifo' = Tail(fifo)
  /\ LET op == Head(fifo)
     IN CASE op = "Spawn"   -> ApplySpawn
          [] op = "AddRef"  -> ApplyAddRef
          [] op = "Release" -> ApplyRelease
          [] OTHER          -> ApplyWake(op = "WakeAndRelease")
  /\ UNCHANGED <<touched, stage, std, loc, joinVars, rel, shutdown, rop, ghosts, ops>>

\* close(): the future's destructor runs with the task marked as running.
\* discard(): a finished task only gives up the run reference.
Discard(fl) ==
  IF "FINISHED" \in fl
  THEN flags' = fl \ {"SCHEDULED"} /\ base' = "idle" /\ rel' = "local"
  ELSE flags' = (fl \ {"SCHEDULED"}) \cup {"RUNNING"} /\ base' = "closing" /\ UNCHANGED rel

RunTask ==
  /\ base = "hand" /\ sd = "open"
  /\ IF Has("CLOSE") \/ Has("FINISHED")
     THEN Discard(flags) /\ UNCHANGED owed
     ELSE /\ flags' = (flags \ {"SCHEDULED"}) \cup {"RUNNING"}
          /\ base' = "poll" /\ owed' = FALSE /\ UNCHANGED rel
  /\ UNCHANGED <<alive, refs, touched, stage, queues, std, loc, joinVars, shutdown, rop,
                 leaked, drops, ops>>

\* Shutdown drops a Runnable without polling it.
DropRunnable ==
  /\ base = "hand" /\ sd = "drain"
  /\ Discard(flags)
  /\ UNCHANGED <<alive, refs, touched, stage, queues, std, loc, joinVars, shutdown, rop,
                 ghosts, ops>>

\* The owner returns from the task's poll or destructor.  A shutdown that was
\* started inside it has finished, and nothing borrows the poll's waker.
Returns(b) ==
  /\ base = b /\ rel = "none"
  /\ sd \in {"open", "down"} \/ (sd = "drain" /\ sdBase = "idle")
  /\ b = "poll" => ~Borrowed(Poll)

\* Mutant: a wake during the poll is forgotten.
PollForgetsWake ==
  /\ Returns("poll") /\ ~Has("CLOSE")
  /\ flags' = flags \ {"RUNNING"}
  /\ base' = "idle" /\ rel' = "local"
  /\ UNCHANGED <<alive, refs, touched, stage, queues, std, loc, joinVars, shutdown, rop,
                 ghosts, ops>>

PollPending ==
  /\ Returns("poll")
  /\ LET st == flags \ {"RUNNING"}
     IN IF "CLOSE" \in st
        THEN Discard(st) /\ UNCHANGED nlocal
        ELSE /\ flags' = st /\ base' = "idle"
             /\ IF "SCHEDULED" \in st
                THEN nlocal' = nlocal + 1 /\ UNCHANGED rel
                ELSE rel' = "local" /\ UNCHANGED nlocal
  /\ UNCHANGED <<alive, refs, touched, stage, fifo, std, loc, joinVars, shutdown, rop, ghosts,
                 ops>>

\* complete(): the task is finished and unlinked, the awaiter of an attached
\* join handle is woken, and the reference of the run is given up.
Complete ==
  /\ flags' = (flags \cup {"FINISHED"}) \ {"RUNNING", "SCHEDULED", "CLOSE", "LISTED"}
  /\ awaiter' = FALSE
  /\ jwoken' = (jwoken \/ (awaiter /\ ~Has("DETACHED")))
  /\ base' = "idle" /\ rel' = "local"
  /\ drops' = drops + 1

\* finish_ready: the future is dropped, and the output too if it has no owner.
PollReady ==
  /\ Returns("poll")
  /\ Complete
  /\ stage' = IF Has("DETACHED") THEN "consumed" ELSE "finished"
  /\ UNCHANGED <<alive, refs, touched, queues, std, loc, join, jpoll, shutdown, rop, leaked,
                 owed, ops>>

\* Drop for run's Guard: a panic of the poll closes the task.
PollPanics ==
  /\ Returns("poll")
  /\ flags' = flags \ {"SCHEDULED", "CLOSE"}
  /\ base' = "closing"
  /\ UNCHANGED <<alive, refs, touched, stage, queues, std, loc, joinVars, rel, shutdown, rop,
                 ghosts, ops>>

\* The destructor returns or unwinds, Finish completes the task.
CloseReturns ==
  /\ Returns("closing")
  /\ Complete
  /\ stage' = "consumed"
  /\ UNCHANGED <<alive, refs, touched, queues, std, loc, join, jpoll, shutdown, rop, leaked,
                 owed, ops>>

-----------------------------------------------------------------------------
(* RunnableQueue::shutdown, as far as this task sees it. *)

ShutdownStart ==
  /\ sd = "open" /\ rel = "none" /\ base # "hand"
  /\ sd' = "barrier" /\ sdBase' = base
  /\ UNCHANGED <<alive, counts, queues, std, loc, joinVars, ownerVars, rop, ghosts, ops>>

ShutdownBarrier ==
  /\ sd = "barrier" /\ \A r \in Remotes : rop[r] = NoOp
  /\ sd' = "drain"
  /\ UNCHANGED <<alive, counts, queues, std, loc, joinVars, ownerVars, sdBase, rop, ghosts,
                 ops>>

DrainIdle == sd = "drain" /\ base = sdBase /\ rel = "none" /\ fifo = <<>> /\ nlocal = 0

\* TaskList::close_first
CloseFirst ==
  /\ DrainIdle /\ Has("LISTED")
  /\ IF Has("RUNNING")
     THEN /\ flags' = (flags \cup {"CLOSE"}) \ {"LISTED"}
          /\ UNCHANGED <<refs, base>>
     ELSE /\ flags' = flags \cup {"RUNNING"}
          /\ refs' = refs + 1 /\ base' = "closing"
  /\ UNCHANGED <<alive, touched, stage, queues, std, loc, joinVars, rel, shutdown, rop, ghosts,
                 ops>>

\* The guard of wake::unregister is dropped: the queue may be freed.
ShutdownDone ==
  /\ DrainIdle /\ ~Has("LISTED")
  /\ sd' = "down"
  /\ UNCHANGED <<alive, counts, queues, std, loc, joinVars, ownerVars, sdBase, rop, ghosts,
                 ops>>

-----------------------------------------------------------------------------
Sources == Threads \cup {Poll}

RemoteStep(r) == RemoteTouch(r) \/ RemotePush(r)

RemoteUse(r) ==
  \/ \E op \in {"AddRef", "Wake"}, src \in Sources : RemoteBorrowOp(r, op, src)
  \/ \E op \in {"Release", "WakeAndRelease"} : RemoteConsumeOp(r, op)
  \/ RemoteLateDrop(r)

OwnerUse ==
  \/ \E src \in {Owner, Poll} : OwnerClone(src) \/ OwnerWakeByRef(src) \/ LocalClone(src)
  \/ OwnerWake \/ OwnerDropWaker \/ LocalDrop \/ LocalWakeByRef \/ LocalWake
  \/ LocalIntoWaker
  \/ JoinPoll \/ JoinSetCancel \/ JoinDrop

OwnerStep ==
  \/ ReleaseLocal \/ ReleaseTouched \/ PopLocal \/ PopFifo \/ RunTask \/ DropRunnable
  \/ PollPending \/ PollReady \/ PollPanics \/ CloseReturns \/ JoinStore \/ JoinCheck
  \/ ShutdownBarrier \/ CloseFirst \/ ShutdownDone

Next ==
  \/ \E r \in Remotes : RemoteStep(r) \/ RemoteUse(r)
  \/ \E t, u \in Threads : MoveWaker(t, u)
  \/ OwnerUse \/ OwnerStep \/ ShutdownStart

\* Every thread that is inside one of these procedures goes on; a poll and a
\* destructor return.  Nothing forces user code to start another operation.
Fairness ==
  /\ \A r \in Remotes : WF_vars(RemoteStep(r))
  /\ WF_vars(OwnerStep)

Spec == Init /\ [][Next]_vars /\ Fairness

-----------------------------------------------------------------------------
(* Properties. *)

\* Every variable keeps its type: the state word of a task, its stage, the queue it
\* is on, and the reference counts, which never go below zero (Header, State).
TypeOK ==
  /\ alive \in BOOLEAN /\ refs \in Nat /\ flags \subseteq Flags /\ touched \in BOOLEAN
  /\ stage \in {"running", "finished", "consumed"}
  /\ nlocal \in Nat /\ fifo \in Seq(Ops)
  /\ std \in [Threads -> 0..MaxHeld] /\ loc \in 0..MaxHeld
  /\ join \in BOOLEAN /\ jpoll \in {"no", "cloning", "stored", "pending"}
  /\ awaiter \in BOOLEAN /\ jwoken \in BOOLEAN
  /\ base \in {"idle", "hand", "poll", "closing"}
  /\ rel \in {"none", "local", "clear", "pending"}
  /\ sd \in {"open", "barrier", "drain", "down"} /\ sdBase \in {"idle", "poll", "closing"}
  /\ rop \in [Remotes -> [op : Ops \cup {"none"}, src : Sources,
                          at : {"idle", "admitted", "touched"}]]
  /\ leaked \in Nat /\ owed \in BOOLEAN /\ drops \in Nat /\ ops \in 0..MaxOps

Occurs(op) == Cardinality({i \in 1..Len(fifo) : fifo[i] = op})

\* The standard wakers, numbered for each thread that holds them.
StdWakers == {w \in Threads \X (1..MaxHeld) : w[2] <= std[w[1]]}

\* Every reference that exists: wakers of all threads, local wakers, the join
\* handle, the run queue's, the runner's, one being released, a submission.
Holders ==
  Cardinality(StdWakers) + loc + leaked + nlocal
    + One(join) + One(base # "idle") + One(rel # "none") + Occurs("Spawn")

\* The owner's count lags behind the references by exactly the commands that
\* wait in the FIFO (WakeEntry::into_runnable, clone_waker, drop_waker).
RefsAccount ==
  alive => refs + Occurs("AddRef")
             = Holders + Occurs("Release") + Occurs("WakeAndRelease")

\* The allocation outlives every way to reach it: wakers on any thread, inert
\* ones after shutdown included, remote operations in progress, queue links,
\* commands, the runner and a release under way.  The future is dropped once, by
\* its runner or by shutdown, never by the release of the allocation, and the
\* output is gone before the allocation is.
NoUseAfterFree ==
  /\ Holders > 0 \/ fifo # <<>> \/ (\E r \in Remotes : rop[r] # NoOp) => alive
  /\ drops = One(Has("FINISHED"))
  /\ Has("FINISHED") <=> stage # "running"
  /\ ~alive => stage = "consumed"

\* A wake is never lost: until the next poll starts, an issued wake is a
\* command, a link in the local queue, or a note for the runner, unless the
\* future is gone or the runtime shuts down.  A pending join hears of the end of
\* its task: poll_join's second look closes the window in which its own callbacks
\* complete the task.
NoLostWake ==
  /\ owed /\ sd = "open" =>
       \/ Has("FINISHED") \/ base = "closing"
       \/ nlocal > 0 \/ base = "hand"
       \/ (Has("SCHEDULED") /\ Has("RUNNING"))
       \/ \E i \in 1..Len(fifo) : fifo[i] \in {"Spawn", "Wake", "WakeAndRelease"}
  /\ join /\ jpoll = "pending" /\ Has("FINISHED") => jwoken

\* While the runtime runs, a finished task nobody refers to is freed: deferred
\* releases do not leak storage.
EventuallyFreed ==
  (\A t \in Threads : std[t] = 0) /\ loc = 0 /\ ~join /\ leaked = 0 /\ Has("FINISHED")
    ~> ~alive \/ sd # "open" \/ \E t \in Threads : std[t] > 0
=============================================================================
