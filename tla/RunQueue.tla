------------------------------ MODULE RunQueue ------------------------------
(***************************************************************************)
(* The run queue of a native ("neon") runtime and the driver loop around   *)
(* it: ntex-rt/src/rt/queue.rs, Runtime::poll / block_on / drop in         *)
(* ntex-rt/src/rt/mod.rs and the reactor loop of ntex-net.                 *)
(*                                                                         *)
(* One thread, the owner, runs tasks.  Other threads publish commands      *)
(* (submissions, wakes, reference operations) into a FIFO in five separate *)
(* atomic steps: reserve admission, push, release admission, claim the     *)
(* notification, notify the driver.  What a command does to its task is    *)
(* module TaskRefs; here a command either yields a runnable or does not.   *)
(***************************************************************************)
EXTENDS Naturals, Sequences, FiniteSets

CONSTANTS
  Producers,      \* threads other than the owner that publish commands
  QueueOwner,     \* the runtime thread
  EventInterval,  \* RuntimeBuilder::event_interval, local budget of a poll
  RemoteBatch,    \* REMOTE_BATCH
  MaxCmds,        \* bound: commands each thread publishes
  MaxWakes,       \* bound: local runnables scheduled by user code
  MaxRuns         \* bound: calls of Runtime::block_on

ASSUME RunQueueAssumption ==
  /\ IsFiniteSet(Producers) /\ QueueOwner \notin Producers
  /\ EventInterval \in Nat \ {0}
  /\ RemoteBatch \in Nat
  /\ MaxCmds \in Nat /\ MaxWakes \in Nat /\ MaxRuns \in Nat \ {0}

Publishers == Producers \cup {QueueOwner}

VARIABLES
  closed,    \* CLOSED bit of `admission`
  inflight,  \* the count in the remaining bits of `admission`
  notified,  \* `notified`, coalesces driver notifications
  wakeQueue, \* `wake_queue`, the publishing threads in FIFO order
  local,     \* number of runnables in `local_queue`
  idle,      \* `idle`
  current,   \* `current` is not null: a task is being run
  stop,      \* Runtime::stop
  token,     \* the driver holds a notification it has not consumed
  opc,       \* where the owner thread is
  blocking,  \* the driver waits without a timeout (PollResult::Pending)
  budget,    \* what is left of the current batch
  ppc,       \* where each producer is in its publication
  sent,      \* commands each thread has pushed
  done,      \* commands of each thread the owner has consumed
  wakes,     \* local runnables scheduled so far
  runs       \* calls of block_on so far

admission == <<closed, inflight>>
queueVars == <<notified, wakeQueue, local, idle, current>>
driver    == <<stop, token, opc, blocking, budget>>
bounds    == <<wakes, runs>>
rqVars == <<admission, queueVars, driver, ppc, sent, done, bounds>>

\* Places of the owner thread: in Runtime::poll, in the driver, outside
\* block_on, and in RunnableQueue::shutdown.
PollPlaces     == {"poll", "clear", "local", "check", "remote", "final"}
DriverPlaces   == {"tick", "wait", "events"}
ShutdownPlaces == {"barrier", "drain", "down"}
OwnerPlaces    == PollPlaces \cup DriverPlaces \cup {"exited"} \cup ShutdownPlaces

ProducerPlaces == {"idle", "admitted", "pushed", "released", "notify"}

\* RunnableQueue::new, then the first block_on has spawned its root task:
\* schedule_local found the queue idle, started a busy period and notified.
QueueInit ==
  /\ closed = FALSE /\ inflight = 0
  /\ notified = FALSE /\ wakeQueue = <<>> /\ local = 1
  /\ idle = FALSE /\ current = FALSE
  /\ stop = FALSE /\ token = TRUE
  /\ opc = "poll" /\ blocking = FALSE /\ budget = 0
  /\ ppc = [p \in Producers |-> "idle"]
  /\ sent = [t \in Publishers |-> 0] /\ done = [t \in Publishers |-> 0]
  /\ wakes = 0 /\ runs = 1

-----------------------------------------------------------------------------
(* Producers: RunnableQueue::admit, RemotePermit::publish and published. *)

At(p, from, to) == ppc[p] = from /\ ppc' = [ppc EXCEPT ![p] = to]

\* Mutant: the closed bit is not tested.
AdmitWhenClosed(p) ==
  /\ At(p, "idle", "admitted")
  /\ sent[p] < MaxCmds
  /\ inflight' = inflight + 1
  /\ UNCHANGED <<closed, queueVars, driver, sent, done, bounds>>

\* The compare-exchange loop of admit(); a closed queue returns None.
Admit(p) ==
  /\ At(p, "idle", "admitted")
  /\ sent[p] < MaxCmds
  /\ ~closed
  /\ inflight' = inflight + 1
  /\ UNCHANGED <<closed, queueVars, driver, sent, done, bounds>>

Push(p) ==
  /\ At(p, "admitted", "pushed")
  /\ wakeQueue' = Append(wakeQueue, p)
  /\ sent' = [sent EXCEPT ![p] = @ + 1]
  /\ UNCHANGED <<admission, notified, local, idle, current, driver, done, bounds>>

Release(p) ==
  /\ At(p, "pushed", "released")
  /\ inflight' = inflight - 1
  /\ UNCHANGED <<closed, queueVars, driver, sent, done, bounds>>

\* notified.swap(true): only the producer that sets it notifies the driver.
Claim(p) ==
  /\ At(p, "released", IF notified THEN "idle" ELSE "notify")
  /\ notified' = TRUE
  /\ UNCHANGED <<admission, wakeQueue, local, idle, current, driver, sent, done, bounds>>

\* Mutant: an interrupted notification is not retried.
NotifyInterrupted(p) ==
  /\ At(p, "notify", "idle")
  /\ UNCHANGED <<admission, queueVars, driver, sent, done, bounds>>

Notify(p) ==
  /\ At(p, "notify", "idle")
  /\ token' = TRUE
  /\ UNCHANGED <<admission, queueVars, stop, opc, blocking, budget, sent, done, bounds>>

-----------------------------------------------------------------------------
(* What code on the owner thread can do to the queue while a task runs or  *)
(* is dropped, and from the driver's event handlers.                       *)

InUserCode == current \/ opc \in {"tick", "events", "drain"}

\* An idle queue becomes busy, and the driver is notified unless a task runs.
StartBusy ==
  /\ idle' = FALSE
  /\ token' = (token \/ (idle /\ ~current))

\* RunnableQueue::schedule_local
ScheduleLocal ==
  /\ InUserCode /\ wakes < MaxWakes
  /\ wakes' = wakes + 1
  /\ local' = local + 1
  /\ StartBusy
  /\ UNCHANGED <<admission, notified, wakeQueue, current, stop, opc, blocking, budget,
                 ppc, sent, done, runs>>

\* The end of task::release_touched and RunnableQueue::owner_entry: a release
\* by the owner goes through the FIFO.  A busy open queue is not notified; a
\* closed and drained one applies the release at once.
OwnerRelease ==
  /\ InUserCode /\ sent[QueueOwner] < MaxCmds
  /\ sent' = [sent EXCEPT ![QueueOwner] = @ + 1]
  /\ IF closed /\ inflight = 0 /\ wakeQueue = <<>>
     THEN /\ done' = [done EXCEPT ![QueueOwner] = @ + 1]
          /\ UNCHANGED <<wakeQueue, idle, token>>
     ELSE /\ wakeQueue' = Append(wakeQueue, QueueOwner)
          /\ IF idle /\ ~closed THEN StartBusy ELSE UNCHANGED <<idle, token>>
          /\ UNCHANGED done
  /\ UNCHANGED <<admission, notified, local, current, stop, opc, blocking, budget,
                 ppc, bounds>>

\* The root future of block_on completes: stop is set and the driver notified.
RootReady ==
  /\ current /\ opc \in {"local", "remote"} /\ ~stop
  /\ stop' = TRUE /\ token' = TRUE
  /\ UNCHANGED <<admission, queueVars, opc, blocking, budget, ppc, sent, done, bounds>>

-----------------------------------------------------------------------------
(* Runtime::poll and RunnableQueue::run. *)

Goto(from, to) == opc = from /\ opc' = to

PollStart ==
  /\ \/ Goto("poll", "clear") /\ ~stop /\ UNCHANGED idle
     \/ Goto("poll", "exited") /\ stop /\ idle' = TRUE
  /\ UNCHANGED <<admission, notified, wakeQueue, local, current, stop, token, blocking,
                 budget, ppc, sent, done, bounds>>

\* The relaxed load before the swap may still miss a notification whose
\* producer has not reached the driver, or that the driver has not consumed.
MayMissNotified == token \/ \E p \in Producers : ppc[p] = "notify"

ClearNotified ==
  /\ Goto("clear", "local")
  /\ \/ notified' = FALSE
     \/ notified /\ MayMissNotified /\ UNCHANGED notified
  /\ budget' = EventInterval
  /\ UNCHANGED <<admission, wakeQueue, local, idle, current, stop, token, blocking,
                 ppc, sent, done, bounds>>

RunLocal ==
  /\ opc = "local" /\ ~current /\ budget > 0 /\ local > 0
  /\ local' = local - 1 /\ budget' = budget - 1
  /\ current' = TRUE
  /\ UNCHANGED <<admission, notified, wakeQueue, idle, stop, token, opc, blocking, ppc,
                 sent, done, bounds>>

\* run_task returns and restores `current`.
TaskReturns ==
  /\ current
  /\ current' = FALSE
  /\ UNCHANGED <<admission, notified, wakeQueue, local, idle, driver, ppc, sent, done, bounds>>

LocalDone ==
  /\ Goto("local", "check") /\ ~current /\ (budget = 0 \/ local = 0)
  /\ UNCHANGED <<admission, queueVars, stop, token, blocking, budget, ppc, sent, done,
                 bounds>>

CheckRemote ==
  /\ opc = "check"
  /\ opc' = IF wakeQueue = <<>> THEN "final" ELSE "remote"
  /\ budget' = IF wakeQueue = <<>> THEN budget ELSE EventInterval + RemoteBatch
  /\ UNCHANGED <<admission, queueVars, stop, token, blocking, ppc, sent, done, bounds>>

Consume ==
  /\ wakeQueue # <<>>
  /\ wakeQueue' = Tail(wakeQueue)
  /\ done' = [done EXCEPT ![Head(wakeQueue)] = @ + 1]

\* WakeEntry::into_runnable: a command that yields a runnable runs it.
RunRemote ==
  /\ opc = "remote" /\ ~current /\ budget > 0
  /\ Consume
  /\ budget' = budget - 1
  /\ current' \in BOOLEAN
  /\ UNCHANGED <<admission, notified, local, idle, stop, token, opc, blocking, ppc,
                 sent, bounds>>

\* The last reference of an unfinished task: last_ref queues it for closing.
RunRemoteOrphan ==
  /\ opc = "remote" /\ ~current /\ budget > 0 /\ wakes < MaxWakes
  /\ Consume
  /\ budget' = budget - 1
  /\ wakes' = wakes + 1
  /\ local' = local + 1
  /\ StartBusy
  /\ UNCHANGED <<admission, notified, current, stop, opc, blocking, ppc, sent, runs>>

RemoteDone ==
  /\ Goto("remote", "final") /\ ~current /\ (budget = 0 \/ wakeQueue = <<>>)
  /\ UNCHANGED <<admission, queueVars, stop, token, blocking, budget, ppc, sent, done,
                 bounds>>

\* Mutant: the final check looks at the local queue only.
FinalCheckLocal ==
  /\ Goto("final", "tick")
  /\ blocking' = (local = 0)
  /\ idle' = (idle \/ local = 0)
  /\ UNCHANGED <<admission, notified, wakeQueue, local, current, stop, token, budget, ppc,
                 sent, done, bounds>>

\* more_tasks decides between PollAgain and Pending; Pending makes it idle.
FinalCheck ==
  /\ Goto("final", "tick")
  /\ LET more == local > 0 \/ wakeQueue # <<>>
     IN /\ blocking' = ~more
        /\ idle' = (idle \/ ~more)
  /\ UNCHANGED <<admission, notified, wakeQueue, local, current, stop, token, budget, ppc,
                 sent, done, bounds>>

-----------------------------------------------------------------------------
(* The driver loop: Reactor::run. *)

TickDone ==
  /\ Goto("tick", "wait")
  /\ UNCHANGED <<admission, queueVars, stop, token, blocking, budget, ppc, sent, done,
                 bounds>>

\* poll.wait returns and the driver calls Runtime::awake.
Wake ==
  /\ Goto("wait", "events")
  /\ token' = FALSE
  /\ idle' = FALSE
  /\ UNCHANGED <<admission, notified, wakeQueue, local, current, stop, blocking, budget,
                 ppc, sent, done, bounds>>

WaitReturns == (token \/ ~blocking) /\ Wake

\* An I/O event ends a wait that no notification ends.
IoEvent == ~token /\ blocking /\ Wake

EventsDone ==
  /\ Goto("events", "poll")
  /\ UNCHANGED <<admission, queueVars, stop, token, blocking, budget, ppc, sent, done,
                 bounds>>

-----------------------------------------------------------------------------
(* Outside block_on: another block_on, or the drop of the runtime. *)

BlockOn ==
  /\ Goto("exited", "poll") /\ runs < MaxRuns
  /\ runs' = runs + 1
  /\ stop' = FALSE
  /\ local' = local + 1
  /\ StartBusy
  /\ UNCHANGED <<admission, notified, wakeQueue, current, blocking, budget, ppc, sent, done,
                 wakes>>

\* RunnableQueue::shutdown: admission.fetch_or(CLOSED)
Close ==
  /\ Goto("exited", "barrier")
  /\ closed' = TRUE
  /\ UNCHANGED <<inflight, queueVars, stop, token, blocking, budget, ppc, sent, done,
                 bounds>>

\* The spin until no admitted publication is in flight.
Barrier ==
  /\ Goto("barrier", "drain") /\ inflight = 0
  /\ UNCHANGED <<admission, queueVars, stop, token, blocking, budget, ppc, sent, done,
                 bounds>>

\* RunnableQueue::clear: commands first, then local runnables.
DrainFifo ==
  /\ opc = "drain"
  /\ Consume
  /\ UNCHANGED <<admission, notified, local, idle, current, driver, ppc, sent, bounds>>

DrainLocal ==
  /\ opc = "drain" /\ wakeQueue = <<>> /\ local > 0
  /\ local' = local - 1
  /\ UNCHANGED <<admission, notified, wakeQueue, idle, current, driver, ppc, sent, done,
                 bounds>>

DrainDone ==
  /\ Goto("drain", "down") /\ wakeQueue = <<>> /\ local = 0
  /\ UNCHANGED <<admission, queueVars, stop, token, blocking, budget, ppc, sent, done,
                 bounds>>

\* Nothing is left to do: the runtime is gone and no producer is publishing.
Terminated ==
  /\ opc = "down" /\ \A p \in Producers : ppc[p] = "idle"
  /\ UNCHANGED rqVars

-----------------------------------------------------------------------------
Produce(p) == Admit(p) \/ Push(p) \/ Release(p) \/ Claim(p) \/ Notify(p)

QueueUserCode == ScheduleLocal \/ OwnerRelease \/ RootReady

PollStep ==
  \/ PollStart \/ ClearNotified \/ RunLocal \/ TaskReturns \/ LocalDone
  \/ CheckRemote \/ RunRemote \/ RunRemoteOrphan \/ RemoteDone \/ FinalCheck

DriverStep == TickDone \/ WaitReturns \/ EventsDone

ShutdownStep == Barrier \/ DrainFifo \/ DrainLocal \/ DrainDone

QueueNext ==
  \/ \E p \in Producers : Produce(p)
  \/ QueueUserCode \/ PollStep \/ DriverStep \/ IoEvent
  \/ BlockOn \/ Close \/ ShutdownStep
  \/ Terminated

\* A thread that is running is scheduled by the operating system, a poll of a
\* task returns, and a driver whose wait may return does return.  Nothing makes
\* an I/O event arrive, user code act, or the program drop its runtime.
QueueFairness ==
  /\ \A p \in Producers : WF_rqVars(Push(p) \/ Release(p) \/ Claim(p) \/ Notify(p))
  /\ WF_rqVars(PollStep) /\ WF_rqVars(TaskReturns)
  /\ WF_rqVars(DriverStep) /\ WF_rqVars(ShutdownStep)

QueueSpec == QueueInit /\ [][QueueNext]_rqVars /\ QueueFairness

-----------------------------------------------------------------------------
(* Properties. *)

\* Every variable keeps its type; the admission word, the queue and the program
\* counters only take values the code can hold in them.
QueueTypeOK ==
  /\ closed \in BOOLEAN /\ inflight \in Nat
  /\ notified \in BOOLEAN /\ wakeQueue \in Seq(Publishers) /\ local \in Nat
  /\ idle \in BOOLEAN /\ current \in BOOLEAN
  /\ stop \in BOOLEAN /\ token \in BOOLEAN
  /\ opc \in OwnerPlaces /\ blocking \in BOOLEAN /\ budget \in Nat
  /\ ppc \in [Producers -> ProducerPlaces]
  /\ sent \in [Publishers -> Nat] /\ done \in [Publishers -> Nat]
  /\ wakes \in Nat /\ runs \in Nat

\* A producer that has pushed a command and may still have to notify.
WillNotify == \E p \in Producers : ppc[p] \in {"pushed", "released", "notify"}

\* The driver never sleeps over queued work (RunnableQueue::run's final check
\* against RemotePermit::published and schedule_local): when it is about to
\* wait, or waits, without a timeout while a command or a runnable is queued,
\* a notification is pending or a producer is still on its way to send one.
NoLostWakeup ==
  opc = "wait" /\ blocking /\ (wakeQueue # <<>> \/ local > 0) => token \/ WillNotify

\* A producer that lost the race for `notified` may stay silent: whenever
\* `notified` is set while the driver sleeps, a wakeup is on its way.
CoalescingIsSafe ==
  opc = "wait" /\ notified => token \/ \E p \in Producers : ppc[p] = "notify"

\* Shutdown's barrier works: once draining has begun no producer holds a
\* permit, so no remote command is pushed behind the owner's back.
NoPublicationAfterBarrier ==
  opc \in {"drain", "down"} => \A p \in Producers : ppc[p] \notin {"admitted", "pushed"}

\* A dropped runtime leaves nothing behind: its queues are empty and every
\* command that was ever admitted, remote or by the owner, has been consumed.
DrainedWhenDown ==
  opc = "down" => wakeQueue = <<>> /\ local = 0 /\ sent = done

\* The parts of the inductive invariant behind the three invariants above.

\* The count in `admission` is the number of permits that are alive.
Admitted == {p \in Producers : ppc[p] \in {"admitted", "pushed"}}
AdmissionCount == inflight = Cardinality(Admitted)

\* `current` is set only around a task's run, and the CLOSED bit only from
\* shutdown on.
RunsInPoll   == current => opc \in {"local", "remote"}
ClosedPlaces == closed <=> opc \in ShutdownPlaces

\* Whoever set `notified` has notified, will notify, or the owner is up and
\* will clear it before it sleeps again.
NotifiedOwned ==
  notified => \/ token \/ \E p \in Producers : ppc[p] = "notify"
              \/ opc \in {"events", "poll", "clear", "exited"} \cup ShutdownPlaces

\* From the decision to sleep to the end of the wait.
Parked == opc \in {"tick", "wait"} /\ blocking
ParkedIdle   == Parked => idle \/ token
ParkedRemote == Parked /\ wakeQueue # <<>> => token \/ WillNotify
ParkedLocal  == Parked /\ local > 0 => token

WakeupInv ==
  RunsInPoll /\ ClosedPlaces /\ NotifiedOwned /\ ParkedIdle /\ ParkedRemote /\ ParkedLocal

\* Past the barrier no permit is alive, and the drained queues stay empty.
Quiesced == opc \in {"drain", "down"} => Admitted = {}
StaysDrained == opc = "down" => wakeQueue = <<>> /\ local = 0

\* Each thread's commands are consumed or still in the FIFO.
Waiting(t) == {i \in 1..Len(wakeQueue) : wakeQueue[i] = t}
Conservation == \A t \in Publishers : sent[t] = done[t] + Cardinality(Waiting(t))

\* The queue seen by its senders: where the owner is, the permits whose command
\* is not pushed yet, the FIFO and what has been consumed.
OwnerPhase ==
  CASE opc = "exited" -> "away"
    [] opc \in {"barrier", "drain"} -> "closing"
    [] opc = "down" -> "gone"
    [] OTHER -> "serving"
Box == INSTANCE Mailbox WITH
  Senders <- Producers, Owner <- QueueOwner, phase <- OwnerPhase,
  accepted <- {p \in Producers : ppc[p] = "admitted"}, box <- wakeQueue, taken <- done

\* The five-step publication with its coalesced notification, the budgets, the
\* sleep of the driver and the shutdown barrier implement a plain FIFO mailbox:
\* no command is dropped, overtaken or consumed twice, and each one accepted is
\* consumed, unless the program leaves block_on and never drives or drops the
\* runtime again.
ImplementsMailbox == Box!Spec

=============================================================================
