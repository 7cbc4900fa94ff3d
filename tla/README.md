# A verification of ntex in TLA+

[ntex](../src/README.md) is a framework for network services in Rust. This
directory holds TLA+ models of its concurrent core, the TLC configurations that
check them on small instances, an abstract specification that one of them is
shown to implement, and TLAPS proofs about twelve of them. It is kept
beside the code: `PROJECT.json` maps every definition to the lines it models.

1. [The system](#the-system)
2. [Modules and their correspondence to the code](#modules-and-their-correspondence-to-the-code)
3. [Runs, bounds and fairness](#runs-bounds-and-fairness)
4. [What the checks found](#what-the-checks-found)
5. [Proofs](#proofs)
6. [What is not modelled](#what-is-not-modelled)
7. [Plan](#plan)

## The system

A program starts a *system*: one thread per *arbiter*, each with a runtime. A
runtime of the native kind runs a queue of tasks and a driver (polling, io_uring
or IOCP); the others hand the scheduling to tokio or compio. Almost everything
else is confined to its thread: timers, connections, services and dispatchers
are plain cells and wakers. Only few places are shared between threads: the
queue of commands of a runtime, the jobs submitted to an arbiter, the pool of
blocking threads, and the channels of the server between its accept thread,
its manager and its workers.

| Component | State | Operations | Interacts with | What is hard | What makes it correct |
|---|---|---|---|---|---|
| Run queue (`ntex-rt/src/rt/queue.rs`, `mod.rs`) | admission word, `notified`, FIFO of commands, local queue | reserve, push, release, notify; batches of `run()`; `shutdown()` | driver (notification, wait), tasks | publication is five atomic steps of any thread against an owner about to sleep or to shut down | no command is slept over; nothing arrives after the barrier; shutdown ends and leaves nothing |
| Tasks and wakers (`rt/task.rs`, `rt/wake.rs`) | state word, owner-only count, stage, join waker | poll, wake, clone and drop on any thread, join, close | run queue (commands) | reference changes of other threads are messages that lag behind the references | storage is freed once, after its last use; a wake during a poll is not lost; the future is dropped once |
| Blocking pool (`pool.rs`) | counter of slots, queue, workers | `execute()`, worker loop, result future | threads that block | a worker expires while a submission counts on it; no thread can be created | limit; no closure is stranded; every caller learns what became of its closure |
| Remote jobs and spawner (`remote.rs`) | three bits, two wakers, a stage cell; admission, notification, queue | poll, cancel, join, detach; submit, drain, close | arbiters | lock-free hand-over of a result; a close against submissions | exclusive use of the cell; no lost job, cancel or result |
| Timer wheel (`ntex-util/src/time/wheel.rs`) | buckets of eight levels, clock, deadline, driver task | arm, reset, poll, drop, drive, stop and start | reactor (sleep), tasks | rounding, a clock that lags, a runtime replaced on its thread | never early, never forgotten, one driver |
| Callback timers (`callbacks.rs`) | slab of arms and tickets | arm, reset, cancel, drop, deliver | wheel, user callbacks | callbacks change the timers of the batch that is being delivered | each arm that expires is delivered, none that was replaced |
| Readiness scopes (`ntex-service/src/readiness.rs`) | generation, cached result, shared check, observers | check, invalidate, cancel | services, pipelines | a dependency changes during the check; the owner of the check is dropped | a cached success is not stale; nobody sleeps through a change |
| Connection (`ntex-io`) | phase, manner, pauses, backpressure, buffers, wakers | read, write, flush, notify, pause, shutdown, close, drop | transport task, filters, dispatcher | three writers, two reasons to pause, two shutdown phases, all reentrant | data is scheduled and not truncated; readers are served; a close ends; the phase moves forward |
| Polling stream (`ntex-net/src/polling`) | interest and stream flags | event, poll, iops, detach | reactor, connection | interest that outlives its cause | no spinning, no missed readiness |
| Dispatcher (`ntex-dispatcher`) | state machine, timers, in-flight calls, stop call | poll in turns, timers, calls of their own task, stop, background stop | connection, service | a timer and input in one poll; errors of other tasks; hand-over of the stop | sleeps only with nothing to do; keep-alive ends idle connections; the service is shut down after its last call; a stop ends |
| Server (`ntex-server`) | workers with queues and status; manager with router, backlog and commands; accept loop with listeners and a backlog of its own | accept, submit, route, take back, pause, resume, restart, stop | arbiters, services | an item passes two threads and four queues while the worker it is meant for stalls, fails or stops | an accepted connection is in one place and comes to an end; a ready server listens; a stop completes |
| Service composition (`ntex-service`), utility services and channels (`ntex-util`) | waiters, counters, queues, wakers | call, ready, shutdown; send, receive, close | readiness, dispatcher | order of readiness and calls, drop of a half | bounded in-flight calls; no lost wake |
| HTTP/1 server (`ntex/src/http/h1`) | state machine, disconnect message, payload and its pending error, one transport timer for six purposes | read a head, ask the control service, call, feed the payload, send the response, upgrade, stop | connection, application and control services | payload, control call, timers and the peer's end cross each other in one poll | framing of responses; a payload ends regularly only if it is whole; no payload is read as a head; timers end what they were started for; every connection ends |
| HTTP client pool (`ntex/src/client/pool.rs`) | idle, shared and opening connections, queues of waiters, a count in use | acquire, open, share, release, give up, stop | connector, HTTP/1 and HTTP/2 exchanges | the caller goes away at any time; connections appear, close and fill up while others wait | nobody waits for what is there; every call is answered; limits |
| HTTP/2, websockets, web (`ntex`) | protocol state per connection | decode, dispatch, encode | dispatcher or connection | an external state machine; close handshakes | messages in order |
| TLS filters, bytes, codec, router, urly, http types, macros, errors | data | conversion | all | unsafe memory code, third-party state machines | values |

The hazards of this code, each at its line, are listed under `hazards` in
`PROJECT.json` with the properties that cover them.

## Modules and their correspondence to the code

Control is kept: every guard, early return and order of effects. Data is
abstracted: bytes are counted, frames have no contents, errors have the kinds
that decisions distinguish.

**RunQueue** models `rt/queue.rs`, `Runtime::poll`, `block_on` and `drop` and the
loop of the polling reactor. `opc` is the place of the owner thread in poll,
driver loop and shutdown, `ppc[p]` that of each producer in its five steps. The
atomic word `admission` is `closed` and `inflight`; the intrusive local queue is a
number; the driver's notification is a token. A command either makes its task
runnable or not; that is a choice here and the subject of TaskRefs. Code of a
task may wake, publish, and stop the runtime.

**TaskRefs** models one task of `rt/task.rs` and `rt/wake.rs`: the count and the
flags that only the owner writes, the marks and commands of the other threads,
the wakers on every thread, polls, completion, the join handle and shutdown. A
release by the owner is two steps (it looks for pending commands, then acts).
Polling or dropping the runtime from inside the task is allowed.

**Mailbox** is what the run queue promises, without notifications, budgets, idleness
or driver: a mailbox that accepts, keeps order, is served, and drains before it
is gone. RunQueue implements it under the mapping `Box`: a producer that holds a
permit and has not pushed is an accepted sender, `OwnerPhase` folds the places of the
owner into serving, away, closing and gone, and the FIFO is the box.

**BlockingPool** models `pool.rs`: one submission per closure, worker
threads with the places of `worker()`, and the result future with its detached
flag. Thread creation may fail; the pool may be dropped.

**RemoteJob** and **Spawner** model the two halves of `remote.rs`: a job with its
runner and its handle, and the queue with its drain task. Every access to a
shared bit or waker is a step. **Remote** composes them: the drain starts the
tracked job's runner, a closed queue closes it, and both tasks share their thread.
`MCThreads` checks BlockingPool and Remote side by side, one of them in each behaviour.

**WheelLevels** is the arithmetic of the wheel (placement, next occupied bucket,
due buckets) as operators on numbers. **TimerWheel** adds the timers, the deadline,
and the driver task with one instance per generation of the thread's runtime;
**CallbackTimers** adds the slab of callbacks and the delivery loop, with
callbacks that do anything their API allows. `MCTimerWheel` holds the symmetry.

**Readiness** models `readiness.rs`: a graph of scopes, tasks with a stack of nested
checks, and polls that go through the frames of that stack while conditions
change under them.

**ClientPool** models `client/pool.rs` and the hand-back of connections in
`connection.rs`, `h1proto.rs` and `h2proto.rs`. `pc[c]` is where the future of a call is,
`has[c]` the connection that it has or that lies in its channel, `opening` the
tasks of `open_connection()`; the others are the fields of `Inner` and `Waiters`. A poll of
the support task is several steps (`scan`, the hosts it has still to look at) with
nothing in between. `Acquire(k)` is the set of outcomes of `Inner::acquire()`: idle
HTTP/1 connections have no identity, so that whether one is expired, closed or
has input is decided when it is looked at; HTTP/2 connections have one, with their
streams and a peer that may refuse or close. `LocalServices` puts Readiness,
CallbackTimers and ClientPool side by side, one of them in each behaviour; `MCLocal` holds the instances.

**IoState** has the functions of `flags.rs`, `io/state.rs`, `filter.rs` and the result
handlers of `ctx.rs` as operators from a connection to a connection, because on
one thread they call each other to the end. **IoConn** makes actions of what a
thread does in one go: a poll of the transport task, an event, a run of
scheduled writes, a call or a poll of the application; with the socket and its
peer as environment. The application takes input by `Decode` (`decode()`,
`decode_item()`), which always clears read readiness, or by `WithReadDst`, which clears it only with the
backpressure; either may take a part or nothing.

**Dispatcher** models `ntex-dispatcher`. A poll is a sequence of steps, one per
turn of its loop (`pc`), with no other task in between; `st` is the code's
`DispatcherState`, `tm` the timers, `slot` the call polled in place, `det` the calls
with tasks of their own, `stopc` and `bg` the stop call and the background task.
The transport is reduced to what the dispatcher reads of it, with one waker.

**ServerWorkers** models `wrk.rs`: the runs of a worker (a failed worker is started
again under its name), each with its queue, status, pending stop and current call.
**ServerManager** adds `manager.rs` and `server.rs`: the command loop, the router that the
accept thread also uses, the backlog, a monitor per worker that reports its
changes, restarts it and takes items back, the stop and the stop procedure of
stop-on-panic. A rescheduling of blocked workers is a sequence of steps that hold the
router's lock (`Locked`): it samples who is blocked, takes their items one at a time while the
workers go on receiving, and moves each to a worker that is not blocked or to the backlog. **Server** adds `net/accept.rs`: listeners with interest, error timeouts and
their timers, backpressure, the accept backlog, and commands behind a
notification. `Scenarios` (in `MCServer`) says which kinds of trouble a behaviour has.

**Http1Timers** has the functions of `h1/timer.rs` on a connection; **Http1** the
dispatcher of `h1/dispatcher.rs` with `control.rs`, `payload.rs` and the part of the
codec that decides what comes next. A poll is a sequence of steps of one loop (`pc`), as
in Dispatcher. The peer sends the tokens of a script: heads by kind, parts of heads,
payload data and ends, bad bytes; then it closes its half, goes, or stays
silent. A head may ask for a continuation, an upgrade, or both, in that order. `rx` is the
payload stream (`bstream.rs`): a sender that is dropped ends it regularly, so that every
path that gives a payload up has to set an error first, the drop of the dispatcher
included. Error responses may have a body, with and without a control service. `log` is history: what was
read and written. So are `io.for`, the purpose and request that the transport's timer was last
started for, and `io.exp`, that of the timer whose expiry came last: a start does not clear
an expiry that is pending. `MCHttp1` holds the scenarios.

Operators with a comment that starts with "Mutant" are the altered forms that
show each property to depend on the code: put in the place of the definition they
are named for, they make TLC report the property.

## Runs, bounds and fairness

| Run | Checks | Bounds | Fairness |
|---|---|---|---|
| `runqueue` | NoLostWakeup, DrainedWhenDown, ImplementsMailbox (the abstract specification with its fairness) | two producers, one command each, one local wake, two calls of `block_on`, batches of the least size so that each limit is reached | threads that have begun a publication go on; the owner goes on |
| `taskrefs` | RefsAccount, NoUseAfterFree, NoLostWake, EventuallyFreed | two other threads, one waker each, three cloning or waking operations | a thread inside an operation finishes it, polls and destructors return; EventuallyFreed is about tasks that nothing refers to any more |
| `threads` | BlockingPool: LimitRespected, NoStrandedTask, TasksResolve; Remote: StageExclusive, NothingLost, JoinAnswered | two closures, three worker identities, limit one; two jobs, one in detail, batch one, three spurious polls | submitters, workers, the drain, the runner and a woken handle go on |
| `timerwheel` | ScheduledOnTime, SleeperServed | two levels of four buckets, two timers, three arms, one restart, delays zero, one and past the first level | none needed |
| `local` | Readiness: CacheValid, and with ClientPool: NobodyForgotten, Answered; CallbackTimers: ScanExact, NoStaleDelivery, ExpiredDelivered | a root with two children that share a source, two callers, two changes; the real eight levels of 64 buckets with starts and delays at level boundaries and past the capacity, two slots, four operations, one restart; three calls to two hosts, two HTTP/2 connections, all limits one | below |
| `ioconn` | ReaderServed, NoSpin, NoSilentTruncation, OutputServed, CloseCompletes | a reader (one byte against a watermark of one, read notification, shutdown); a reader that decodes parts of its input (three bytes against a watermark of two), so that it waits under backpressure, with its transport paused and its readiness cleared; a writer (three bytes, watermark and threshold two, a socket that takes one, both flushes); a writer that pauses reads | below |
| `dispatcher` | NothingOverlooked, ServiceDrained, IdleOnly, StopEnds | two calls in flight, two inputs, all timeouts, one full buffer, one filter pause, one external timeout, one loss of readiness | below |
| `dispatcher_handover` | HandedOverEnds (violated) | no timeouts, two inputs, one loss of readiness | as `dispatcher` |
| `server` | OnePlace, AcceptedServed, ReadyListens, StopCompletes | nine scenarios: one or two workers, one listener, up to two connections, with stalled services, blocked runtimes, panics and failed restarts, stop-on-panic, pauses, accept errors, stops | below |
| `http1` | ResponseFraming, PayloadWhole, TimerNotStale, BodyBeforeHead, KeepAliveIdle, ConnectionEnds | fourteen scenarios of up to four tokens, each with one or two of: control service, full output, filter pause, busy service, shutdown, half-close, disconnect, broken bodies | below |
| `http1_reuse` | BodyBeforeHead (violated) | one request with a payload, rejected by the control service | safety |
| `client_limit` | LimitCountsOpening (violated) | as the pool part of `local` | safety |

*Why these bounds are enough to be of use.* Each is the least at which its hazard occurs and its
mutant is caught: two producers for coalescing, limit one and two closures for a worker that expires under a
submission, three bytes for a buffer that passes high and low watermark with the
socket full in between. Numbers that the code compares (batch sizes, watermarks,
level boundaries) are at the limit that an instance reaches. What more
actors or larger sizes could do is covered by proof for the safety properties (below). The scenarios of `server` and `http1` are pairs of troubles that meet: their
product would not be checkable, and each scenario by itself explores every
interleaving. In `server` no scenario has items in the backlog while workers are
blocked, so that a rescheduling that adds to it is covered by the proof only.

*Weak fairness* is given to steps that their thread is certain to take: an
operating-system thread that has begun a publication or a barrier is scheduled,
a woken task is polled (the queue is FIFO and `runqueue` shows that it is served), a
deadline elapses. What users do (submissions, drops, cancels, further wakes)
gets none, except that a poll or a destructor that runs returns: without that no
shutdown could be expected to end.

*IoConn* states fairness as `[]<>~ready \/ []<><<A>>_vars`, with the condition
under which the thread would run the action written out rather than `ENABLED`:
the transport task when it is woken, an event when interest is armed and the socket is ready,
scheduled writes, the shutdown deadline, and a woken application. The peer gets none, so that CloseCompletes
holds for a peer that never reads, writes or closes.

*Dispatcher* assumes that calls and the service's shutdown end, that the service
becomes ready after losing readiness (`MaxFlips` bounds how often it loses it
while stopping), and that a closing transport closes, which is what IoConn's CloseCompletes shows.
StopEnds says nothing of services that never answer: the code waits for them.

*Server* assumes that its threads and tasks run, that a service that is not ready becomes
ready again, that a blocked runtime goes on, and that an application that paused the
server resumes it. It assumes nothing of further arrivals.

*Http1* assumes that the task runs when it is woken, that an armed timer fires,
that the application and the control service answer, yield their bodies and read
their payloads, and that a filter that pauses resumes. Of the peer nothing is
assumed, so that ConnectionEnds is the work of the timers alone.

*Local*: woken callers of a readiness check are polled; the support task of the
pool runs when it is woken, attempts to connect end (the connector has a timeout),
callers take what is delivered, and requests end. Nobody is obliged to
give up, to close or to stop.

Deadlock is checked in `runqueue`, where the end of a program is a step of the
model; the other instances end when their bounds are used up and everything is
released.

## What the checks found

*`dispatcher_handover`, a fault in the code.* If the service is not ready in time, the
stop call goes to a background task, which registers itself as the transport's
dispatch task while calls are in flight (`lib.rs:657`). The dispatcher has
registered there already, in `poll_shutdown()`; a transport has one such waker, and
the later registration replaces the earlier. When the transport closes, the
background task is woken and the dispatcher future is not; it never completes.

*`http1_reuse`, a fault in the code.* The payload of a request fails (its rate timeout, or bad
bytes) while the control service is asked about the request. The failure is kept for later
and the payload is given up. If the control service then rejects the request,
`send_response()` and `response_done()` look at the payload and at the disconnect
only, find neither, and the connection is used again: what follows of the payload is
decoded as a request head. `payload.rs:16-17` says that a stream given up early
prevents the reuse. The run `http1`, whose scenarios have no such rejection, shows that every other path keeps to it, and
BodiesComeBeforeHeads proves it. The same rejection also leaves the timer and the pending failure of the payload behind: with the scripts `post bad get` and
`post bad post` the next request meets them, so that TimerNotStale has the same exception.

*`client_limit`, documentation and code differ.* `acquire()` compares the limit with
the connections in use; those being opened are in `connecting`, which is looked
at per host and not counted. Two hosts that open at the same time exceed a limit
that `cfg.rs:121-123` describes as shared by all hosts and counting connections being opened.

*Observed, and not kept as runs.*

- `poll_shutdown()` (`stream.rs:458`) lifts the read pause and leaves read backpressure. The poll of the transport task that
  follows reads into the full buffer, pauses and leaves read interest disarmed; a reader
  that takes data out afterwards wakes nobody, and no further input arrives while the
  filters shut down, although `ctx.rs:25-26` says that both directions stay open. The disconnect deadline ends the situation.
- A paused server may still accept a connection: a turn of the accept loop that
  finds nothing re-arms the interest of its listener (`accept.rs:246-253`, `449`) after the pause has
  disarmed it. The connection waits in the backlog and is served after the resume, as AcceptedServed shows; `server.rs:163-165` says that
  a paused server does not accept.
- A request payload that is slow while the response is being written is not reported as `SlowPayloadTimeout`
  (`config.rs:425-428`), since the transport timer then serves the write (`dispatcher.rs:474-478`, `192-198`).
- A waiter for a connection may be left although there is room: when a call finds a HTTP/2 connection of
  its host expired, acquire() removes it (`client/pool.rs:283-297`) and wakes nobody. The waiters of the host were queued because of the
  connection, and another could be opened for them; they go on waiting until a stream of the expired connection ends or another connection is returned.
  The last case of `Blocked` (ClientPool) is this one; found when the property was to be proved for all
  limits: with a HTTP/1 limit of two, four calls to one host show it.
- Level and capacity of the timer wheel are judged
  by the delay plus the lag of the wheel's clock: a delay a little below the
  capacity is cut to the maximum counted from the lagging clock, and such a timer
  may fire early by the lag. The capacity is some 24 days at the default resolution of 16 ms;
  ScheduledOnTime leaves delays that were cut (`clamped`) aside.

## Proofs

Checked by TLAPS for all producers, tasks, workers, sizes and bounds that satisfy the
named assumptions (finite sets of threads, a positive event interval and thread limit,
identities that are distinct, at least two buckets per level and levels at least twice
as coarse as the one before). Each module `XProofs` proves about the module `X`;
`RuntimeProofs` is about TaskRefs and RunQueue,
`ThreadsProofs` about BlockingPool and Remote, the two parts of `MCThreads`,
`LocalProofs` about Readiness, ClientPool and `LocalServices`, and `TimerWheelProofs` about TimerWheel
and CallbackTimers.

*RuntimeProofs*, the run queue. The type invariant is not inductive: `inflight` is decremented without
a test. `AdmInv` adds that it is the number of producers that hold a permit
(`AdmissionCount`); **TypeCorrect** follows. For wakeups, `WakeupInv` has two parts that
need each other. `NotifiedOwned`: whoever set `notified` has notified, is going to, or
the owner is up and will clear the flag before it sleeps again. `ParkedIdle`,
`ParkedRemote` and `ParkedLocal`: from the decision to sleep to the end of the wait, the
owner has set itself idle or has a token, and queued work comes with a token or with a
producer that has still to claim and notify. **WakeupNeverLost** and
**CoalescingCorrect** are its consequences for a driver that waits. For shutdown,
`Quiesced` says that behind the barrier no producer has a permit (**BarrierHolds**), so
that what the owner drains stays drained; together with `Conservation` (the commands
sent by a thread are those in the FIFO and those consumed) this gives
**ShutdownDrains**: nothing is left, and every command was consumed once.

**MailboxImplemented** is the safety part of the refinement, `QueueSpec => Box!Safety`: every
step of RunQueue is a step of Mailbox or leaves the mapped variables alone, so that no
command is lost, reordered, repeated, or accepted after the close, for any number of
producers. The step needs the inductive invariant of the proofs above (`QInv`, the
conjunction of `AdmInv`, `WakeupInv` and `Quiesced`): without `Quiesced` a producer
might push into a mailbox that is gone. Its steps are two lemmas, one for the senders
(`SendersMapped`) and one for the owner (`OwnerMapped`). The fairness of Mailbox
(accepted commands are posted, a serving owner takes, a closing one finishes) is checked
by TLC in `runqueue`.

*ThreadsProofs*, the blocking pool. `PoolInv` ties the counter to the set of workers and submissions
that hold a slot; a slot passes from a submission to its worker without changing the
count. **LimitHolds** follows. **QueueNeverStranded** is inductive with it: a submission
that finds the pool full leaves its closure to somebody who holds a slot (the counter
says that there is one), and whoever gives a slot up looks at the queue once more
afterwards. **SkipsAreCancellations**: a closure is only skipped when its result was
dropped without being detached.

*ThreadsProofs*, remote jobs. The queue and the job have an invariant each, and a step of Remote is a
step of one that leaves the other alone, or of both. `SpawnerInv`: the drain task can be
woken (`CanBeWoken`), a set `notified` stands for a wake that is under way
(`WakeUnderWay`), behind the barrier nobody publishes, and a job that was admitted is in
the queue or has left it. `JobInv`: `DONE` is published after the last access, the bits
that the runner has read are still true where it relies on them (`SeenFresh`), and a
runner that does not look at the bits again is scheduled (`CancelHeard`).
**StageNeverShared**: runner and joiner never access the stage cell at the same time.
**NothingEverLost**: no job, cancellation or waker is lost.

*RuntimeProofs*, tasks. The equation of RefsAccount is not inductive: only the owner writes
the count, which lags behind the references by the commands in the FIFO, so that it
might pass through zero while an `AddRef` is still on its way. `CountStaysUp` rules this
out: at *every* command of the FIFO the count will exceed what the owner gives up
without a command. It needs `RemoteInv` (a thread inside an operation borrows a waker
that exists), `FifoInv` (the mark for pending commands is set before them) and
`StageInv` (flags, stage and runner agree). Commands are counted as cardinalities of
sets of positions, and a lemma says what appending and taking do to them.
**CountIsExact**, **FreedIsUnreachable** and **TypesKept** (the count never goes below
zero) follow; **WakesAreKept** with `ScheduledInv` and `WakeNoted`.

*DispatcherProofs.* `CallInv` is inductive with `PhaseInv`, which says where the stop
call, the shutdown of the service and the background task can be in each state;
**ShutdownAfterCalls** follows. `WatchInv` says of a dispatcher that sleeps that it has
left its waker with the transport, and with the service unless the call limit holds it
up, and that in backpressure no timer but that of the write runs; **SleepsOnlyWhenIdle** and the
action property **KeepAliveEndsIdle** follow.

*IoConnProofs.* An action is a composition of operators on connections. Rather than
expanding it, the proofs give each operator a relation that composes: `Grows` (phases
and manners advance, pauses and wakeups are added, nothing is written), `Moves` and
`Flow` (output may be written, and is accounted for), `Keeps` (the registrations of the
transport are as they should be), `Owns` and `Turns` (a call, and a poll, of the
application). What remains per action is to go through its cases. `Inv` has the `Ledger`
(accepted output is written or buffered unless the connection was closed by force or has
an error), `RdInv` and `WrInv` (a connection that may read, or has to write, has its
interest armed or its task woken), `RdReg` and `WrReg` (the transport task is woken by a
change of either direction), `SendInv` and `PausedInv` (scheduled writes), `AppInv` and
`ProdInv` (what is waited for has not happened, and the waker is there).
**ShutdownIsComplete**, **InputIsRead** and **OutputIsWritten** are NoSilentTruncation,
ReaderServed and OutputServed for any watermarks, sizes, budgets and uses of a
connection. **NothingSpins** is NoSpin. A handler that left everything as it was would
have to be woken at its end as at its beginning, so one more relation is given to the
operators of a poll: `Earns` says that what only ever advances (the phase, the manner of
the end, the end of input, bytes read and written) does not go back, and that whoever wakes the
transport task has moved one of them (`Further`). A poll starts by taking its
wakeup; it ends woken only if it got further, and in neither case is it back where it
began. An event makes the
socket give or take something, or changes the interest it was reported for.

*LocalProofs*, readiness. For any graph of scopes without cycles (`ScopesAcyclic`; a cycle
would be a service that owns itself). CacheValid is not inductive: that a success may be
cached follows from what a suspended check has seen of its children. `Settled` says that
this still holds as long as the generation is that of the snapshot; a notification
spares the scope and all that it depends on, or makes its generation differ for good.
`Ancestors` is defined as the least closed set, so that the facts about it need no
induction. **CacheIsValid** follows. **SleepersAreRegistered** is NoLostWake: `WakeInv`
says of the stack of a task which of its calls have returned `Pending` (`ModesOf`), that
these are registered with all that may make them proceed or the task is woken
(`Registered`), that a check in progress has exactly one owner (`Owners`), and that a
future that is polled was not stale when its poll began (`Fresh`).

*LocalProofs*, the client pool. For any calls, connections and limits and any finite set of
hosts; a connection has at least one stream. NoWaiterForgotten
speaks of the moments between two polls of the support task; `Served` extends it to the
inside of a poll, for the hosts that the poll has been to. Every return of a connection, end of an
attempt or loss of a peer wakes the task if anybody waits (`WokenServes`). What remains is
acquire() on behalf of others: it takes idle connections and starts attempts, which keeps a
blocked host blocked, and it removes connections that have expired. Such a connection
was in full use, so that somebody holds a stream of it, whose end wakes the task
(`BlockedStays`). This needs `Counts` (`acquired` and the streams are the numbers of
the calls that hold them), `Holding` (a call that waits holds nothing, a connection is
with one host) and `Queued` (a call is in one queue, once, and nobody opens a connection
for it meanwhile). **WaitersAreServed** and **UseIsCounted** follow; **NobodyIsForgotten**
joins the former with SleepersAreRegistered for `LocalServices`.

*TimerWheelProofs.* For every number of levels, size of a level, ratio between levels
and set of units. The first half is about the arithmetic: `NextFacts` says that
next_pending_bucket() returns the earliest occupied tick although it leaves levels out,
`TickFacts` that a tick within one turn of its level is the one found by its bucket,
`DueFacts` and `DueOnly` that at a tick exactly its own buckets are drained,
`IndexFacts` where calc_wheel_index() puts a delay. ScheduledOnTime is not inductive.
`WheelInv` adds `Linked`: a pending timer is in the bucket of its tick, within one turn,
with the bit set, and the deadline is not later; so the clock, when the driver moves it,
never passes an expiry and never stops while a timer is left. **TimersOnTime** is
ScheduledOnTime, and **NoTimerEarly** says that the driver elapses nothing before its
instant. `DriverInv` adds to SleeperServed that a driver that is not scheduled has its
waker registered and that later generations have no driver yet; **SleepersAreServed**
follows. The granularity of a level is a recursive function, `granOf`, and the clocks of
the levels are another. That they satisfy their equations, and what holds of every
level, is proved with the existence of least elements in sets of naturals (`LeastNat`,
`Induction`, from the library's `WFMin`), which needs no operator parameter.

The last part is about CallbackTimers, for any finite set of slots and any natural starts
and delays. `SlabInv`: a slot in the wheel belongs to a handle and is in the
bucket of its tick, within one turn of its level from the clock, and the deadline is not
later (`Fits`). `NextFacts` also says that the tick the scan returns is that of an occupied
bucket. **ScanIsExact** is ScanExact: the scan finds the earliest expiry, the deadline
is not later, and at the deadline exactly the slots that expire then are drained,
whatever callbacks have armed, reset, cancelled and dropped. `TicketInv`: the timer of a
ticket in the batch is out of the wheel, or was armed again and has a higher number, or is
another one with its own identity (`Fresh`). **DeliveryNeverStale** is the action property
NoStaleDelivery: the delivery loop invokes no callback whose timer was reset,
cancelled or replaced by an earlier callback of the same batch.

*ServerProofs.* For any workers, listeners, callers, connections and scenarios; the assumptions are
that `NoConn` is no connection and that there is a scenario with the most faults, so that the
runs of a worker are bounded. OnePlace counts the places of a connection. The proof turns them into a
function `Held` from places (`Slots`) to sets of connections: no two share one (`Exclusive`),
together they are exactly the accepted ones (`Accounted`), and no queue repeats one
(`Distinct`). An action then moves a set of connections from one place to another, lets
one in or lets some out; `Transfer`, `Arrival` and `Departure` say that each keeps the
invariant, and each action is shown to be one of them (`Without`, `With`). Three more
parts of `ServerInv` are needed because the code does not test for them. `InHand`: a worker
takes an item, and the accept loop a connection, only with empty hands, so that nothing is
overwritten. `Restarts` and `Unstarted`: a restarted worker begins with a queue that
nobody has used; each restart has used up a fault, and a worker that ends without one
ends because the server stops. `Arrivals`: a connection is pending with one listener.
**AcceptedInOnePlace** follows, after it is shown that these sets are those that OnePlace
counts.

*Http1Proofs.* For every set of scenarios: any finite script in which the tokens of a payload
follow the head of their request (`AtHead`; anything else on the wire is by definition a
head or bad bytes), any end of the peer, any configured timeouts, replies and interference. As
in IoConnProofs each operator on a connection gets a relation that composes: `Moves` and
`Clocked` for the timers, `Ends` for disconnects, `Eats` and `Decoded` for the
input. The invariant has two parts. `Sound` holds whatever happens. Its core is `Framed`: in
which states a response is owed, that none is open where another may be written, that
the one disconnect message has been sent where its call is running, and that
a payload that ended regularly was whole (`Whole`): the sender is dropped only after it has
fed the end or an error. **Http1TypeOK**, **ResponsesAreFramed**,
**PayloadsAreWhole** and the action property **KeepAliveClosesIdle** follow from it. `Settled` holds unless
the control service rejects requests. The one transport timer serves six purposes
in turn; `Timely` says that wherever one of them may act, the timer was started for it and
for this request, also if it was stopped or suspended in between, and that an expiry
that is pending is the one of this start. An expiry found while the payload is read waits for
the buffered input (`Held`), and still has to be this one afterwards. BodyBeforeHead is not
inductive: what matters is not what has been read but what is left (`Rem`, the buffer and what the
peer has still to send). While a payload is read the rest begins inside one (`InBody`), and wherever a
head may be read next it begins with a head (`Kept`); a payload that was given up has to
be followed by a disconnect or a pending failure. **TimersAreNotStale** and **BodiesComeBeforeHeads** carry the
hypothesis `~sc.rejects`, without which both are false, as `http1_reuse` shows.

*Only model-checked.* Liveness under fairness and `ENABLED` are beyond this prover:
EventuallyFreed, TasksResolve, JoinAnswered, Answered, ExpiredDelivered, CloseCompletes,
StopEnds, AcceptedServed, ReadyListens, StopCompletes, ConnectionEnds, and the fairness
of Mailbox. All safety properties of the
passing runs are proved.

## What is not modelled

- *RunQueue*: a nested `Runtime::poll` inside a task, aborts on counter overflow
  and on notify errors, a permit dropped without a push, metrics.
- *TaskRefs*: other tasks (they appear as commands), overflow aborts, self-wake
  statistics.
- *TimerWheel*: the low-resolution clock driver, time below a millisecond,
  panics of wakers.
- *Readiness*: `on_notify` callbacks, retirement of scopes, epochs, reentrant
  cleanup.
- *IoConn*: filters that hold output back or write while they read (`ctx.rs:469-477`), `wr_inflight` of the completion
  backends, delayed feeds, one-shot pollers and
  hang-up events, read-size adaptation, connection timers, metrics.
- *Dispatcher*: dropping it, error values, frame contents, input and timers after
  a stop (they have no effect).
- *Server*: signals, CPU affinity and the choice of the balancer (any routed worker may be chosen that it
  does not know to be blocked; it takes no new sample during a rescheduling), metrics, the answers to pause and resume, failures to register a
  listener, the drop of the system, the service pool front end (`pool.rs`).
- *Http1*: the parsers and encoders, the values of errors, trailers, the client
  side, the `Date` service.
- *ClientPool*: stream limits that a HTTP/2 peer changes, the callback of the
  external HTTP/2 crate beyond "a stream or the connection has gone", the
  difference between a request's activity guard and its stream, idle times and lifetimes (any
  connection may have expired), a URI without authority, proxies.
- Memory order: atomics are sequentially consistent in the models. The fences of
  the code are what makes this a fair reading; their placement is not checked.

Components without a module are in `PROJECT.json` with the reason: pure
conversion (URLs, headers, parsers), third-party state machines (TLS, HTTP/2,
tokio), thin adapters, and those that the plan below has next.

## Plan

Modelled first, because everything else runs on it: the runtime (RunQueue, TaskRefs,
Remote, BlockingPool), timers (TimerWheel, CallbackTimers), readiness, the
connection (IoState, IoConn) and its dispatcher; then the abstract mailbox, the server, HTTP/1
and the client pool. What is left, in this order:

1. *Proofs*: the type invariants of the modules whose proofs use a weaker one.
2. *Spawner as a Mailbox*: the second implementation of the abstract specification.
3. *Pipelines and utility services*: waiters of a pipeline, in-flight limit,
   buffer, keep-alive, timeout, retry, over the promises of Readiness.
4. *Channels* (oneshot, mpsc, pool, bstream, condition) against one abstract
   channel, by refinement.
5. *Filter chain* in IoConn: layers that hold output; connection timers
   (`ntex-io/src/ops.rs`); the io_uring stream with operations in flight and their cancellation.
6. *System and arbiters*: stop protocol, signals; *websockets*: close handshake.
7. *Pure algorithms* against reference definitions: router tree, chunked decoder,
   quoting.
