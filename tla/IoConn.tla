-------------------------------- MODULE IoConn --------------------------------
(***************************************************************************)
(* A connection on the polling backend: ntex-io/src/ctx.rs, ioref.rs,      *)
(* io/stream.rs and io/mod.rs over ntex-net/src/polling/stream.rs and      *)
(* io.rs, with a socket, its peer, and callers of the connection's API.    *)
(*                                                                         *)
(* The actions are what the thread does in one go: one poll of the         *)
(* transport task, one event of the reactor, one run of the scheduled      *)
(* writes, one call or poll by the application.                            *)
(***************************************************************************)
EXTENDS IoState

CONSTANTS
  SockCap,   \* bytes the socket takes before it would block
  Budget,    \* READ_BUDGET and WRITE_BUDGET
  Uses       \* configurations, each with a use that is made of its connection

Waits == {"read", "notify", "pause", "flush", "fullflush", "shutdown"}

\* A use is what the application awaits, and bounds of the bytes the peer sends
\* and the application writes.
ASSUME ConnAssumption ==
  /\ SockCap \in Nat \ {0} /\ Budget \in Nat \ {0}
  /\ \A u \in Uses : /\ u.cfg \in ConfigType /\ u.ops \subseteq Waits
                     /\ u.maxIn \in Nat /\ u.maxOut \in Nat

VARIABLES
  io,      \* the connection
  st,      \* its StreamItem: flags RD, RD_PAUSED, WR and DETACHED; the armed interest
  sock,    \* the socket: bytes to read, end of stream, error, free space, how it was closed
  total,   \* bytes accepted for writing, written to the socket, sent by the peer
  use      \* the use that is made of the connection

vars == <<io, st, sock, total, use>>

\* The four together, for the operators that change more than one of them.
All == [io |-> io, st |-> st, sock |-> sock, total |-> total]
Become(a) ==
  io' = a.io /\ st' = a.st /\ sock' = a.sock /\ total' = a.total /\ UNCHANGED use

\* StreamOps::register() arms read interest.
Init ==
  /\ use \in Uses /\ io = NewConn(use.cfg)
  /\ st = [rd |-> TRUE, rdPaused |-> FALSE, wr |-> FALSE, detached |-> FALSE,
           evRd |-> TRUE, evWr |-> FALSE]
  /\ sock = [in |-> 0, fin |-> FALSE, err |-> FALSE, space |-> SockCap, closed |-> "open"]
  /\ total = [accepted |-> 0, written |-> 0, received |-> 0]

-----------------------------------------------------------------------------
(* polling/stream.rs *)

Modify(s, rd, wr) == IF s.detached THEN s ELSE [s EXCEPT !.evRd = rd, !.evWr = wr]

\* StreamItem::write()
StreamWrite(a) ==
  LET n == Smaller(Smaller(a.io.wr, a.sock.space), Budget)
  IN IF a.sock.err THEN [a EXCEPT !.io = TerminateConnection(@, TRUE)]
     ELSE [a EXCEPT !.io = UpdateWriteStatus([a.io EXCEPT !.wr = @ - n]),
                    !.sock.space = @ - n, !.total.written = @ + n]

\* StreamItem::read(); more than what the budget allows stays in the socket.
ReadSize(a) == IF a.sock.err THEN 0 ELSE Smaller(a.sock.in, Budget)
StreamRead(a) ==
  LET n == ReadSize(a)
  IN IF a.sock.err THEN [a EXCEPT !.io = ReadFailed(@)]
     ELSE IF n > 0 \/ a.sock.fin THEN [a EXCEPT !.io = ReadBytes(@, n), !.sock.in = @ - n]
     ELSE a
StatusOfRead(a) == ReadStatus(a.io, StreamRead(a).io, ReadSize(a), a.sock.err)

\* write_item()
WriteItem(a) ==
  LET armed(b) == IF WriteStatus(b.io) = "Io" /\ ~b.st.wr
                  THEN [b EXCEPT !.st = Modify([@ EXCEPT !.wr = TRUE], @.rd, TRUE)] ELSE b
  IN armed(StreamWrite(a))

\* The read half of interest(): what is wanted while interest is armed needs no
\* update, and the next event disarms what is not.
InterestRd(a, rd) ==
  IF a.st.rd THEN [a EXCEPT !.st.rdPaused = ~rd]
  ELSE IF rd THEN [StreamRead(a) EXCEPT !.st.rd = (StatusOfRead(a) = "Io")]
  ELSE a

InterestWr(a, wr) ==
  LET written(b) == [b EXCEPT !.st.wr = (WriteStatus(b.io) = "Io")]
  IN IF ~wr THEN [a EXCEPT !.st.wr = FALSE]
     ELSE IF a.st.wr THEN a ELSE written(StreamWrite(a))

Interest(a, rd, wr) ==
  LET rearmed(w) == IF a.st.rd # w.st.rd \/ a.st.wr # w.st.wr
                    THEN [w EXCEPT !.st = Modify(@, @.rd, @.wr)] ELSE w
  IN rearmed(InterestWr(InterestRd(a, rd), wr))

-----------------------------------------------------------------------------
(* ioref.rs *)

\* call_write(): the handle is taken for the call, and dropped with the connection.
CallWrite(a) ==
  LET kept(b) == [b EXCEPT !.io.handle = ~IsAborted(b.io)]
  IN IF ~a.io.handle THEN a
     ELSE kept(WriteItem([a EXCEPT !.io.handle = FALSE, !.io.wrPaused = FALSE]))

ScheduleWrite(c) == IF c.wrSend THEN c ELSE [c EXCEPT !.wrSend = TRUE, !.iops = TRUE]

\* consolidate_write_state(): write in place, or schedule a write; it fails, and
\* leaves it at that, once the connection has an error.
ConsolidateFails(c) == c.phase # Active /\ c.err
Consolidate(a, force) ==
  LET direct == a.io.cfg.wrThreshold > 0 /\ (force \/ a.io.wr >= a.io.cfg.wrThreshold)
      written(b) == IF b.io.wrPaused THEN [b EXCEPT !.io.wrSend = FALSE]
                    ELSE [b EXCEPT !.io = ScheduleWrite(@)]
      w == IF a.io.wr = 0 \/ ~a.io.wrPaused THEN a
           ELSE IF ~direct THEN [a EXCEPT !.io = ScheduleWrite(@)]
           ELSE written(CallWrite(a))
      checked(c) == IF ConsolidateFails(c) THEN c ELSE EnableWrBackpressure(c)
  IN [w EXCEPT !.io = checked(@)]

\* with_write_src() for n bytes
Encode(n) ==
  /\ io.phase = Active /\ ~io.dropped /\ total.accepted + n <= use.maxOut
  /\ Become(Consolidate([All EXCEPT !.io.wr = @ + n, !.total.accepted = @ + n], FALSE))

\* Mutant: a scheduled write that finds the socket full is not followed up.
OpsSendBufOnce(a) ==
  IF a.io.wrPaused
  THEN [CallWrite([a EXCEPT !.io.wrSend = FALSE]) EXCEPT !.io.wrPaused = TRUE, !.st = st]
  ELSE [a EXCEPT !.io.wrSend = FALSE]

\* ops_send_buf(): what the write leaves is left to the write task.
OpsSendBuf(a) ==
  LET followed(b) == IF b.io.wrPaused THEN b ELSE [b EXCEPT !.io = WakeWriteTask(@)]
  IN IF ~a.io.wrPaused THEN [a EXCEPT !.io = WakeWriteTask([@ EXCEPT !.wrSend = FALSE])]
     ELSE followed(CallWrite([a EXCEPT !.io.wrSend = FALSE]))

\* Iops::run()
IopsRun ==
  /\ io.iops
  /\ LET a == [All EXCEPT !.io.iops = FALSE]
     IN Become(IF io.dropped \/ ~io.wrSend THEN a ELSE OpsSendBuf(a))

-----------------------------------------------------------------------------
(* ctx.rs and the transport task of polling/io.rs *)

\* Mutant: the deadline is not put back, so that it never elapses.
ArmLost(c) == c

\* The deadline of a shutdown: created when it is first polled.
Arm(c) == [c EXCEPT !.deadline = IF @ = "none" THEN "armed" ELSE @]

\* poll_filters_shutdown()
PollFiltersShutdown(a) ==
  LET blocked(c) == ~c.rdEof /\ (c.rdPaused \/ c.rdBp)
      polled(c) ==
        IF ConsolidateFails(c) THEN c
        ELSE IF c.filterDone /\ c.wrPaused /\ ~c.wrSend THEN StopFilters(c, FALSE)
        ELSE IF ~c.filterDone /\ (c.rdEof \/ blocked(c)) THEN StopFilters(c, blocked(c))
        ELSE IF c.deadline = "elapsed" THEN StopFilters(c, TRUE)
        ELSE Arm(c)
  IN IF IsShuttingDownFilters(a.io) THEN [Consolidate(a, TRUE) EXCEPT !.io = polled(@)] ELSE a

\* poll_shutdown_deadline()
PollShutdownDeadline(c) ==
  IF c.phase < TransportShutdown \/ c.wr = 0 THEN c
  ELSE IF c.deadline = "elapsed" THEN TerminateConnection(c, TRUE)
  ELSE Arm(c)

\* The results of poll_read_ready() and poll_write_ready(), and what they leave.
Ends == {"Close", "Terminate"}
ReadReadyResult(c) == IF c.dropped /\ c.manner # ForceClosed THEN "Close" ELSE ReadReadiness(c)
WriteReadyResult(c) == IF c.dropped /\ c.manner # ForceClosed THEN "Close" ELSE WriteReadiness(c)

PollReadReady(a) ==
  LET registered(c) == IF ReadReadyResult(c) \in Ends THEN c ELSE [c EXCEPT !.rdTask = TRUE]
      b == IF a.io.manner = ForceClosed THEN a ELSE PollFiltersShutdown(a)
  IN [b EXCEPT !.io = registered(@)]

PollWriteReady(c) ==
  LET registered(d) == IF WriteReadyResult(d) \in Ends THEN d ELSE [d EXCEPT !.wrTask = TRUE]
  IN registered(IF c.manner = ForceClosed THEN c ELSE PollShutdownDeadline(c))

\* One poll of run(): the socket's interest follows the readiness, and when
\* either direction ends the socket is shut down, or aborted, and released.
\* Dropping the control handle stops the connection before stopped() does.
TaskPolled ==
  LET interested(a, rd, wr) ==
        IF rd \in Ends /\ wr \in Ends THEN a ELSE Interest(a, rd = "Ready", wr = "Ready")
      ended(a, rd, wr) ==
        IF {rd, wr} \cap Ends = {} THEN a
        ELSE [a EXCEPT !.io = StopConnection(TerminateConnection(@, FALSE)),
                       !.st.detached = TRUE,
                       !.sock.closed = IF "Terminate" \in {rd, wr} THEN "aborted" ELSE "shutdown"]
      write(a, rd, wr) == ended(interested(a, rd, wr), rd, wr)
      read(a, rd) == write(a, rd, WriteReadyResult(a.io))
      polled(a) == read([a EXCEPT !.io = PollWriteReady(@)], ReadReadyResult(a.io))
  IN polled(PollReadReady([All EXCEPT !.io.ioWoken = FALSE]))

RunReady == io.ioWoken /\ sock.closed = "open"
RunTask == RunReady /\ Become(TaskPolled)

\* The sleep of the deadline fires and wakes the task that polled it.
Elapse ==
  /\ io.deadline = "armed"
  /\ io' = [io EXCEPT !.deadline = "elapsed", !.ioWoken = TRUE]
  /\ UNCHANGED <<st, sock, total, use>>

Readable == st.evRd /\ (sock.in > 0 \/ sock.fin \/ sock.err)
Writable == st.evWr /\ (sock.space > 0 \/ sock.err)

\* Mutant: reads pause with their interest armed, whatever is left in the socket.
EventRdArmed(a) ==
  LET b == StreamRead(a)
      status == StatusOfRead(a)
  IN IF a.st.rdPaused THEN a
     ELSE [b EXCEPT !.st.rd = (status # "Stop"), !.st.rdPaused = (status = "Pause")]

\* The read half of StreamOpsHandler::event(); interest stays armed for a pause
\* if the socket is drained.
EventRd(a) ==
  LET armed(b, status) ==
        IF status = "Pause" /\ ReadSize(a) < Budget
        THEN [b EXCEPT !.st.rd = TRUE, !.st.rdPaused = TRUE]
        ELSE [b EXCEPT !.st.rd = (status = "Io")]
  IN IF a.st.rdPaused THEN [a EXCEPT !.st.rd = FALSE, !.st.rdPaused = FALSE]
     ELSE armed(StreamRead(a), StatusOfRead(a))

EventWr(a) ==
  LET written(b) == [b EXCEPT !.st.wr = (WriteStatus(b.io) = "Io")] IN written(StreamWrite(a))

\* event() for a level-triggered poller, which reports an error whatever is armed.
EventHandled ==
  LET read(a) == IF Readable THEN EventRd(a) ELSE a
      written(a) == IF Writable THEN EventWr(a) ELSE a
      modified(a) ==
        IF sock.err THEN [a EXCEPT !.io = TerminateConnection(@, TRUE), !.st.detached = TRUE]
        ELSE [a EXCEPT !.st = Modify(@, @.rd, @.wr)]
  IN modified(written(read(All)))

EventReady == ~st.detached /\ (Readable \/ Writable \/ sock.err)
Event == EventReady /\ Become(EventHandled)

-----------------------------------------------------------------------------
(* io/stream.rs: the task that owns the Io, and what it awaits *)

\* The operation ends, or waits as `what` with the dispatch waker registered.
Resolve(c) == [c EXCEPT !.app = "idle"]
Await(c, what) == [c EXCEPT !.app = what, !.dspTask = TRUE]

\* update_read_destination() when c.rd bytes are left.
UpdateReadDestination(c) ==
  LET d == [c EXCEPT !.rdReady = FALSE, !.rdBp = FALSE]
  IN IF c.rdBp /\ c.rd > RdHalf(c) THEN c ELSE IF c.rdPaused THEN ResumeReadTask(d) ELSE d

\* decode() and decode_item(): what is left is not input to be told of, also while
\* backpressure stays.
Decode(n) ==
  /\ io.app = "idle" /\ n <= io.rd
  /\ io' = UpdateReadDestination([io EXCEPT !.rd = @ - n, !.rdReady = FALSE])
  /\ UNCHANGED <<st, sock, total, use>>

\* with_read_dst(), which takes n bytes and leaves the readiness to the update.
WithReadDst(n) ==
  /\ io.app = "idle" /\ n <= io.rd
  /\ io' = UpdateReadDestination([io EXCEPT !.rd = @ - n])
  /\ UNCHANGED <<st, sock, total, use>>

\* Mutant: the pauses are lifted and the read task is not told.
AskMoreQuietly(c) ==
  IF c.rdPaused \/ c.rdBp
  THEN [c EXCEPT !.rdReady = FALSE, !.rdBp = FALSE, !.rdPaused = FALSE]
  ELSE c

\* poll_read_more(): asking for more input lifts every pause.
AskMore(c) ==
  IF c.rdPaused \/ c.rdBp
  THEN WakeReadTask([c EXCEPT !.rdReady = FALSE, !.rdBp = FALSE, !.rdPaused = FALSE])
  ELSE c
PollReadMore(c) ==
  IF IsPeerGone(c) \/ (c.rdEof /\ ~c.rdReady) THEN Resolve(c)
  ELSE IF c.rdReady THEN Resolve(AskMore(c))
  ELSE Await(AskMore(c), "read")

\* poll_read_notify(): waits for a read of the transport, whatever it brings.
PollReadNotify(c) ==
  LET taken == [c EXCEPT !.rdNotify = @ /\ ~c.rdNotified, !.rdNotified = FALSE]
      asked == AskMore([c EXCEPT !.rdNotify = TRUE])
  IN IF IsPeerGone(c) THEN Resolve(c)
     ELSE IF c.rdEof \/ c.rdNotified THEN Resolve(taken)
     ELSE Await(asked, "notify")

\* poll_read_pause()
PollReadPause(c) ==
  LET p == IF c.rdPaused THEN c ELSE [WakeReadTask(c) EXCEPT !.rdPaused = TRUE]
      r == Await(p, "pause")
  IN IF IsPeerGone(c) \/ (c.wrBp /\ c.wr > WrHalf(c)) THEN [r EXCEPT !.app = "idle"]
     ELSE [r EXCEPT !.wrBp = FALSE]

\* poll_flush()
PollFlush(a, full) ==
  LET what == IF full THEN "fullflush" ELSE "flush"
      done(c) == Resolve([c EXCEPT !.wrBp = FALSE, !.wrFlush = FALSE])
      polled(c) ==
        IF ConsolidateFails(c) THEN Resolve(c)
        ELSE IF IsPeerGone(c) THEN IF c.wr = 0 /\ c.wrFlush THEN done(c) ELSE Resolve(c)
        ELSE IF c.wr > 0 /\ full THEN Await([c EXCEPT !.wrFlush = TRUE], what)
        ELSE IF (c.wrBp /\ c.wr > WrHalf(c)) \/ (~c.wrBp /\ c.wr >= c.cfg.wrHigh)
             THEN Await([c EXCEPT !.wrBp = TRUE], what)
        ELSE done(c)
  IN [Consolidate(a, FALSE) EXCEPT !.io = polled(@)]

\* poll_shutdown()
PollShutdown(c) ==
  LET s == StartShutdown(c)
      r == IF s.rdPaused THEN ResumeReadTask(s) ELSE s
  IN IF IsClosed(c) THEN Resolve(c) ELSE Await(r, "shutdown")

\* The poll of the operation `what`.
Operation(a, what) ==
  CASE what = "read" -> [a EXCEPT !.io = PollReadMore(@)]
    [] what = "notify" -> [a EXCEPT !.io = PollReadNotify(@)]
    [] what = "pause" -> [a EXCEPT !.io = PollReadPause(@)]
    [] what = "flush" -> PollFlush(a, FALSE)
    [] what = "fullflush" -> PollFlush(a, TRUE)
    [] what = "shutdown" -> [a EXCEPT !.io = PollShutdown(@)]

Begin(what) == io.app = "idle" /\ Become(Operation(All, what))

AppPoll ==
  /\ io.app \in Waits /\ io.appWoken
  /\ Become(Operation([All EXCEPT !.io.appWoken = FALSE], io.app))

\* A call is dropped, for example by a timeout around it.
AppCancel ==
  /\ io.app \in Waits
  /\ io' = Resolve(io)
  /\ UNCHANGED <<st, sock, total, use>>

Close ==
  /\ io.phase = Active
  /\ io' = StartShutdown(io)
  /\ UNCHANGED <<st, sock, total, use>>

Terminate ==
  /\ ~IsClosed(io) /\ io.manner # ForceClosed
  /\ io' = ForceCloseConnection(io)
  /\ UNCHANGED <<st, sock, total, use>>

\* Drop for Io: output that is left can never be delivered, so that the
\* connection is aborted.
DropIo ==
  /\ io.app # "gone"
  /\ LET c == IF io.wr = 0 THEN TerminateConnection(io, FALSE) ELSE ForceCloseConnection(io)
     IN io' = [c EXCEPT !.app = "gone", !.dropped = TRUE, !.rd = 0, !.wr = 0]
  /\ UNCHANGED <<st, sock, total, use>>

\* write_ready() of another task, which holds an IoRef.
WriteReady(c) == IsPeerGone(c) \/ ~c.wrBp \/ c.wr <= WrHalf(c)
ProdPoll ==
  /\ (io.prod = "idle" /\ ~WriteReady(io)) \/ (io.prod = "wait" /\ io.prodWoken)
  /\ io' = [io EXCEPT !.prodWoken = FALSE,
                      !.prod = IF WriteReady(io) THEN "idle" ELSE "wait",
                      !.wrWaiter = ~WriteReady(io)]
  /\ UNCHANGED <<st, sock, total, use>>

-----------------------------------------------------------------------------
(* The peer and the network *)

PeerSends ==
  /\ sock.closed = "open" /\ ~sock.fin /\ ~sock.err /\ total.received < use.maxIn
  /\ sock' = [sock EXCEPT !.in = @ + 1] /\ total' = [total EXCEPT !.received = @ + 1]
  /\ UNCHANGED <<io, st, use>>

PeerCloses ==
  /\ sock.closed = "open" /\ ~sock.fin /\ ~sock.err
  /\ sock' = [sock EXCEPT !.fin = TRUE]
  /\ UNCHANGED <<io, st, total, use>>

PeerResets ==
  /\ sock.closed = "open" /\ ~sock.err
  /\ sock' = [sock EXCEPT !.err = TRUE]
  /\ UNCHANGED <<io, st, total, use>>

PeerReads ==
  /\ sock.closed = "open" /\ sock.space < SockCap
  /\ sock' = [sock EXCEPT !.space = @ + 1]
  /\ UNCHANGED <<io, st, total, use>>

-----------------------------------------------------------------------------
Callers ==
  \/ \E n \in {1, 2} : Encode(n)
  \/ \E n \in 0..2 : Decode(n) \/ WithReadDst(n)
  \/ \E what \in use.ops : Begin(what)
  \/ AppPoll \/ AppCancel \/ ProdPoll
  \/ Close \/ Terminate \/ DropIo

Next ==
  \/ RunTask \/ Event \/ IopsRun \/ Elapse
  \/ Callers
  \/ PeerSends \/ PeerCloses \/ PeerResets \/ PeerReads

\* The executor runs woken tasks and scheduled writes, the reactor reports
\* events, and the timer of the deadline fires: weak fairness of the actions,
\* each with the guard that is its ENABLED.
Fairness ==
  /\ []<>~RunReady \/ []<><<RunTask>>_vars
  /\ []<>~EventReady \/ []<><<Event>>_vars
  /\ []<>~io.iops \/ []<><<IopsRun>>_vars
  /\ []<>~(io.deadline = "armed") \/ []<><<Elapse>>_vars
  /\ []<>~(io.app \in Waits /\ io.appWoken) \/ []<><<AppPoll>>_vars

Spec == Init /\ [][Next]_vars /\ Fairness

-----------------------------------------------------------------------------
(* Properties *)

\* The peer cannot mistake a truncated stream for a complete one: a socket that
\* is shut down rather than aborted has taken all the output, or the connection
\* has an error to report.
NoSilentTruncation ==
  sock.closed = "shutdown" /\ ~io.err => total.written = total.accepted

\* Reads go on: the transport task is about to run, or read interest is armed
\* and not paused.
Reading == sock.err \/ io.ioWoken \/ (st.rd /\ ~st.rdPaused /\ st.evRd)

\* A task that awaits input has not missed any, and the transport goes on
\* reading for it while the connection is active, whatever pauses and
\* backpressure there were before.
ReaderServed ==
  io.app = "read" /\ ~io.appWoken =>
    /\ ~IsPeerGone(io) /\ ~io.rdReady /\ ~io.rdEof /\ io.dspTask
    /\ io.phase = Active => Reading

\* Buffered output always has somebody to write it: a scheduled write, the woken
\* transport task, or armed write interest.
OutputScheduled ==
  io.wr > 0 /\ ~IsAborted(io) /\ ~io.dropped =>
    (io.wrSend /\ io.iops) \/ io.ioWoken \/ (st.wr /\ st.evWr)

\* Nobody waits for output in vain, whether it is written in place, by a scheduled
\* write or by the write task: it is being written, a task that awaits a flush has
\* output left to wait for, and a producer is woken when write backpressure can be
\* released (consolidate_write_state, ops_send_buf, update_write_status).
OutputServed ==
  /\ OutputScheduled
  /\ io.app \in {"flush", "fullflush"} /\ ~io.appWoken =>
       ~IsPeerGone(io) /\ io.dspTask /\ io.wr > (IF io.app = "flush" THEN WrHalf(io) ELSE 0)
  /\ io.prod = "wait" /\ ~io.prodWoken => ~WriteReady(io)

\* Nothing spins: no event is reported again and again while its handler changes
\* nothing, and no poll of the transport task ends as it began, woken.
NoSpin ==
  /\ EventReady => EventHandled # All
  /\ RunReady => TaskPolled # All

\* A connection whose close has begun is released, whatever its peer does: one
\* deadline bounds both phases of a shutdown.
CloseCompletes == io.phase >= FiltersStopping ~> IsClosed(io)
=============================================================================
