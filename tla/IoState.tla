------------------------------- MODULE IoState -------------------------------
(***************************************************************************)
(* The state of one connection and what changes it: ntex-io/src/flags.rs,  *)
(* io/state.rs, filter.rs, and the read and write results of ctx.rs.       *)
(*                                                                         *)
(* A connection belongs to one thread and its handlers call each other, so *)
(* each function of the code is an operator from a connection to the       *)
(* connection it leaves behind; IoConn makes actions of them.  Bytes are   *)
(* counted.  The filter chain is the base filter under a layer that passes *)
(* data on and that may need input from the peer to shut down.             *)
(***************************************************************************)
EXTENDS Integers

\* IoConfig: the high watermarks of the buffers, and the size from which output is
\* written in place, 0 disables that; `handshake` says whether the shutdown of the
\* filter waits for input.
ConfigType ==
  [rdHigh : Nat \ {0}, wrHigh : Nat \ {0}, wrThreshold : Nat, handshake : BOOLEAN]

RdHalf(c) == c.cfg.rdHigh \div 2
WrHalf(c) == c.cfg.wrHigh \div 2

\* Phase and Manner, in their order.
Active == 0
FiltersStopping == 1
TransportShutdown == 2
Stopped == 3
Graceful == 0
Terminating == 1
ForceClosed == 2

Larger(m, n) == IF m > n THEN m ELSE n
Smaller(m, n) == IF m < n THEN m ELSE n

\* IoState, with the flags as fields, and the tasks that its wakers wake: `io`
\* of the transport, `app` of the owner of the Io, `prod` of a caller of
\* write_ready().
NewConn(config) ==
  [cfg |-> config, phase |-> Active, manner |-> Graceful, err |-> FALSE, handle |-> TRUE, dropped |-> FALSE,
   rdPaused |-> FALSE, rdBp |-> FALSE, rdEof |-> FALSE, rdReady |-> FALSE,
   rdNotify |-> FALSE, rdNotified |-> FALSE,
   wrPaused |-> TRUE, wrFlush |-> FALSE, wrSend |-> FALSE, wrBp |-> FALSE,
   rd |-> 0, wr |-> 0, filterDone |-> ~config.handshake, deadline |-> "none", iops |-> FALSE,
   rdTask |-> FALSE, wrTask |-> FALSE, dspTask |-> FALSE, wrWaiter |-> FALSE,
   ioWoken |-> TRUE, app |-> "idle", appWoken |-> FALSE, prod |-> "idle", prodWoken |-> FALSE]

IsClosed(c) == c.phase = Stopped
IsTerminating(c) == c.manner >= Terminating
IsAborted(c) == IsClosed(c) \/ IsTerminating(c)
IsPeerGone(c) == c.phase >= TransportShutdown \/ IsTerminating(c)
IsShuttingDownFilters(c) == c.phase = FiltersStopping /\ c.manner = Graceful

-----------------------------------------------------------------------------
(* io/state.rs *)

WakeReadTask(c) == [c EXCEPT !.rdTask = FALSE, !.ioWoken = @ \/ c.rdTask]
WakeWriteTask(c) == [c EXCEPT !.wrTask = FALSE, !.ioWoken = @ \/ c.wrTask]
WakeDispatchTask(c) == [c EXCEPT !.dspTask = FALSE, !.appWoken = @ \/ c.dspTask]
WakeWriteWaiters(c) == [c EXCEPT !.wrWaiter = FALSE, !.prodWoken = @ \/ c.wrWaiter]
WakeAll(c) == WakeWriteWaiters(WakeDispatchTask(WakeWriteTask(WakeReadTask(c))))

SetError(c, e) == [c EXCEPT !.err = @ \/ e]

ResumeReadTask(c) == WakeReadTask([c EXCEPT !.rdPaused = FALSE])

\* begin_terminate(): the first call does the teardown, a later one may only
\* make it harsher.
BeginTerminate(c, e, manner) ==
  LET d == SetError(c, e)
      t == [d EXCEPT !.phase = Larger(@, FiltersStopping), !.manner = Larger(@, manner)]
      first == WakeAll([t EXCEPT !.rdReady = TRUE, !.handle = FALSE])
  IN IF IsClosed(c) THEN d ELSE IF IsTerminating(c) THEN t ELSE first

TerminateConnection(c, e) == BeginTerminate(c, e, Terminating)
ForceCloseConnection(c) == [BeginTerminate(c, FALSE, ForceClosed) EXCEPT !.wr = 0]

StopConnection(c) ==
  IF IsClosed(c) THEN c
  ELSE WakeAll([c EXCEPT !.phase = Stopped, !.wr = 0, !.handle = FALSE])

StartShutdown(c) ==
  IF c.phase # Active THEN c
  ELSE WakeWriteTask(WakeReadTask([c EXCEPT !.phase = FiltersStopping]))

\* filters_stopped(), with the error that stop_filters() records.
StopFilters(c, e) ==
  WakeAll([SetError(c, e) EXCEPT !.phase = Larger(@, TransportShutdown)])

EnableWrBackpressure(c) ==
  IF c.wrBp \/ c.wr < c.cfg.wrHigh THEN c ELSE WakeDispatchTask([c EXCEPT !.wrBp = TRUE])

-----------------------------------------------------------------------------
(* Results of transport reads and writes *)

\* process_read_input() after the buffer has grown from orig to c.rd bytes.
ProcessReadInput(c, orig) ==
  LET full == c.rd >= c.cfg.rdHigh
      fed == [c EXCEPT !.filterDone = @ \/ (c.phase = FiltersStopping /\ c.rd > orig)]
      got == IF c.rd > orig
             THEN WakeDispatchTask([fed EXCEPT !.rdReady = TRUE, !.rdPaused = @ \/ full,
                                               !.rdBp = @ \/ full])
             ELSE fed
      notified(d) == IF d.rdNotify THEN WakeDispatchTask([d EXCEPT !.rdNotified = TRUE]) ELSE d
      stopping(d) == IF IsShuttingDownFilters(d) THEN WakeReadTask(d) ELSE d
  IN stopping(notified(got))

\* n bytes were read; 0 is the end of the stream.
ReadBytes(c, n) ==
  IF c.phase >= TransportShutdown THEN [c EXCEPT !.rdEof = @ \/ n = 0]
  ELSE LET kept == IF c.dropped THEN 0 ELSE n
       IN IF n > 0 THEN ProcessReadInput([c EXCEPT !.rd = @ + kept], c.rd)
          ELSE IF c.rdEof THEN c
          ELSE ProcessReadInput(WakeDispatchTask([c EXCEPT !.rdEof = TRUE]), c.rd)

ReadFailed(c) ==
  IF c.phase >= TransportShutdown THEN [c EXCEPT !.rdEof = TRUE]
  ELSE IF c.phase = FiltersStopping THEN StopFilters(c, TRUE)
  ELSE TerminateConnection(c, TRUE)

\* The status of a read that left c behind: read_task_status(), or that of
\* read_failed(), and stopping_read_status() if the read began in the transport
\* shutdown phase.
ReadStatus(before, c, n, failed) ==
  IF before.phase >= TransportShutdown THEN IF n > 0 THEN "Io" ELSE "Pause"
  ELSE IF failed THEN IF before.phase = FiltersStopping THEN "Pause" ELSE "Stop"
  ELSE IF IsAborted(c) THEN "Stop"
  ELSE IF c.phase >= TransportShutdown \/ c.rdEof \/ c.rdPaused \/ c.rdBp THEN "Pause"
  ELSE "Io"

\* The tasks are told once nothing is left to write.
WriteTaskStatus(c) ==
  LET drained(p, phase) == p.wr = 0 /\ p.phase >= phase
      read(p) == IF drained(p, FiltersStopping) THEN WakeReadTask(p) ELSE p
      write(p) == IF drained(p, TransportShutdown) THEN WakeWriteTask(p) ELSE p
  IN IF IsAborted(c) THEN c ELSE write(read([c EXCEPT !.wrPaused = (c.wr = 0)]))

WrLow(c) == c.wrBp /\ c.wr <= WrHalf(c)

\* update_write_status() when c.wr bytes are left to write.
UpdateWriteStatus(c) ==
  LET dispatch(b) == IF (b.wrFlush /\ b.wr = 0) \/ WrLow(b) THEN WakeDispatchTask(b) ELSE b
      waiters(b) == IF WrLow(b) THEN WakeWriteWaiters(b) ELSE b
  IN WriteTaskStatus(waiters(dispatch(EnableWrBackpressure(c))))

WriteStatus(c) == IF IsAborted(c) THEN "Stop" ELSE IF c.wr = 0 THEN "Pause" ELSE "Io"

-----------------------------------------------------------------------------
(* Readiness of the transport: read_readiness() and write_readiness() *)

ReadReadiness(c) ==
  CASE c.manner = ForceClosed -> "Terminate"
    [] c.manner # ForceClosed /\ IsAborted(c) -> "Close"
    [] ~IsAborted(c) /\ (c.rdEof \/ c.phase >= TransportShutdown) -> "Pending"
    [] ~IsAborted(c) /\ ~c.rdEof /\ c.phase = FiltersStopping -> "Ready"
    [] ~IsAborted(c) /\ ~c.rdEof /\ c.phase = Active ->
         IF c.rdPaused \/ c.rdBp THEN "Pending" ELSE "Ready"

\* Mutant: the transport shutdown phase does not wait for the output.
WriteReadinessEarly(c) ==
  CASE c.manner = ForceClosed -> "Terminate"
    [] c.manner # ForceClosed /\ (IsAborted(c) \/ c.phase >= TransportShutdown) -> "Close"
    [] ~IsPeerGone(c) -> IF c.wrPaused THEN "Pending" ELSE "Ready"

WriteReadiness(c) ==
  CASE c.manner = ForceClosed -> "Terminate"
    [] c.manner # ForceClosed /\ IsAborted(c) -> "Close"
    [] ~IsAborted(c) /\ c.phase >= TransportShutdown -> IF c.wr # 0 THEN "Ready" ELSE "Close"
    [] ~IsPeerGone(c) -> IF c.wrPaused THEN "Pending" ELSE "Ready"
=============================================================================
