---------------------------- MODULE ServerWorkers ----------------------------
(***************************************************************************)
(* The worker threads of a server: ntex-server/src/wrk.rs.  A worker runs  *)
(* one service on its own arbiter, takes items from its queue while the    *)
(* service is ready, and reports Available, Unavailable or, once and for   *)
(* all, Failed.  A worker that has failed is started again under the same  *)
(* name; <<w, n>> is the n-th run of the worker w.                         *)
(***************************************************************************)
EXTENDS Naturals, Sequences, FiniteSets, SequencesExt

CONSTANTS
  Workers,     \* names of the workers
  Conns,       \* the items, connections
  NoConn,      \* no item
  Scenarios    \* the configurations and bounds, one of which holds in a behaviour

\* A scenario: the workers of the server; those that a fault may hit; how many
\* panics, failed creations and failed readiness checks happen; how many times a
\* service stops being ready, or a runtime is blocked by a task; how many calls of
\* pause() and stop(), connections and errors of accept() there are; and whether
\* the server is configured to stop when a worker panics.
Scenario ==
  [workers : SUBSET Workers, prone : SUBSET Workers, faults : Nat, stalls : Nat, blocks : Nat,
   pauses : Nat, stops : Nat, arrivals : Nat, errors : Nat, stopOnPanic : BOOLEAN]

ASSUME ServerAssumption ==
  /\ NoConn \notin Conns
  /\ Scenarios \subseteq Scenario
  /\ \E t \in Scenarios : \A u \in Scenarios : u.faults <= t.faults

\* A worker is started once, and once more after each of its faults.
MaxRuns == Max({t.faults : t \in Scenarios})
Runs == Workers \X (0..MaxRuns)

VARIABLES
  wrk,    \* each run: its phase, status, queue and pending stop command
  fate,   \* what became of each connection
  left    \* what may still go wrong, or be asked for

\* Worker::start_with(): the status is Unavailable until the service is created.
Started == [pc |-> "creating", status |-> "Unavailable", news |-> FALSE, open |-> TRUE,
            queue |-> <<>>, call |-> NoConn, stop |-> FALSE, ready |-> TRUE]
Unused == [Started EXCEPT !.pc = "none", !.open = FALSE]

\* Inner::update(): Failed is terminal, and a change is news to the monitor.
SetStatus(r, s) ==
  IF r.status \in {s, "Failed"} THEN r ELSE [r EXCEPT !.status = s, !.news = TRUE]

\* Worker::send() to the run i; it fails when the queue is closed.
IsOpen(i) == wrk[i].open
Sent(ws, i, c) == [ws EXCEPT ![i].queue = Append(@, c)]

\* Worker::take_queued()
Taken(ws, i, close) == [ws EXCEPT ![i].queue = <<>>, ![i].open = @ /\ ~close]

-----------------------------------------------------------------------------
(* ServiceRunner *)

Fault(i) == left.faults > 0 /\ i[1] \in left.prone /\ left' = [left EXCEPT !.faults = @ - 1]
NoFault == UNCHANGED left

\* ServiceRunner::create()
Create(i) ==
  /\ wrk[i].pc = "creating"
  /\ \/ NoFault /\ wrk' = [wrk EXCEPT ![i] = SetStatus([@ EXCEPT !.pc = "run"], "Available")]
     \/ Fault(i) /\ wrk' = [wrk EXCEPT ![i].pc = "ending"]
     \/ wrk[i].stop /\ NoFault /\ wrk' = [wrk EXCEPT ![i].pc = "ending"]
  /\ UNCHANGED fate

\* One poll in ServiceRunner::run(): the service first, then the queue, and the
\* stop command only when neither has anything.
Receive(i) ==
  /\ wrk[i].pc = "run" /\ wrk[i].ready /\ wrk[i].queue # <<>>
  /\ wrk' = [wrk EXCEPT ![i] =
               SetStatus([@ EXCEPT !.pc = "calling", !.call = Head(wrk[i].queue),
                                   !.queue = Tail(wrk[i].queue)], "Available")]
  /\ UNCHANGED <<fate, left>>

CheckReady(i) ==
  LET now == IF wrk[i].ready THEN "Available" ELSE "Unavailable"
  IN /\ wrk[i].pc = "run" /\ ~wrk[i].stop /\ wrk[i].status # now
     /\ wrk' = [wrk EXCEPT ![i] = SetStatus(@, now)]
     /\ UNCHANGED <<fate, left>>

NotReadyAnyMore(i) ==
  /\ wrk[i].pc = "run" /\ Fault(i)
  /\ wrk' = [wrk EXCEPT ![i] = SetStatus([@ EXCEPT !.pc = "recreating"], "Unavailable")]
  /\ UNCHANGED fate

SeesStop(i) ==
  /\ wrk[i].pc = "run" /\ wrk[i].stop /\ (wrk[i].ready => wrk[i].queue = <<>>)
  /\ wrk' = [wrk EXCEPT ![i] = SetStatus([@ EXCEPT !.pc = "stopping"], "Unavailable")]
  /\ UNCHANGED <<fate, left>>

\* The service's call; a panic takes the item and the worker with it.
CallReturns(i) ==
  /\ wrk[i].pc = "calling" /\ NoFault
  /\ wrk' = [wrk EXCEPT ![i].pc = "run", ![i].call = NoConn]
  /\ fate' = [fate EXCEPT ![wrk[i].call] = "served"]

CallPanics(i) ==
  /\ wrk[i].pc = "calling" /\ Fault(i)
  /\ wrk' = [wrk EXCEPT ![i].pc = "ending", ![i].call = NoConn]
  /\ fate' = [fate EXCEPT ![wrk[i].call] = "lost"]

\* The inner loop that creates the service again; it looks for a stop command
\* while it creates, not while it sleeps.
Recreate(i) ==
  /\ \/ /\ wrk[i].pc = "recreating" /\ NoFault
        /\ wrk' = [wrk EXCEPT ![i].pc = "run", ![i].ready = TRUE]
     \/ /\ wrk[i].pc = "recreating" /\ Fault(i)
        /\ wrk' = [wrk EXCEPT ![i].pc = "retrying"]
     \/ /\ wrk[i].pc = "recreating" /\ wrk[i].stop /\ NoFault
        /\ wrk' = [wrk EXCEPT ![i].pc = "ending"]
     \/ /\ wrk[i].pc = "retrying" /\ NoFault
        /\ wrk' = [wrk EXCEPT ![i].pc = "recreating"]
  /\ UNCHANGED fate

\* ServiceRunner::stop(): the service shuts down, or the timeout expires.
Shutdown(i) ==
  /\ wrk[i].pc = "stopping"
  /\ wrk' = [wrk EXCEPT ![i].pc = "ending"]
  /\ UNCHANGED <<fate, left>>

\* The runner is dropped: its end of the queue closes the queue, its end of the
\* status reports the failure, in an order that depends on where it was.
Drop(i) ==
  LET gone(r) == IF r.status = "Failed" /\ ~r.open THEN [r EXCEPT !.pc = "gone", !.stop = FALSE] ELSE r
  IN /\ wrk[i].pc = "ending"
     /\ \/ (wrk[i].open \/ wrk[i].status = "Failed")
           /\ wrk' = [wrk EXCEPT ![i] = gone([@ EXCEPT !.open = FALSE])]
        \/ wrk[i].status # "Failed" /\ wrk' = [wrk EXCEPT ![i] = gone(SetStatus(@, "Failed"))]
     /\ UNCHANGED <<fate, left>>

\* The readiness of the application's service.
Stall(i) ==
  /\ wrk[i].pc \in {"run", "calling"} /\ wrk[i].ready
  /\ left.stalls > 0 /\ i[1] \in left.prone
  /\ wrk' = [wrk EXCEPT ![i].ready = FALSE]
  /\ left' = [left EXCEPT !.stalls = @ - 1]
  /\ UNCHANGED fate

Recover(i) ==
  /\ wrk[i].pc \in {"run", "calling"} /\ ~wrk[i].ready
  /\ wrk' = [wrk EXCEPT ![i].ready = TRUE]
  /\ UNCHANGED <<fate, left>>

\* Everything the worker's thread does by itself, and the faults that may hit it.
WorkerRuns(i) ==
  \/ Create(i) \/ Receive(i) \/ CheckReady(i) \/ SeesStop(i) \/ CallReturns(i)
  \/ Recreate(i) \/ Shutdown(i) \/ Drop(i) \/ Recover(i)
WorkerSuffers(i) == NotReadyAnyMore(i) \/ CallPanics(i) \/ Stall(i)
=============================================================================
