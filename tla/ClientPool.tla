----------------------------- MODULE ClientPool -----------------------------
(***************************************************************************)
(* The connection pool of the HTTP client: ntex/src/client/pool.rs, with   *)
(* the hand-back of connections in connection.rs and h1proto.rs and the    *)
(* shared connections of h2proto.rs.                                       *)
(*                                                                         *)
(* Everything runs on one thread.  A call either gets a connection at      *)
(* once, or has one opened by a task of its own, or queues; what it waits  *)
(* for comes through a one-shot channel that it may drop.  The support     *)
(* task of the pool serves the queues in one poll, of several steps here   *)
(* (`scan`), with nothing else in between.                                 *)
(*                                                                         *)
(* Idle HTTP/1 connections have no identity: how long they idle, what has  *)
(* arrived on them and whether their peer has gone is decided when they    *)
(* are looked at.                                                          *)
(***************************************************************************)
EXTENDS Naturals, Sequences, FiniteSets, SequencesExt

CONSTANTS
  Calls,      \* callers of the pool, one request each
  Hosts,      \* the keys
  Shared,     \* identities of HTTP/2 connections
  H1Limit,    \* h1_connection_limit(), zero for none
  H2Limit,    \* h2_connection_limit(), zero for none
  MaxStreams  \* streams of a HTTP/2 connection

VARIABLES
  host,       \* where each call wants to go
  pc,         \* new, waiting, delivered, using, over; gone: its future is dropped
  has,        \* the connection that a call has, or that is in its channel
  opening,    \* the calls whose open_connection() task runs
  stopped, acquired, available, h2, connecting, waiters,   \* Inner and Waiters
  peer,       \* HTTP/2 connections: open, refusing new streams, closed
  streams,    \* their open and reserved streams
  token,      \* the value of `waker`
  scan        \* the hosts that this poll of the support task has still to look at

poolVars ==
  <<host, pc, has, opening, stopped, acquired, available, h2, connecting, waiters, peer,
    streams, token, scan>>

None == "none"
Plain == "h1"

ASSUME PoolAssumption ==
  /\ IsFiniteSet(Hosts) /\ None \notin Shared /\ Plain \notin Shared
  /\ H1Limit \in Nat /\ H2Limit \in Nat /\ MaxStreams \in Nat \ {0}

PoolInit ==
  /\ host \in [Calls -> Hosts]
  /\ pc = [c \in Calls |-> "new"] /\ has = [c \in Calls |-> None]
  /\ opening = {} /\ stopped = FALSE /\ acquired = 0
  /\ available = [k \in Hosts |-> 0] /\ h2 = [k \in Hosts |-> {}]
  /\ connecting = {} /\ waiters = [k \in Hosts |-> <<>>]
  /\ peer = [s \in Shared |-> "closed"] /\ streams = [s \in Shared |-> 0]
  /\ token = FALSE /\ scan = <<>>

\* The support task is not in the middle of its poll.
Quiet == scan = <<>>

-----------------------------------------------------------------------------
(* Inner::acquire(), as the set of its outcomes: the connection, whether one    *)
(* may be opened, and what is left of the pooled connections of the host.      *)

Outcome(conn, open, idle, pooled) ==
  [conn |-> conn, open |-> open, idle |-> idle, pooled |-> pooled]

\* Closed connections are removed, and those whose lifetime or idle time is over.
Unexpired(k) ==
  LET live == {s \in h2[k] : peer[s] # "closed"}
  IN {live \ expired : expired \in SUBSET live}

\* H2Client::has_capacity(): the smaller of the limits of peer and configuration.
HasCapacity(s) == streams[s] < MaxStreams

\* The least loaded connection; those that turn out to refuse are removed.
Begins(S) ==
  LET fit == {s \in S : HasCapacity(s)}
      able == {s \in fit : peer[s] = "open"}
      least == Min({streams[s] : s \in able})
      tried == {r \in fit \ able : streams[r] < least}
      level == {r \in fit \ able : streams[r] = least}
  IN IF able = {} THEN {[conn |-> None, left |-> S \ fit]}
     ELSE {[conn |-> s, left |-> S \ (tried \cup t)] :
             s \in {x \in able : streams[x] = least}, t \in SUBSET level}

Saturated(k, S) ==
  S # {} /\ ((H2Limit > 0 /\ Cardinality(S) >= H2Limit) \/ k \in connecting)
AtLimit == H1Limit > 0 /\ acquired >= H1Limit

\* Connections from the back of the queue that have expired, are closed or have
\* unexpected input are thrown away.
TakesIdle(k, S) ==
  {Outcome(Plain, FALSE, n - 1, S) : n \in 1..available[k]}
    \cup {Outcome(None, k \notin connecting, 0, S)}

Acquire(k) ==
  UNION {UNION {CASE b.conn # None -> {Outcome(b.conn, FALSE, available[k], b.left)}
                  [] b.conn = None /\ (Saturated(k, b.left) \/ AtLimit) ->
                       {Outcome(None, FALSE, available[k], b.left)}
                  [] OTHER -> TakesIdle(k, b.left)
                : b \in Begins(S)} : S \in Unexpired(k)}

-----------------------------------------------------------------------------
(* check_availability() *)

\* Waiters::cleanup(): waiters that are gone are removed from the front.
Cleaned(q) ==
  LET alive == {i \in DOMAIN q : pc[q[i]] # "gone"}
  IN IF alive = {} THEN <<>> ELSE SubSeq(q, Min(alive), Len(q))
AnyWaiter(w) == \E k \in Hosts : w[k] # <<>>

CheckAvailability ==
  /\ waiters' = [k \in Hosts |-> Cleaned(waiters[k])]
  /\ token' = (token \/ AnyWaiter(waiters'))

\* on_capacity() of a HTTP/2 connection.
OnCapacity == token' = (token \/ AnyWaiter(waiters)) /\ UNCHANGED waiters

-----------------------------------------------------------------------------
(* What an outcome of acquire() does for a call *)

Closed(S) == [s \in Shared |-> IF s \in S THEN "closed" ELSE peer[s]]

Taken(k, r) ==
  /\ available' = [available EXCEPT ![k] = r.idle]
  /\ h2' = [h2 EXCEPT ![k] = r.pooled]
  /\ peer' = Closed(h2[k] \ r.pooled)
  /\ streams' = IF r.conn \in Shared THEN [streams EXCEPT ![r.conn] = @ + 1] ELSE streams
  /\ acquired' = IF r.conn = Plain THEN acquired + 1 ELSE acquired

\* acquired() for the caller itself or through its channel.
Grant(c, r, at) ==
  /\ r.conn # None
  /\ pc' = [pc EXCEPT ![c] = at] /\ has' = [has EXCEPT ![c] = r.conn]
  /\ UNCHANGED <<opening, connecting>>

\* open_connection(), OpenGuard::new()
Open(c, r) ==
  /\ r.conn = None /\ r.open
  /\ pc' = [pc EXCEPT ![c] = "waiting"]
  /\ opening' = opening \cup {c} /\ connecting' = connecting \cup {host[c]}
  /\ UNCHANGED has

\* ConnectionPool::call()
Call(c) ==
  /\ Quiet /\ pc[c] = "new" /\ ~stopped
  /\ \E r \in Acquire(host[c]) :
       /\ Taken(host[c], r)
       /\ \/ (Grant(c, r, "using") \/ Open(c, r)) /\ UNCHANGED waiters
          \/ /\ r.conn = None /\ ~r.open
             /\ waiters' = [waiters EXCEPT ![host[c]] = Append(@, c)]
             /\ pc' = [pc EXCEPT ![c] = "waiting"]
             /\ UNCHANGED <<has, opening, connecting>>
  /\ UNCHANGED <<host, stopped, token, scan>>

CallStopped(c) ==
  /\ Quiet /\ pc[c] = "new" /\ stopped
  /\ pc' = [pc EXCEPT ![c] = "over"]
  /\ UNCHANGED <<host, has, opening, stopped, acquired, available, h2, connecting, waiters,
                 peer, streams, token, scan>>

-----------------------------------------------------------------------------
(* run_connection_pool() *)

\* The select: the task ends when the pool is stopped, else it looks at all queues.
PoolWakes ==
  /\ Quiet /\ token /\ ~stopped
  /\ token' = FALSE
  /\ scan' \in SetToSeqs({k \in Hosts : waiters[k] # <<>>})
  /\ UNCHANGED <<host, pc, has, opening, stopped, acquired, available, h2, connecting, waiters,
                 peer, streams>>

Pop(k) == waiters' = [waiters EXCEPT ![k] = Tail(@)]

\* One turn of the loop over the waiters of a host.
PoolTurn ==
  /\ ~Quiet
  /\ LET k == Head(scan)
     IN \/ /\ waiters[k] = <<>>
           /\ scan' = Tail(scan)
           /\ UNCHANGED <<pc, has, opening, acquired, available, h2, connecting, waiters, peer, streams>>
        \/ /\ waiters[k] # <<>> /\ pc[Head(waiters[k])] = "gone"
           /\ Pop(k)
           /\ UNCHANGED <<pc, has, opening, acquired, available, h2, connecting, peer, streams, scan>>
        \/ /\ waiters[k] # <<>> /\ pc[Head(waiters[k])] # "gone"
           /\ \E r \in Acquire(k) :
                /\ Taken(k, r)
                /\ \/ /\ Grant(Head(waiters[k]), r, "delivered") \/ Open(Head(waiters[k]), r)
                      /\ Pop(k) /\ UNCHANGED scan
                   \/ /\ r.conn = None /\ ~r.open
                      /\ scan' = Tail(scan)
                      /\ UNCHANGED <<pc, has, opening, connecting, waiters>>
  /\ UNCHANGED <<host, stopped, token>>

-----------------------------------------------------------------------------
(* The task of open_connection(): its guard goes when it ends *)

\* Mutant: waiters for the host are not looked at when an attempt is over.
EndOpenSilent(c) ==
  /\ Quiet /\ c \in opening
  /\ opening' = opening \ {c} /\ connecting' = connecting \ {host[c]}
  /\ UNCHANGED <<waiters, token>>
  /\ UNCHANGED <<host, stopped, scan>>

EndOpen(c) ==
  /\ Quiet /\ c \in opening
  /\ opening' = opening \ {c} /\ connecting' = connecting \ {host[c]}
  /\ CheckAvailability
  /\ UNCHANGED <<host, stopped, scan>>

\* Sender::send(), or the drop of the sender when there is nothing to send; the
\* answer is lost when the receiver has gone.
SendAnswer(c, x) ==
  IF pc[c] = "waiting"
  THEN pc' = [pc EXCEPT ![c] = "delivered"] /\ has' = [has EXCEPT ![c] = x]
  ELSE UNCHANGED <<pc, has>>

\* The attempt fails, or succeeds after the pool has been stopped.
OpenFails(c) ==
  /\ EndOpen(c) /\ SendAnswer(c, None)
  /\ UNCHANGED <<acquired, available, h2, peer, streams>>

\* OpenGuard::consume(): the connection counts from now on.  If the caller is gone
\* it is put back, unless it has been closed already.
OpensPlain(c) ==
  /\ ~stopped /\ EndOpen(c) /\ SendAnswer(c, Plain)
  /\ \/ /\ pc[c] = "waiting"
        /\ acquired' = acquired + 1 /\ UNCHANGED available
     \/ /\ pc[c] = "gone" /\ UNCHANGED acquired
        /\ \E n \in {0, 1} : available' = [available EXCEPT ![host[c]] = @ + n]
  /\ UNCHANGED <<h2, peer, streams>>

\* An identity that is not in use; which one makes no difference.
Unused ==
  LET free == {s \in Shared : streams[s] = 0 /\ \A k \in Hosts : s \notin h2[k]}
  IN IF free = {} THEN {} ELSE {CHOOSE s \in free : TRUE}

\* add_h2_client(): its first stream is for the caller, unless the peer refuses.
OpensShared(c) ==
  /\ ~stopped /\ EndOpen(c)
  /\ \E s \in Unused, p \in {"open", "refusing"} :
       /\ h2' = [h2 EXCEPT ![host[c]] = @ \cup {s}]
       /\ peer' = [peer EXCEPT ![s] = p]
       /\ streams' = [streams EXCEPT ![s] = IF p = "open" /\ pc[c] = "waiting" THEN 1 ELSE 0]
       /\ SendAnswer(c, IF p = "open" THEN s ELSE None)
  /\ UNCHANGED <<acquired, available>>

-----------------------------------------------------------------------------
(* The caller *)

Receive(c) ==
  /\ Quiet /\ pc[c] = "delivered"
  /\ pc' = [pc EXCEPT ![c] = IF has[c] = None THEN "over" ELSE "using"]
  /\ UNCHANGED <<host, has, opening, stopped, acquired, available, h2, connecting, waiters,
                 peer, streams, token, scan>>

\* Mutant: only a connection that is put back stops counting.
ReturnPlainLeaks(k, reusable) ==
  /\ acquired' = IF reusable THEN acquired - 1 ELSE acquired
  /\ available' = [available EXCEPT ![k] = IF reusable /\ ~stopped THEN @ + 1 ELSE @]
  /\ CheckAvailability
  /\ UNCHANGED streams

\* Connection::release(), Drop for Acquired; a connection that is not returned, or
\* that the peer has closed, or that has input left, is closed.
ReturnPlain(k, reusable) ==
  /\ acquired' = acquired - 1
  /\ available' = [available EXCEPT ![k] = IF reusable /\ ~stopped THEN @ + 1 ELSE @]
  /\ CheckAvailability
  /\ UNCHANGED streams

\* The reservation or the stream of a request goes.
ReturnStream(s) ==
  /\ streams' = [streams EXCEPT ![s] = @ - 1]
  /\ OnCapacity
  /\ UNCHANGED <<acquired, available>>

GiveBack(c, reusable) ==
  /\ has' = [has EXCEPT ![c] = None]
  /\ \/ has[c] = Plain /\ ReturnPlain(host[c], reusable)
     \/ has[c] \in Shared /\ ~reusable /\ ReturnStream(has[c])
     \/ /\ has[c] = None /\ ~reusable
        /\ UNCHANGED <<acquired, available, waiters, streams, token>>

\* The request ends: the response has been read to its end, or the request fails,
\* times out or is dropped on the way.
Finish(c) ==
  /\ Quiet /\ pc[c] = "using"
  /\ pc' = [pc EXCEPT ![c] = "over"]
  /\ \E reusable \in BOOLEAN : GiveBack(c, reusable)
  /\ UNCHANGED <<host, opening, stopped, h2, connecting, peer, scan>>

\* The future of the call is dropped, with what is in its channel.
GiveUp(c) ==
  /\ Quiet /\ pc[c] \in {"waiting", "delivered"}
  /\ pc' = [pc EXCEPT ![c] = "gone"]
  /\ GiveBack(c, FALSE)
  /\ UNCHANGED <<host, opening, stopped, h2, connecting, peer, scan>>

-----------------------------------------------------------------------------
\* The peer of a HTTP/2 connection sends GOAWAY or closes.
PeerRefuses(s) ==
  /\ Quiet /\ peer[s] = "open" /\ \E k \in Hosts : s \in h2[k]
  /\ peer' = [peer EXCEPT ![s] = "refusing"]
  /\ UNCHANGED <<host, pc, has, opening, stopped, acquired, available, h2, connecting, waiters,
                 streams, token, scan>>

PeerCloses(s) ==
  /\ Quiet /\ peer[s] # "closed" /\ \E k \in Hosts : s \in h2[k]
  /\ peer' = [peer EXCEPT ![s] = "closed"]
  /\ OnCapacity
  /\ UNCHANGED <<host, pc, has, opening, stopped, acquired, available, h2, connecting,
                 streams, scan>>

\* Inner::stop(), by shutdown() or the drop of the last clone: waiters lose their
\* senders, pooled connections are closed, the support task ends.
Stop ==
  /\ Quiet /\ ~stopped /\ stopped' = TRUE
  /\ LET queued == UNION {Range(waiters[k]) : k \in Hosts}
     IN pc' = [c \in Calls |-> IF c \in queued /\ pc[c] = "waiting" THEN "delivered" ELSE pc[c]]
  /\ waiters' = [k \in Hosts |-> <<>>]
  /\ available' = [k \in Hosts |-> 0] /\ h2' = [k \in Hosts |-> {}]
  /\ peer' = Closed(UNION {h2[k] : k \in Hosts})
  /\ token' = TRUE
  /\ UNCHANGED <<host, has, opening, acquired, connecting, streams, scan>>

-----------------------------------------------------------------------------
SupportTask == PoolWakes \/ PoolTurn
OpenTask(c) == OpenFails(c) \/ OpensPlain(c) \/ OpensShared(c)
Progress(c) == OpenTask(c) \/ Receive(c) \/ Finish(c)

PoolNext ==
  \/ SupportTask \/ Stop
  \/ \E c \in Calls : \/ Call(c) \/ CallStopped(c) \/ Progress(c) \/ GiveUp(c)
  \/ \E s \in Shared : PeerRefuses(s) \/ PeerCloses(s)

\* The support task runs when it is woken, attempts to connect end (the connector
\* has a timeout), callers take their answers and requests come to an end.
\* Nothing obliges peers to close or anybody to stop the pool or give up.
PoolFairness ==
  WF_poolVars(SupportTask) /\ \A c \in Calls : WF_poolVars(Progress(c))

PoolSpec == PoolInit /\ [][PoolNext]_poolVars /\ PoolFairness

-----------------------------------------------------------------------------
(* Properties *)

\* acquire() would give a waiter of the host nothing: its HTTP/2 connections are
\* in full use, and they are as many as it may have, or the pool is at its limit,
\* or there is no idle connection and one is being opened, whose end wakes the
\* support task.  The last case is a connection that expired under its requests:
\* there is room for another, but only their end wakes the task.
Blocked(k) ==
  LET busy == {s \in h2[k] : peer[s] # "closed"}
  IN /\ \A s \in busy : streams[s] = MaxStreams
     /\ \/ Saturated(k, busy) \/ AtLimit
        \/ available[k] = 0 /\ k \in connecting
        \/ \E c \in Calls : host[c] = k /\ has[c] \in Shared /\ peer[has[c]] = "closed"

\* Whenever the support task sleeps, no waiter could be served, or somebody has a
\* connection to its host whose return wakes the task (acquire,
\* check_availability, on_capacity).
NoWaiterForgotten ==
  Quiet /\ ~token /\ ~stopped =>
    \A k \in Hosts : (\E i \in DOMAIN waiters[k] : pc[waiters[k][i]] # "gone") => Blocked(k)

\* A call that waits is answered: with a connection, an error of its attempt, or
\* that the pool is stopped (call, run_connection_pool, open_connection, stop).
CallsAnswered == \A c \in Calls : pc[c] = "waiting" ~> pc[c] # "waiting"

\* The limit of connections holds for what is in use together with what is being
\* opened, over all hosts (acquire).
LimitCountsOpening ==
  H1Limit > 0 => Cardinality({c \in Calls : has[c] = Plain}) + Cardinality(opening) <= H1Limit
=============================================================================
