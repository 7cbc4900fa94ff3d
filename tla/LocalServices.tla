---------------------------- MODULE LocalServices ----------------------------
(***************************************************************************)
(* Services that many callers of one thread share, side by side: a         *)
(* behaviour is about readiness, about callback timers or about the        *)
(* connection pool.                                                        *)
(***************************************************************************)
EXTENDS Readiness, CallbackTimers, ClientPool

VARIABLE part

localVars == <<part, vars, callbackVars, poolVars>>

LocalInit ==
  part \in {"readiness", "callbacks", "pool"} /\ Init /\ CallbackInit /\ PoolInit

InReadiness == part = "readiness" /\ UNCHANGED <<part, callbackVars, poolVars>>
InCallbacks == part = "callbacks" /\ UNCHANGED <<part, vars, poolVars>>
InPool == part = "pool" /\ UNCHANGED <<part, vars, callbackVars>>

LocalNext ==
  (InReadiness /\ Next) \/ (InCallbacks /\ CallbackNext) \/ (InPool /\ PoolNext)

\* The fairness of each in its own behaviours.
LocalFairness ==
  /\ \A t \in Tasks : WF_localVars(InReadiness /\ PollStep(t))
  /\ WF_localVars(InCallbacks /\ DriverStep)
  /\ WF_localVars(InPool /\ SupportTask)
  /\ \A c \in Calls : WF_localVars(InPool /\ Progress(c))

LocalSpec == LocalInit /\ [][LocalNext]_localVars /\ LocalFairness

\* Nobody sleeps through what it waits for.  Readiness: a caller with a pending
\* check is woken by every change that its check depends on
\* (ReadinessScope::check).  ClientPool: while the support task sleeps, no waiter
\* could get a connection (acquire, check_availability, on_capacity).
NobodyForgotten == NoLostWake /\ NoWaiterForgotten

\* Readiness: when the conditions settle and hold, every caller gets an answer
\* (ReadinessScope::check).  ClientPool: a call that waits gets a connection or an
\* error (run_connection_pool, open_connection, stop).
Answered == (part = "readiness" => CallersAnswered) /\ CallsAnswered
=============================================================================
