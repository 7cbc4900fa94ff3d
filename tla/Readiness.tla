------------------------------ MODULE Readiness ------------------------------
(***************************************************************************)
(* Cached and shared readiness of services: ntex-service/src/readiness.rs. *)
(*                                                                         *)
(* Scopes form a graph; a notification invalidates its subscribers and     *)
(* their ancestors.  Tasks that want a scope to be ready share one check,  *)
(* which first waits for the scope's children and then for the scope's own *)
(* condition.  One thread polls the tasks: a poll runs through the frames  *)
(* of nested checks, and a notification may come between two polls or from *)
(* inside the future of a check.                                           *)
(***************************************************************************)
EXTENDS Naturals, Sequences, SequencesExt, FiniteSets

CONSTANTS
  Scopes,        \* ScopeInner
  Children,      \* the services a check of a scope awaits, in order
  Sources,       \* ReadyNotifier: sets of scopes subscribed to one source
  Tasks,         \* callers
  Target,        \* the scope each of them wants to be ready
  MaxChanges     \* bound: changes of the conditions

ASSUME ReadinessAssumption ==
  /\ Children \in [Scopes -> Seq(Scopes)] /\ Target \in [Tasks -> Scopes]
  /\ Sources \subseteq SUBSET Scopes
  /\ MaxChanges \in Nat

VARIABLES
  cond,      \* whether the service behind a scope can take a call
  gen,       \* Generation: `value` and `direct`
  ready,     \* the cached result
  checking,  \* a check is in progress
  obs,       \* per scope, the registered observers: <<task, slot>>
  stack,     \* per task, its nested calls of check(), outermost first
  woken,     \* the task is scheduled
  result,    \* per task: "none", "ok", "failed" or "cancelled"
  run,       \* the task being polled, as a set of at most one
  at,        \* the frame it is in
  changes    \* changes of the conditions so far

scopeVars == <<gen, ready, checking, obs>>
pollVars == <<run, at>>
vars == <<cond, scopeVars, stack, woken, result, pollVars, changes>>

Parents(s) == {p \in Scopes : s \in Range(Children[p])}

\* The ancestors of a set of scopes: parents and, through them, their parents.
Above(S) == UNION {Parents(s) : s \in S}
Ancestors(S) ==
  {p \in Scopes : \A U \in SUBSET Scopes : Above(S \cup U) \subseteq U => p \in U}

\* A check awaits services that its own service holds.
ASSUME ScopesAcyclic == \A s \in Scopes : s \notin Ancestors({s})

\* A call of check(): "wait" in its loop, "own" in RunCheck::poll, "fut" inside
\* the future of the check, "pend" when that has returned Pending.  fut 0 means
\* that there is no future, n that it awaits child n or, after the last child,
\* the condition of the scope itself.  An observer slot is <<task, 1>> for the
\* one of check() and <<task, 2>> for the one of RunCheck.
Frame(s) ==
  [scope |-> s, mode |-> "wait", fut |-> 0, snap |-> [value |-> 0, direct |-> 0],
   before |-> 0, restarted |-> FALSE, observer |-> FALSE]

Init ==
  /\ cond \in [Scopes -> BOOLEAN]
  /\ gen = [s \in Scopes |-> [value |-> 0, direct |-> 0]]
  /\ ready = [s \in Scopes |-> FALSE] /\ checking = [s \in Scopes |-> FALSE]
  /\ obs = [s \in Scopes |-> {}]
  /\ stack = [t \in Tasks |-> <<>>] /\ woken = [t \in Tasks |-> FALSE]
  /\ result = [t \in Tasks |-> "none"]
  /\ run = {} /\ at = 0 /\ changes = 0

-----------------------------------------------------------------------------
(* Invalidation *)

\* notify_scope() for the subscribers and, through them, for their ancestors:
\* each is invalidated and its observers are woken.
Invalidate(S) ==
  LET all == S \cup Ancestors(S)
  IN /\ gen' = [s \in Scopes |->
          IF s \in S THEN [value |-> gen[s].value + 1, direct |-> gen[s].value + 1]
          ELSE IF s \in all THEN [gen[s] EXCEPT !.value = @ + 1]
          ELSE gen[s]]
     /\ ready' = [s \in Scopes |-> ready[s] /\ s \notin all]
     /\ woken' = [t \in Tasks |-> woken[t] \/ \E s \in all, n \in 1..2 : <<t, n>> \in obs[s]]
     /\ obs' = [s \in Scopes |-> IF s \in all THEN {} ELSE obs[s]]

\* User code runs between polls and inside the futures of the checks.
Outside == \A t \in run : stack[t][at].mode = "fut"

\* A service's condition changes and its source notifies, before any other
\* caller can use the cache.
Change(s, S) ==
  /\ Outside /\ changes < MaxChanges /\ s \in S
  /\ cond' = [cond EXCEPT ![s] = ~@] /\ changes' = changes + 1
  /\ Invalidate(S)
  /\ UNCHANGED <<checking, stack, result, pollVars>>

-----------------------------------------------------------------------------
(* One poll of a task *)

Begin(t) ==
  /\ run = {} /\ stack[t] = <<>> /\ result[t] = "none"
  /\ stack' = [stack EXCEPT ![t] = <<Frame(Target[t])>>]
  /\ run' = {t} /\ at' = 1
  /\ UNCHANGED <<cond, scopeVars, woken, result, changes>>

Poll(t) ==
  /\ run = {} /\ woken[t] /\ stack[t] # <<>>
  /\ woken' = [woken EXCEPT ![t] = FALSE]
  /\ run' = {t} /\ at' = 1
  /\ UNCHANGED <<cond, scopeVars, stack, result, changes>>

In(t, mode) == run = {t} /\ stack[t][at].mode = mode
Top(t) == stack[t][at]
SetTop(t, f) == stack' = [stack EXCEPT ![t][at] = f]

\* The frame, now f, returns Pending to the future below, or ends the poll.
ReturnPending(t, f) ==
  \/ /\ at = 1
     /\ SetTop(t, f)
     /\ run' = {} /\ at' = 0
  \/ /\ at > 1
     /\ stack' = [stack EXCEPT ![t] = [@ EXCEPT ![at] = f, ![at - 1].mode = "pend"]]
     /\ at' = at - 1 /\ UNCHANGED run

\* check() finds a cached success and returns it to the future below.
CheckReturns(t) ==
  LET s == Top(t).scope
  IN /\ In(t, "wait") /\ ready[s]
     /\ obs' = [obs EXCEPT ![s] = @ \ {<<t, 1>>}]
     /\ \/ /\ at = 1
           /\ stack' = [stack EXCEPT ![t] = <<>>] /\ result' = [result EXCEPT ![t] = "ok"]
           /\ run' = {} /\ at' = 0
        \/ /\ at > 1
           /\ stack' = [stack EXCEPT ![t] = [Front(stack[t]) EXCEPT ![at - 1].fut = @ + 1]]
           /\ at' = at - 1 /\ UNCHANGED <<result, run>>
     /\ UNCHANGED <<cond, gen, ready, checking, woken, changes>>

\* It joins the check of another caller.
CheckJoins(t) ==
  LET s == Top(t).scope
  IN /\ In(t, "wait") /\ ~ready[s] /\ checking[s]
     /\ obs' = [obs EXCEPT ![s] = @ \cup {<<t, 1>>}]
     /\ ReturnPending(t, Top(t))
     /\ UNCHANGED <<cond, gen, ready, checking, woken, result, changes>>

\* It becomes the owner of the check.
CheckOwns(t) ==
  LET s == Top(t).scope
  IN /\ In(t, "wait") /\ ~ready[s] /\ ~checking[s]
     /\ obs' = [obs EXCEPT ![s] = @ \cup {<<t, 1>>}]
     /\ checking' = [checking EXCEPT ![s] = TRUE]
     /\ SetTop(t, [Top(t) EXCEPT !.mode = "own"])
     /\ UNCHANGED <<cond, gen, ready, woken, result, pollVars, changes>>

\* What dropping the frames `dead` of task t does: ownership is released, which
\* wakes the other callers, and the observer slots are removed.
Dropped(t, dead) ==
  LET owned == {f.scope : f \in {g \in dead : g.mode # "wait"}}
      scopes == {f.scope : f \in dead}
  IN /\ checking' = [s \in Scopes |-> checking[s] /\ s \notin owned]
     /\ woken' = [u \in Tasks |-> woken[u] \/ \E s \in owned : <<u, 1>> \in obs[s]]
     /\ obs' = [s \in Scopes |-> IF s \in owned THEN {}
                                 ELSE IF s \in scopes THEN obs[s] \ {<<t, 1>>}
                                 ELSE obs[s]]

\* RunCheck::poll up to the poll of its future, which it creates if need be.
CheckPolls(t) ==
  LET f == Top(t)
      s == f.scope
  IN /\ In(t, "own") /\ (f.fut = 0 \/ gen[s].direct = f.snap.direct)
     /\ obs' = [obs EXCEPT ![s] = IF f.observer THEN @ \cup {<<t, 2>>} ELSE @]
     /\ SetTop(t, [f EXCEPT !.mode = "fut", !.before = gen[s].value,
                            !.fut = IF @ = 0 THEN 1 ELSE @,
                            !.snap = IF f.fut = 0 THEN gen[s] ELSE @])
     /\ UNCHANGED <<cond, gen, ready, checking, woken, result, pollVars, changes>>

\* A direct invalidation replaces the future, which is dropped with the calls of
\* check() it is in.  Only the first turn of the loop in a poll can find one.
CheckReplaced(t) ==
  LET f == Top(t)
      dead == {stack[t][i] : i \in (at + 1)..Len(stack[t])}
  IN /\ In(t, "own") /\ f.fut # 0 /\ gen[f.scope].direct # f.snap.direct
     /\ Dropped(t, dead)
     /\ stack' = [stack EXCEPT ![t] = Append(SubSeq(@, 1, at - 1),
                                             [f EXCEPT !.fut = 0, !.restarted = TRUE])]
     /\ UNCHANGED <<cond, gen, ready, result, pollVars, changes>>

\* The future awaits a child, in a new call of check() or in the one it is in.
AwaitChild(t) ==
  LET f == Top(t)
  IN /\ In(t, "fut") /\ f.fut <= Len(Children[f.scope])
     /\ stack' = IF at < Len(stack[t]) THEN stack
                 ELSE [stack EXCEPT ![t] = Append(@, Frame(Children[f.scope][f.fut]))]
     /\ at' = at + 1
     /\ UNCHANGED <<cond, scopeVars, woken, result, run, changes>>

\* Its children are ready; the future looks at the service's own condition.
OwnCondition(t) == In(t, "fut") /\ Top(t).fut > Len(Children[Top(t).scope])

\* Mutant: a success is cached whatever happened since the check began.
CheckDoneStale(t) ==
  LET f == Top(t)
      s == f.scope
  IN /\ OwnCondition(t) /\ cond[s]
     /\ ready' = [ready EXCEPT ![s] = TRUE] /\ checking' = [checking EXCEPT ![s] = FALSE]
     /\ woken' = [u \in Tasks |-> woken[u] \/ <<u, 1>> \in obs[s]]
     /\ obs' = [obs EXCEPT ![s] = {}]
     /\ SetTop(t, Frame(s))
     /\ UNCHANGED <<cond, gen, result, pollVars, changes>>

\* The check has succeeded and nothing has changed since it began: the result
\* is cached, ownership is released, and the loop of check() starts over.
CheckDone(t) ==
  LET f == Top(t)
      s == f.scope
  IN /\ OwnCondition(t) /\ cond[s] /\ gen[s] = f.snap
     /\ ready' = [ready EXCEPT ![s] = TRUE] /\ checking' = [checking EXCEPT ![s] = FALSE]
     /\ woken' = [u \in Tasks |-> woken[u] \/ <<u, 1>> \in obs[s]]
     /\ obs' = [obs EXCEPT ![s] = {}]
     /\ SetTop(t, Frame(s))
     /\ UNCHANGED <<cond, gen, result, pollVars, changes>>

\* Mutant: a stale success is looked at again, its future and snapshot are kept.
CheckStaleKept(t) ==
  LET f == Top(t)
      s == f.scope
      again == [f EXCEPT !.mode = "own", !.observer = FALSE,
                         !.restarted = ~f.restarted]
  IN /\ OwnCondition(t) /\ cond[s] /\ gen[s] # f.snap
     /\ obs' = [obs EXCEPT ![s] = @ \ {<<t, 2>>}]
     /\ \/ /\ f.restarted
           /\ woken' = [woken EXCEPT ![t] = TRUE]
           /\ ReturnPending(t, again)
        \/ /\ ~f.restarted
           /\ SetTop(t, again)
           /\ UNCHANGED <<woken, pollVars>>
     /\ UNCHANGED <<cond, gen, ready, checking, result, changes>>

\* A stale success is checked again, at once or, the second time, after yielding.
CheckStale(t) ==
  LET f == Top(t)
      s == f.scope
      again == [f EXCEPT !.mode = "own", !.fut = 0, !.observer = FALSE,
                         !.restarted = ~f.restarted]
  IN /\ OwnCondition(t) /\ cond[s] /\ gen[s] # f.snap
     /\ obs' = [obs EXCEPT ![s] = @ \ {<<t, 2>>}]
     /\ \/ /\ f.restarted
           /\ woken' = [woken EXCEPT ![t] = TRUE]
           /\ ReturnPending(t, again)
        \/ /\ ~f.restarted
           /\ SetTop(t, again)
           /\ UNCHANGED <<woken, pollVars>>
     /\ UNCHANGED <<cond, gen, ready, checking, result, changes>>

\* The condition does not hold: the future is pending.
ConditionPending(t) ==
  /\ OwnCondition(t) /\ ~cond[Top(t).scope]
  /\ SetTop(t, [Top(t) EXCEPT !.mode = "pend"])
  /\ UNCHANGED <<cond, scopeVars, woken, result, pollVars, changes>>

\* Mutant: the notifications that came during the poll are not looked for.
CheckPendingBlind(t) ==
  LET f == Top(t)
  IN /\ In(t, "pend")
     /\ obs' = [obs EXCEPT ![f.scope] = @ \cup {<<t, 2>>}]
     /\ ReturnPending(t, [f EXCEPT !.mode = "own", !.observer = TRUE, !.restarted = FALSE])
     /\ UNCHANGED <<cond, gen, ready, checking, woken, result, changes>>

\* RunCheck::poll registers before it returns Pending, and wakes itself if a
\* notification came before that.
CheckPending(t) ==
  LET f == Top(t)
      s == f.scope
  IN /\ In(t, "pend")
     /\ obs' = [obs EXCEPT ![s] = @ \cup {<<t, 2>>}]
     /\ woken' = [woken EXCEPT ![t] = @ \/ gen[s].value # f.before]
     /\ ReturnPending(t, [f EXCEPT !.mode = "own", !.observer = TRUE, !.restarted = FALSE])
     /\ UNCHANGED <<cond, gen, ready, checking, result, changes>>

\* The service fails: the error ends every check the task is in.
CheckFails(t) ==
  /\ OwnCondition(t)
  /\ Dropped(t, Range(stack[t]))
  /\ stack' = [stack EXCEPT ![t] = <<>>] /\ result' = [result EXCEPT ![t] = "failed"]
  /\ run' = {} /\ at' = 0
  /\ UNCHANGED <<cond, gen, ready, changes>>

\* The caller drops the future between two polls.
Cancel(t) ==
  /\ run = {} /\ stack[t] # <<>>
  /\ Dropped(t, Range(stack[t]))
  /\ stack' = [stack EXCEPT ![t] = <<>>] /\ result' = [result EXCEPT ![t] = "cancelled"]
  /\ UNCHANGED <<cond, gen, ready, pollVars, changes>>

\* What the executor and the code of check() do by themselves.
PollStep(t) ==
  \/ Begin(t) \/ Poll(t)
  \/ CheckReturns(t) \/ CheckJoins(t) \/ CheckOwns(t)
  \/ CheckPolls(t) \/ CheckReplaced(t) \/ AwaitChild(t)
  \/ CheckDone(t) \/ CheckStale(t) \/ ConditionPending(t) \/ CheckPending(t)

Next ==
  \/ \E t \in Tasks : PollStep(t) \/ CheckFails(t) \/ Cancel(t)
  \/ \E S \in Sources : \E s \in S : Change(s, S)

\* The executor polls a task that is woken, and a poll runs to its end.
Fairness == \A t \in Tasks : WF_vars(PollStep(t))

Spec == Init /\ [][Next]_vars /\ Fairness

-----------------------------------------------------------------------------
(* Properties *)

Frames(t) == Range(stack[t])
Owns(t, s) == \E f \in Frames(t) : f.scope = s /\ f.mode # "wait"

\* The type invariant; `at` is a frame of the task that is polled.
TypeOK ==
  /\ cond \in [Scopes -> BOOLEAN] /\ ready \in [Scopes -> BOOLEAN]
  /\ checking \in [Scopes -> BOOLEAN] /\ woken \in [Tasks -> BOOLEAN]
  /\ \A s \in Scopes : gen[s].value \in 0..MaxChanges /\ gen[s].direct \in 0..gen[s].value
  /\ obs \in [Scopes -> SUBSET (Tasks \X {1, 2})]
  /\ result \in [Tasks -> {"none", "ok", "failed", "cancelled"}]
  /\ run \subseteq Tasks /\ Cardinality(run) <= 1 /\ changes \in 0..MaxChanges
  /\ \A t \in Tasks : t \in run => at \in 1..Len(stack[t])
  /\ run = {} => at = 0

\* set_ready() caches a success only for an unchanged generation: whatever
\* changed while a check was suspended, a cached success of a scope means that
\* its own service and all that it depends on can take a call.
CacheValid ==
  \A s \in Scopes : ready[s] => \A d \in Scopes : (d = s \/ s \in Ancestors({d})) => cond[d]

\* A task that sleeps has registered with everything that may make it proceed:
\* a caller that joined a check is registered with its outcome and the check is
\* still run by another; an owner is registered with each scope it checks, no
\* direct invalidation is left unseen, and the innermost condition is false.
NoLostWake ==
  \A t \in Tasks : run = {} /\ stack[t] # <<>> /\ ~woken[t] =>
    LET top == Last(stack[t])
    IN /\ \A f \in Frames(t) : f.mode = "own" =>
            <<t, 2>> \in obs[f.scope] /\ gen[f.scope].direct = f.snap.direct
       /\ top.mode = "wait" =>
            /\ <<t, 1>> \in obs[top.scope]
            /\ \E u \in Tasks \ {t} : Owns(u, top.scope)
       /\ top.mode = "own" => ~cond[top.scope]

\* When the conditions settle and hold, every caller gets an answer: no order of
\* joins, invalidations and cancellations leaves it waiting.
CallersAnswered ==
  \A t \in Tasks : (<>[](\A s \in Scopes : cond[s])) => <>(result[t] # "none")
=============================================================================
