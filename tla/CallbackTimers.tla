--------------------------- MODULE CallbackTimers ---------------------------
(***************************************************************************)
(* Reusable callback timers: ntex-util/src/time/callbacks.rs and the       *)
(* delivery loop of TimerDriver::poll in ntex-util/src/time/wheel.rs.      *)
(*                                                                         *)
(* Expired callbacks are taken out of the wheel as a batch of tickets and  *)
(* invoked one after the other; an invocation may reset, cancel, drop and  *)
(* create timers, stop the runtime, or panic.  The wheel has the levels    *)
(* and buckets of WheelLevels; the clock moves from one deadline to the    *)
(* next, how the driver waits for them is the subject of TimerWheel.       *)
(***************************************************************************)
EXTENDS WheelLevels, Sequences, SequencesExt

CONSTANTS
  Keys,     \* slots of the slab of timers, reused after a drop
  Starts,   \* where the clock of a wheel in use may be
  Deltas,   \* delays in units
  MaxOps,   \* bound: operations on the handles
  MaxResets \* bound: resets of the wheel

ASSUME CallbackAssumption == IsFiniteSet(Keys) /\ Starts \subseteq Nat /\ Deltas \subseteq Nat

VARIABLES
  generation, \* Timer::generation
  clk,      \* Timer::elapsed
  next,     \* Timer::next_expiry
  slot,     \* per slot, its bucket and the expiry of that, or Out
  handle,   \* per slot, the identity of its CallbackState, 0 if there is none
  ids,      \* identities given out
  arm,      \* CallbackState::arm per slot, and the ticket's in `entries`
  pending,  \* CallbackState::pending per slot
  tgen,     \* CallbackTicket::generation per slot
  dgen,     \* generation of the driver that is polled
  batch,    \* tickets that its poll still has to look at
  active,   \* the callback is being invoked
  ops       \* operations so far

wheelVars == <<clk, next, slot>>
callbackVars ==
  <<generation, wheelVars, handle, ids, arm, pending, tgen, dgen, batch, active, ops>>

Alive(k) == handle[k] # 0
Out == [place |-> [lvl |-> -1, off |-> 0], expiry |-> Never]
InWheel(k) == slot[k] # Out
Armed == {k \in Keys : InWheel(k)}

\* Weak<CallbackState> is the identity of the state, not the slot.
Ticket(k) == [key |-> k, id |-> handle[k], arm |-> arm[k], gen |-> tgen[k]]

CallbackInit ==
  /\ generation = 0 /\ dgen = 0 /\ ids = 0 /\ ops = 0
  /\ clk \in Starts /\ next = Never /\ slot = [k \in Keys |-> Out]
  /\ handle = [k \in Keys |-> 0]
  /\ arm = [k \in Keys |-> 0] /\ pending = [k \in Keys |-> FALSE]
  /\ tgen = [k \in Keys |-> 0]
  /\ batch = <<>> /\ active = FALSE

\* User code runs between polls of the driver, or inside a callback.
UserCode == (batch = <<>> \/ active) /\ ops < MaxOps

\* calc_bucket(), link() or relink(), and update_next_expiry().
Link(k, delta) ==
  LET s == CalcWheelIndex(clk, delta)
  IN /\ slot' = [slot EXCEPT ![k] = s]
     /\ next' = IF next = Never \/ s.expiry < next THEN s.expiry ELSE next
     /\ UNCHANGED clk

Unlink(k) == slot' = [slot EXCEPT ![k] = Out] /\ UNCHANGED <<clk, next>>

\* The bitmaps of link() and unlink().
Occupied(sl) ==
  [l \in Levels |-> {sl[k].place.off : k \in {j \in Keys : sl[j].place.lvl = l}}]

-----------------------------------------------------------------------------
(* CallbackTimer *)

New(k, delta) ==
  /\ UserCode /\ ~Alive(k)
  /\ ids' = ids + 1 /\ handle' = [handle EXCEPT ![k] = ids + 1]
  /\ arm' = [arm EXCEPT ![k] = 0] /\ pending' = [pending EXCEPT ![k] = TRUE]
  /\ tgen' = [tgen EXCEPT ![k] = generation]
  /\ Link(k, delta)
  /\ ops' = ops + 1 /\ UNCHANGED <<generation, dgen, batch, active>>

Reset(k, delta) ==
  /\ UserCode /\ Alive(k)
  /\ arm' = [arm EXCEPT ![k] = @ + 1] /\ pending' = [pending EXCEPT ![k] = TRUE]
  /\ tgen' = [tgen EXCEPT ![k] = generation]
  /\ Link(k, delta)
  /\ ops' = ops + 1 /\ UNCHANGED <<generation, handle, ids, dgen, batch, active>>

CancelTimer(k) ==
  /\ UserCode /\ Alive(k)
  /\ pending' = [pending EXCEPT ![k] = FALSE]
  /\ Unlink(k)
  /\ ops' = ops + 1 /\ UNCHANGED <<generation, handle, ids, arm, tgen, dgen, batch, active>>

DropTimer(k) ==
  /\ UserCode /\ Alive(k)
  /\ pending' = [pending EXCEPT ![k] = FALSE]
  /\ Unlink(k)
  /\ handle' = [handle EXCEPT ![k] = 0]
  /\ ops' = ops + 1 /\ UNCHANGED <<generation, ids, arm, tgen, dgen, batch, active>>

-----------------------------------------------------------------------------
(* The driver *)

\* The clock reaches the deadline: execute_expired_timers(), the batch taken out
\* with mem::take, and the next deadline.  The deadline of a timer that has been
\* unlinked since stays.
Expire ==
  /\ batch = <<>> /\ ~active /\ dgen = generation /\ next # Never
  /\ LET S == {k \in Armed : slot[k].place \in DueBuckets(next)}
     IN /\ slot' = [k \in Keys |-> IF k \in S THEN Out ELSE slot[k]]
        /\ \E order \in SetToSeqs(S) : batch' = [i \in DOMAIN order |-> Ticket(order[i])]
  /\ clk' = next /\ next' = NextPendingBucket(next, Occupied(slot'))
  /\ UNCHANGED <<generation, handle, ids, arm, pending, tgen, dgen, active, ops>>

\* Mutant: the ticket's arm is not compared.
DeliverableAnyArm(t) ==
  /\ t.gen = dgen
  /\ handle[t.key] = t.id
  /\ pending[t.key]

Deliverable(t) ==
  /\ t.gen = dgen
  /\ handle[t.key] = t.id
  /\ arm[t.key] = t.arm
  /\ pending[t.key]

\* One turn of the delivery loop: invoke the callback or drop the ticket.
Deliver ==
  /\ batch # <<>> /\ ~active /\ generation = dgen
  /\ IF Deliverable(Head(batch))
     THEN /\ pending' = [pending EXCEPT ![Head(batch).key] = FALSE]
          /\ active' = TRUE
     ELSE UNCHANGED <<pending, active>>
  /\ batch' = IF active' THEN batch ELSE Tail(batch)
  /\ UNCHANGED <<generation, wheelVars, handle, ids, arm, tgen, dgen, ops>>

CallbackReturns ==
  /\ active
  /\ active' = FALSE /\ batch' = Tail(batch)
  /\ UNCHANGED <<generation, wheelVars, handle, ids, arm, pending, tgen, dgen, ops>>

\* Mutant: stop_wheel() leaves the states as they are.
StopTimersOnly ==
  /\ clk' = 0 /\ next' = Never /\ slot' = [k \in Keys |-> Out]
  /\ UNCHANGED pending

\* stop_wheel(): the timers elapse and nothing is pending.
StopTimers ==
  /\ clk' = 0 /\ next' = Never /\ slot' = [k \in Keys |-> Out]
  /\ pending' = [k \in Keys |-> FALSE]

\* A callback panics: the batch is dropped with the driver, which stops the
\* wheel if it is the current one.
CallbackPanics ==
  /\ active
  /\ active' = FALSE /\ batch' = <<>> /\ dgen' = generation
  /\ IF generation = dgen THEN StopTimers ELSE UNCHANGED <<wheelVars, pending>>
  /\ UNCHANGED <<generation, handle, ids, arm, tgen, ops>>

\* Timer::reset(), between polls or from a callback that stops its runtime.
ResetTimers ==
  /\ (batch = <<>> \/ active) /\ generation < MaxResets
  /\ generation' = generation + 1 /\ StopTimers
  /\ UNCHANGED <<handle, ids, arm, tgen, dgen, batch, active, ops>>

\* The poll finds that its generation is over and returns; the first timer
\* armed in the new one starts another driver.
DriverReplaced ==
  /\ ~active /\ generation # dgen
  /\ dgen' = generation /\ batch' = <<>>
  /\ UNCHANGED <<generation, wheelVars, handle, ids, arm, pending, tgen, active, ops>>

CallbackNext ==
  \/ \E k \in Keys : \/ \E delta \in Deltas : New(k, delta) \/ Reset(k, delta)
                      \/ CancelTimer(k) \/ DropTimer(k)
  \/ Expire
  \/ Deliver \/ CallbackReturns \/ CallbackPanics \/ ResetTimers \/ DriverReplaced

\* What the driver does by itself, once it runs.
DriverStep == Deliver \/ CallbackReturns \/ DriverReplaced

\* A running driver goes on, and callbacks return.
CallbackSpec == CallbackInit /\ [][CallbackNext]_callbackVars /\ WF_callbackVars(DriverStep)

-----------------------------------------------------------------------------
(* Properties. *)

\* The scan over the bitmaps finds the earliest expiry, whatever the levels and
\* wherever the indices wrap around (next_pending_bucket), the driver's deadline
\* is never later, and when the clock reaches it exactly the timers that expire
\* then are drained, although buckets are reused and levels are processed
\* together (execute_expired_timers, calc_index).
ScanExact ==
  LET expiries == {slot[k].expiry : k \in Armed}
      scan == NextPendingBucket(clk, Occupied(slot))
  IN /\ IF Armed = {} THEN scan = Never
        ELSE scan = Min(expiries) /\ next # Never /\ next <= Min(expiries)
     /\ next # Never =>
          {k \in Armed : slot[k].place \in DueBuckets(next)} = {k \in Armed : slot[k].expiry = next}

\* What has started is what was asked for last: the callback that is invoked
\* belongs to a timer that exists, and its last arming has expired; a reset, a
\* cancel or a drop in between, even by an earlier callback of the same batch,
\* takes the invocation back (the checks in the delivery loop).
NoStaleDelivery ==
  [][~active /\ active' =>
       LET k == Head(batch).key
       IN /\ handle[k] = Head(batch).id
          /\ ~InWheel(k)
          /\ pending[k] /\ ~pending'[k]]_callbackVars

\* An expired callback is delivered unless it is taken back, and no later than
\* the batch it belongs to (TimerDriver::poll).
ExpiredDelivered ==
  \A k \in Keys : (pending[k] /\ ~InWheel(k)) ~> (~pending[k] \/ InWheel(k))
=============================================================================
