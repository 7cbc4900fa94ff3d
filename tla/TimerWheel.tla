----------------------------- MODULE TimerWheel -----------------------------
(***************************************************************************)
(* The hierarchical timer wheel of a thread and the task that drives it:   *)
(* ntex-util/src/time/wheel.rs.                                            *)
(*                                                                         *)
(* Time is counted in milliseconds, the wheel's clock in units.  The wheel *)
(* belongs to one thread, so an operation is one step; the driver's loop   *)
(* is a step per turn, because time passes between the turns.  A stopped   *)
(* runtime may leave its driver behind, so there is one per generation.    *)
(***************************************************************************)
EXTENDS WheelLevels

CONSTANTS
  UnitSizes,  \* milliseconds per unit that systems may be configured with
  Timers,     \* handles
  Delays,     \* delays passed to the operations, in milliseconds
  MaxNow,     \* bound: the last millisecond
  MaxArms,    \* bound: timers armed
  MaxGen      \* bound: resets of the wheel

ASSUME WheelAssumption ==
  /\ UnitSizes \subseteq Nat \ {0} /\ Delays \subseteq Nat
  /\ MaxNow \in Nat /\ MaxArms \in Nat /\ MaxGen \in Nat

VARIABLES
  now,          \* Instant::now()
  elapsed,      \* the wheel's clock: the expiry processed last
  elapsedTime,  \* the instant that corresponds to it, or None
  units,        \* milliseconds per unit, or None while the wheel is stopped
  nextExpiry,   \* expiry of the earliest occupied bucket, or Never
  occupied,     \* per level, the buckets whose bit is set
  bucket,       \* TimerEntry::bucket per handle: a bucket, Elapsed or Gone
  task,         \* TimerEntry::task is set
  started,      \* Flags::DRIVER_STARTED
  gen,          \* `generation`
  waker,        \* `driver`: the generation whose driver is registered, or None
  dpc,          \* per generation, where its driver task is
  runnable,     \* per generation, whether that task is scheduled
  dnow,         \* the instant read by the driver's poll in progress
  armed,        \* TimerDriver::armed per generation
  sleep,        \* TimerDriver::sleep per generation
  due,          \* history: per handle, the instant it was asked to elapse at
  expiry,       \* history: per handle, the expiry of the bucket it was put in
  clamped,      \* history: per handle, whether its delay was cut
  sleeper,      \* history: per handle, whether a task waits for it
  arms          \* timers armed so far

clock == <<elapsed, elapsedTime, units>>
wheel == <<occupied, bucket, task>>
driver == <<dpc, runnable, dnow, armed, sleep>>
history == <<due, expiry, clamped, sleeper>>
vars == <<now, clock, nextExpiry, wheel, started, gen, waker, driver, history, arms>>

Gens == 0..MaxGen
None == -1       \* Option::None
Elapsed == [lvl |-> -1, off |-> 0]
Gone == [lvl |-> -1, off |-> 1]
Pending(t) == bucket[t] \notin {Elapsed, Gone}

-----------------------------------------------------------------------------
(* The clock *)

\* elapsed_time(): set to the current time when the wheel has been idle.
ElapsedTime == IF elapsedTime = None THEN now ELSE elapsedTime

ExpiryTime(e) == ElapsedTime + (IF e > elapsed THEN e - elapsed ELSE 0) * units

-----------------------------------------------------------------------------
(* Wheel operations *)

\* The occupied bits once handle t has been moved to `to`, link() and unlink().
Relinked(t, to) ==
  [l \in Levels |->
     {b \in 0..(LvlSize - 1) :
        \/ to = [lvl |-> l, off |-> b]
        \/ b \in occupied[l] /\ ~(bucket[t] = [lvl |-> l, off |-> b] /\
                                  \A u \in Timers \ {t} : bucket[u] # bucket[t])}]

Init ==
  /\ now = 0 /\ elapsed = 0 /\ elapsedTime = None /\ units = None /\ nextExpiry = Never
  /\ occupied = [l \in Levels |-> {}]
  /\ bucket = [t \in Timers |-> Gone] /\ task = [t \in Timers |-> FALSE]
  /\ started = FALSE /\ gen = 0 /\ waker = None
  /\ dpc = [g \in Gens |-> "none"] /\ runnable = [g \in Gens |-> FALSE]
  /\ dnow = 0 /\ armed = [g \in Gens |-> None]
  /\ sleep = [g \in Gens |-> [at |-> 0, fired |-> FALSE, registered |-> FALSE]]
  /\ due = [t \in Timers |-> 0]
  /\ expiry = [t \in Timers |-> 0]
  /\ clamped = [t \in Timers |-> FALSE] /\ sleeper = [t \in Timers |-> FALSE]
  /\ arms = 0

\* The history of timers that are no longer pending is dropped.
Forget(S) ==
  /\ due' = [t \in Timers |-> IF t \in S THEN 0 ELSE due[t]]
  /\ expiry' = [t \in Timers |-> IF t \in S THEN 0 ELSE expiry[t]]
  /\ clamped' = [t \in Timers |-> clamped[t] /\ t \notin S]

\* The driver's poll runs to its end before the thread does anything else.
Idle == dpc[gen] # "loop"

SleepFor(ms) == [at |-> now + ms, fired |-> FALSE, registered |-> FALSE]

\* Mutant: a new deadline does not wake a driver that sleeps already.
UpdateNextExpiryQuiet(e, u) ==
  IF nextExpiry # Never /\ e >= nextExpiry
  THEN UNCHANGED <<nextExpiry, started, waker, driver>>
  ELSE /\ nextExpiry' = e
       /\ started' = TRUE
       /\ IF started
          THEN UNCHANGED <<waker, driver>>
          ELSE LET deadline == ElapsedTime + (e - elapsed) * u
               IN /\ dpc' = [dpc EXCEPT ![gen] = "parked"]
                  /\ runnable' = [runnable EXCEPT ![gen] = TRUE]
                  /\ armed' = [armed EXCEPT ![gen] = deadline]
                  /\ sleep' = [sleep EXCEPT ![gen] = SleepFor(deadline - now)]
                  /\ UNCHANGED <<waker, dnow>>

\* update_next_expiry(): wakes the driver, or TimerDriver::start().
UpdateNextExpiry(e, u) ==
  IF nextExpiry # Never /\ e >= nextExpiry
  THEN UNCHANGED <<nextExpiry, started, waker, driver>>
  ELSE /\ nextExpiry' = e
       /\ started' = TRUE
       /\ IF started
          THEN /\ runnable' = [g \in Gens |-> runnable[g] \/ g = waker]
               /\ waker' = None
               /\ UNCHANGED <<dpc, dnow, armed, sleep>>
          ELSE LET deadline == ElapsedTime + (e - elapsed) * u
               IN /\ dpc' = [dpc EXCEPT ![gen] = "parked"]
                  /\ runnable' = [runnable EXCEPT ![gen] = TRUE]
                  /\ armed' = [armed EXCEPT ![gen] = deadline]
                  /\ sleep' = [sleep EXCEPT ![gen] = SleepFor(deadline - now)]
                  /\ UNCHANGED <<waker, dnow>>

\* calc_bucket(), link() or relink(), and update_next_expiry().
Arm(t, ms) ==
  /\ arms < MaxArms /\ arms' = arms + 1
  /\ \E u \in (IF units = None THEN UnitSizes ELSE {units}) :
       LET delta == ((now - ElapsedTime) + ms) \div u
           slot == CalcWheelIndex(elapsed, delta)
       IN /\ units' = u /\ elapsedTime' = ElapsedTime
          /\ bucket' = [bucket EXCEPT ![t] = slot.place]
          /\ occupied' = Relinked(t, slot.place)
          /\ due' = [due EXCEPT ![t] = now + ms]
          /\ expiry' = [expiry EXCEPT ![t] = slot.expiry]
          /\ clamped' = [clamped EXCEPT ![t] = delta >= TimeoutCutoff]
          /\ UpdateNextExpiry(slot.expiry, u)

\* add_timer() with a delay, and with none: the timer has elapsed already.
AddTimer(t, ms) ==
  /\ Idle /\ bucket[t] = Gone /\ ms > 0
  /\ Arm(t, ms)
  /\ UNCHANGED <<now, elapsed, task, gen, sleeper>>

AddElapsed(t) ==
  /\ Idle /\ bucket[t] = Gone /\ 0 \in Delays
  /\ bucket' = [bucket EXCEPT ![t] = Elapsed]
  /\ UNCHANGED <<now, clock, nextExpiry, occupied, task, started, gen, waker, driver, history,
                 arms>>

\* update_timer() with a delay.
ResetTimer(t, ms) ==
  /\ Idle /\ bucket[t] # Gone /\ ms > 0
  /\ Arm(t, ms)
  /\ UNCHANGED <<now, elapsed, task, gen, sleeper>>

\* remove_timer(): elapse(), or a reset to zero.
RemoveTimer(t) ==
  /\ Idle /\ Pending(t)
  /\ bucket' = [bucket EXCEPT ![t] = Elapsed] /\ occupied' = Relinked(t, Elapsed)
  /\ task' = [task EXCEPT ![t] = FALSE]
  /\ sleeper' = [sleeper EXCEPT ![t] = @ /\ ~task[t]]
  /\ Forget({t})
  /\ UNCHANGED <<now, clock, nextExpiry, started, gen, waker, driver, arms>>

\* poll_elapsed() of a pending timer.
PollElapsed(t) ==
  /\ Idle /\ Pending(t) /\ ~sleeper[t]
  /\ task' = [task EXCEPT ![t] = TRUE] /\ sleeper' = [sleeper EXCEPT ![t] = TRUE]
  /\ UNCHANGED <<now, clock, nextExpiry, occupied, bucket, started, gen, waker, driver, due,
                 expiry, clamped, arms>>

\* Drop for TimerHandle
DropHandle(t) ==
  /\ Idle /\ bucket[t] # Gone
  /\ bucket' = [bucket EXCEPT ![t] = Gone] /\ occupied' = Relinked(t, Gone)
  /\ task' = [task EXCEPT ![t] = FALSE] /\ sleeper' = [sleeper EXCEPT ![t] = FALSE]
  /\ Forget({t})
  /\ UNCHANGED <<now, clock, nextExpiry, started, gen, waker, driver, arms>>

-----------------------------------------------------------------------------
(* TimerDriver *)

\* stop_wheel(); tasks are not woken, their runtime is stopping.
StopWheel ==
  /\ started' = FALSE
  /\ bucket' = [t \in Timers |-> IF Pending(t) THEN Elapsed ELSE bucket[t]]
  /\ occupied' = [l \in Levels |-> {}]
  /\ nextExpiry' = Never /\ elapsed' = 0 /\ elapsedTime' = None /\ units' = None
  /\ sleeper' = [t \in Timers |-> FALSE]
  /\ Forget(Timers) /\ UNCHANGED task

\* The start of poll(); a driver of an older generation returns.
DriverPoll(g) ==
  /\ dpc[g] = "parked" /\ runnable[g] /\ Idle
  /\ runnable' = [runnable EXCEPT ![g] = FALSE]
  /\ IF g = gen
     THEN dpc' = [dpc EXCEPT ![g] = "loop"] /\ waker' = g /\ dnow' = now
     ELSE dpc' = [dpc EXCEPT ![g] = "none"] /\ UNCHANGED <<waker, dnow>>
  /\ UNCHANGED <<now, clock, nextExpiry, wheel, started, gen, armed, sleep, history, arms>>

Looping == dpc[gen] = "loop"
Deadline == ExpiryTime(nextExpiry)

\* The wheel is empty.
DriverEmpty ==
  /\ Looping /\ nextExpiry = Never
  /\ dpc' = [dpc EXCEPT ![gen] = "parked"] /\ dnow' = 0
  /\ UNCHANGED <<now, clock, nextExpiry, wheel, started, gen, waker, runnable, armed, sleep,
                 history, arms>>

\* The next bucket is not due: arm the sleep if it is armed for another time,
\* and poll it.  A sleep that has fired already is armed again.
DriverSleep ==
  /\ Looping /\ nextExpiry # Never /\ Deadline > dnow
  /\ LET rearmed == IF armed[gen] = Deadline THEN sleep[gen] ELSE SleepFor(Deadline - dnow)
     IN IF rearmed.fired
        THEN /\ armed' = [armed EXCEPT ![gen] = None]
             /\ sleep' = [sleep EXCEPT ![gen] = rearmed]
             /\ UNCHANGED <<dpc, dnow>>
        ELSE /\ armed' = [armed EXCEPT ![gen] = Deadline]
             /\ sleep' = [sleep EXCEPT ![gen] = [rearmed EXCEPT !.registered = TRUE]]
             /\ dpc' = [dpc EXCEPT ![gen] = "parked"] /\ dnow' = 0
  /\ UNCHANGED <<now, clock, nextExpiry, wheel, started, gen, waker, runnable, history, arms>>

\* The buckets that are due are drained and their tasks woken; the clock moves
\* to the scheduled time, and the next deadline is looked up.
DriverExpire ==
  /\ Looping /\ nextExpiry # Never /\ Deadline <= dnow
  /\ LET expired == {t \in Timers : Pending(t) /\ bucket[t] \in DueBuckets(nextExpiry)}
         left == [l \in Levels |-> {b \in occupied[l] :
                    [lvl |-> l, off |-> b] \notin DueBuckets(nextExpiry)}]
     IN /\ elapsed' = nextExpiry
        /\ bucket' = [t \in Timers |-> IF t \in expired THEN Elapsed ELSE bucket[t]]
        /\ sleeper' = [t \in Timers |-> sleeper[t] /\ ~(t \in expired /\ task[t])]
        /\ task' = [t \in Timers |-> task[t] /\ t \notin expired]
        /\ occupied' = left
        /\ Forget(expired)
  /\ nextExpiry' = NextPendingBucket(nextExpiry, occupied')
  /\ elapsedTime' = IF nextExpiry' = Never THEN None ELSE Deadline
  /\ UNCHANGED <<now, units, started, gen, waker, driver, arms>>

\* The runtime drops the driver task with its other tasks.
DropDriver(g) ==
  /\ dpc[g] = "parked" /\ Idle
  /\ dpc' = [dpc EXCEPT ![g] = "none"]
  /\ IF g = gen THEN StopWheel
     ELSE UNCHANGED <<clock, nextExpiry, wheel, started, history>>
  /\ UNCHANGED <<now, gen, waker, runnable, dnow, armed, sleep, arms>>

\* Drop for TimerReset: the storage of a stopped system is cleared, its driver
\* task may still exist.
ResetWheel ==
  /\ Idle /\ gen < MaxGen
  /\ gen' = gen + 1 /\ waker' = None
  /\ StopWheel
  /\ UNCHANGED <<now, driver, arms>>

-----------------------------------------------------------------------------
(* The environment: the clock, and the thread behind futures_timer::Delay. *)

Tick ==
  /\ now < MaxNow
  /\ now' = now + 1
  /\ UNCHANGED <<clock, nextExpiry, wheel, started, gen, waker, driver, history, arms>>

SleepFires(g) ==
  /\ dpc[g] # "none" /\ ~sleep[g].fired /\ now >= sleep[g].at
  /\ sleep' = [sleep EXCEPT ![g].fired = TRUE, ![g].registered = FALSE]
  /\ runnable' = [runnable EXCEPT ![g] = @ \/ sleep[g].registered]
  /\ UNCHANGED <<now, clock, nextExpiry, wheel, started, gen, waker, dpc, dnow, armed, history,
                 arms>>

Next ==
  \/ \E t \in Timers : \/ \E ms \in Delays : AddTimer(t, ms) \/ ResetTimer(t, ms)
                       \/ AddElapsed(t) \/ RemoveTimer(t) \/ PollElapsed(t) \/ DropHandle(t)
  \/ DriverEmpty \/ DriverSleep \/ DriverExpire
  \/ \E g \in Gens : DriverPoll(g) \/ DropDriver(g) \/ SleepFires(g)
  \/ ResetWheel \/ Tick

Spec == Init /\ [][Next]_vars

-----------------------------------------------------------------------------
(* Properties. *)

\* Every variable keeps its type; the clock of the wheel is never ahead of the
\* time (Timer, TimerEntry, TimerDriver).
TypeOK ==
  /\ now \in 0..MaxNow /\ elapsed \in Nat /\ elapsedTime \in {None} \cup 0..now
  /\ units \in UnitSizes \cup {None} /\ nextExpiry \in Nat \cup {Never}
  /\ occupied \in [Levels -> SUBSET (0..(LvlSize - 1))]
  /\ bucket \in [Timers -> Buckets \cup {Elapsed, Gone}] /\ task \in [Timers -> BOOLEAN]
  /\ started \in BOOLEAN /\ gen \in Gens /\ waker \in Gens \cup {None}
  /\ dpc \in [Gens -> {"none", "parked", "loop"}] /\ runnable \in [Gens -> BOOLEAN]
  /\ dnow \in 0..now /\ armed \in [Gens -> Nat \cup {None}]
  /\ sleep \in [Gens -> [at : Nat, fired : BOOLEAN, registered : BOOLEAN]]
  /\ due \in [Timers -> Nat] /\ expiry \in [Timers -> Nat] /\ clamped \in [Timers -> BOOLEAN]
  /\ sleeper \in [Timers -> BOOLEAN] /\ arms \in 0..MaxArms

\* A timer whose delay was not cut is never early: its bucket is scheduled after
\* the instant it asked for, and by at most one granularity of the bucket's
\* level, however far the clock of the wheel is behind (calc_bucket).
ScheduledOnTime ==
  \A t \in Timers : Pending(t) /\ ~clamped[t] =>
    /\ ExpiryTime(expiry[t]) > due[t]
    /\ ExpiryTime(expiry[t]) <= due[t] + Gran(bucket[t].lvl) * units + (units - 1)

\* There is one driver of the current generation while DRIVER_STARTED is set and
\* none otherwise, whatever becomes of the drivers of stopped runtimes.  It never
\* sleeps through a deadline: it is scheduled, or its sleep is armed for exactly
\* that deadline and will wake it (TimerDriver, armed).
DriverWillWake ==
  /\ started <=> dpc[gen] # "none"
  /\ Idle /\ nextExpiry # Never =>
       /\ started /\ dpc[gen] = "parked"
       /\ runnable[gen] \/ (sleep[gen].registered /\ armed[gen] = Deadline)

\* No sleeper is forgotten: a task that waits for a timer is woken when the timer
\* elapses or is taken out of the wheel, unless its runtime stops, and the driver
\* that makes it elapse will wake in time (remove_timer, execute_expired_timers,
\* poll_elapsed, TimerDriver).
SleeperServed ==
  /\ \A t \in Timers : sleeper[t] => Pending(t) /\ task[t]
  /\ DriverWillWake
=============================================================================
