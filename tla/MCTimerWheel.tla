---------------------------- MODULE MCTimerWheel ----------------------------
(* TimerWheel on small instances; the handles are interchangeable. *)
EXTENDS TimerWheel, TLC

WheelSymmetry == Permutations(Timers)
=============================================================================
