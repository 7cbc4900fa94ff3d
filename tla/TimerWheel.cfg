SPECIFICATION Spec
CONSTANTS
  ClkDiv = 2
  LvlSize = 4
  LvlDepth = 2
  UnitSizes = {1, 2}
  Timers = {t1, t2}
  Delays = {0, 1, 4}
  MaxNow = 4
  MaxArms = 3
  MaxGen = 1
SYMMETRY WheelSymmetry
\* Time is bounded.
CHECK_DEADLOCK FALSE
INVARIANTS ScheduledOnTime SleeperServed
