SPECIFICATION Spec
CONSTANTS
  MaxInflight = 2
  KeepAlive = TRUE
  FrameRate = TRUE
  WriteTimeout = TRUE
  Budget = 2
  MaxInput = 2
  MaxFills = 1
  MaxPauses = 1
  MaxExternal = 1
  MaxFlips = 1
INVARIANTS NothingOverlooked ServiceDrained
PROPERTIES IdleOnly StopEnds
CHECK_DEADLOCK FALSE
