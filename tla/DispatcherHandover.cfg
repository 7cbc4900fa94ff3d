SPECIFICATION Spec
CONSTANTS
  MaxInflight = 2
  KeepAlive = FALSE
  FrameRate = FALSE
  WriteTimeout = FALSE
  Budget = 0
  MaxInput = 2
  MaxFills = 0
  MaxPauses = 0
  MaxExternal = 0
  MaxFlips = 1
PROPERTIES HandedOverEnds
CHECK_DEADLOCK FALSE
