SPECIFICATION Spec
CONSTANTS
  Remotes = {r1, r2}
  Owner = owner
  MaxHeld = 1
  MaxOps = 3
\* A freed task takes no more steps.
CHECK_DEADLOCK FALSE
INVARIANTS
  RefsAccount
  NoUseAfterFree
  NoLostWake
PROPERTIES
  EventuallyFreed
