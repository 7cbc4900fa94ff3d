SPECIFICATION QueueSpec
CONSTANTS
  Producers = {p1, p2}
  QueueOwner = owner
  EventInterval = 1
  RemoteBatch = 0
  MaxCmds = 1
  MaxWakes = 1
  MaxRuns = 2
INVARIANTS
  NoLostWakeup
  DrainedWhenDown
PROPERTIES
  ImplementsMailbox
