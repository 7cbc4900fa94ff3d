SPECIFICATION PoolSpec
CONSTANTS
  Calls = {c1, c2, c3}
  Hosts = {a, b}
  Shared = {s1, s2}
  H1Limit = 1
  H2Limit = 1
  MaxStreams = 1
INVARIANTS LimitCountsOpening
CHECK_DEADLOCK FALSE
