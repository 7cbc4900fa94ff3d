SPECIFICATION MCSpec
CONSTANTS
  root = root
  a = a
  b = b
  t1 = t1
  t2 = t2
  Scopes = {root, a, b}
  Children <- TwoChildren
  Sources <- ChildSources
  Tasks = {t1, t2}
  Target <- RootAndChild
  MaxChanges = 2
  ClkDiv = 8
  LvlSize = 64
  LvlDepth = 8
  Keys = {k1, k2}
  Starts = {0, 7, 505}
  Deltas = {1, 62, 503, 200000000}
  c1 = c1
  h1 = h1
  Calls = {c1, c2, c3}
  Hosts = {h1, h2}
  Shared = {s1, s2}
  H1Limit = 1
  H2Limit = 1
  MaxStreams = 1
  MaxOps = 4
  MaxResets = 1
INVARIANTS CacheValid NobodyForgotten ScanExact
PROPERTIES NoStaleDelivery Answered ExpiredDelivered
\* The callers have their answers; no operation is left and nothing is armed;
\* the requests are over.
CHECK_DEADLOCK FALSE
