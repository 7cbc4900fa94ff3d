SPECIFICATION Spec
CONSTANTS
  w1 = w1
  w2 = w2
  Workers = {w1, w2}
  Conns = {c1, c2}
  NoConn = NoConn
  Callers = {k1}
  Listeners = {l1}
  Scenarios <- MCScenarios
INVARIANT OnePlace
PROPERTIES AcceptedServed ReadyListens StopCompletes
CHECK_DEADLOCK FALSE
