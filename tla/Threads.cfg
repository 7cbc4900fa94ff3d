SPECIFICATION MCSpec
CONSTANTS
  Tasks = {t1, t2}
  Workers = {w1, w2, w3}
  NoTask = none
  ThreadLimit = 1
  Jobs = {j1, j2}
  Tracked = j1
  Batch = 1
  MaxPolls = 3
\* All closures are resolved and every worker has left; the jobs are over, the
\* handle has been dropped and the drain task sleeps or is gone.
CHECK_DEADLOCK FALSE
INVARIANTS LimitRespected NoStrandedTask StageExclusive NothingLost
PROPERTIES TasksResolve JoinAnswered
