SPECIFICATION Spec
CONSTANTS
  t1 = t1
  t2 = t2
  t3 = t3
  w1 = w1
  w2 = w2
  w3 = w3
  Tasks = {t1, t2, t3}
  Workers = {w1, w2, w3}
  Pools <- AllPools
INVARIANTS
  RunsOnce
  ReadyAfterRun
  NoLostWakeup
  NobodySleepsAtJoin
PROPERTIES
  TasksFinish
  TakenTasksFinish
  DestructorReturns
CHECK_DEADLOCK FALSE
