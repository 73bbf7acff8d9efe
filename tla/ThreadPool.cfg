SPECIFICATION FairSpec
CONSTANTS
  Workers = {w1, w2}
  Clients = {c1}
  Tasks = {t1, t2, t3}
  NoTask = NoTask
  NoThread = NoThread
INVARIANTS
  TypeOK
  MutexInv
  CheckedIsThere
  Conservation
PROPERTIES
  ImplementsTaskPool
  NothingRunsAfterShutdown
  OnlyLostWakeupStalls
CHECK_DEADLOCK FALSE
