SPECIFICATION FairSpec
CONSTANTS
  Workers = {w1}
  Clients = {c1}
  Tasks = {t1}
  NoTask = NoTask
  NoThread = NoThread
PROPERTIES
  SubmittedIsExecuted
CHECK_DEADLOCK FALSE
