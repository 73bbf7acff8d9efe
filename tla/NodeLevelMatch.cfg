SPECIFICATION FairMatchSpec
CONSTANTS
  Main = Main
  Workers = {w1, w2}
  Clients = {Main}
  Tasks <- MCTasks
  NoTask = NoTask
  NoThread = NoThread
  Garbage = Garbage
  Queries <- MCQueries
  Lists <- MCLists
  Entries <- MCEntries
  Verdict <- MCVerdict
  Passes <- MCPasses
  q1 = q1
  q2 = q2
  a = a
  a1 = a1
  a2 = a2
  a3 = a3
  b = b
  b1 = b1
  b2 = b2
  c1 = c1
  c2 = c2
  d1 = d1
  d2 = d2
INVARIANTS
  MatchTypeOK
  WaitsForAll
  QueueIsLatestFutures
  AllSelectedArePushed
PROPERTIES
  PushedOnce
  ReturnsOrLosesWakeup
CHECK_DEADLOCK FALSE
