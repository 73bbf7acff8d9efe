SPECIFICATION MatchSpec
CONSTANTS
  Main = Main
  Workers = {w1}
  Clients = {Main}
  Tasks <- SmallTasks
  NoTask = NoTask
  NoThread = NoThread
  Garbage = Garbage
  Queries <- SmallQueries
  Lists <- SmallLists
  Entries <- SmallEntries
  Verdict <- SmallVerdict
  Passes <- SmallPasses
  q1 = q1
  q2 = q2
  a = a
  a1 = a1
  a2 = a2
  a3 = a3
  b = b
  b1 = b1
  b2 = b2
  c1 = c1
  c2 = c2
  d1 = d1
  d2 = d2
INVARIANTS
  ResultMatchesSequential
CHECK_DEADLOCK FALSE
