SPECIFICATION SubtreeSpec
CONSTANTS
  Main = Main
  Workers = {w1, w2}
  Clients = {Main}
  Tasks <- MCTasks
  NoTask = NoTask
  NoThread = NoThread
  Garbage = Garbage
  Roots <- MCRoots
  Nodes <- MCNodes
  Entries <- MCEntries
  Verdict <- MCVerdict
  Passes <- MCPasses
  a = a
  a1 = a1
  a2 = a2
  a3 = a3
  a4 = a4
  b = b
  b1 = b1
  b2 = b2
  c1 = c1
  c2 = c2
  d = d
INVARIANTS
  ResultMatchesSequential
CHECK_DEADLOCK FALSE
