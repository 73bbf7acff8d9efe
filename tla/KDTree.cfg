SPECIFICATION Spec
CONSTANTS
  NUM_DIM = 2
  Tables <- MCTables
  Queries <- MCQueries
  NOT_FOUND = 9999
  NoQuery = NoQuery
  NoAnswer = NoAnswer
INVARIANTS KDTypeOK RowsAreReachable NoneTwice
PROPERTY ImplementsSeqScan
