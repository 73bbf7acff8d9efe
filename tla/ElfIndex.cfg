SPECIFICATION Spec
CONSTANTS
  NUM_DIM = 3
  Tables <- MCTables
  Queries <- MCQueries
  LAST_ENTRY_MASK = 1000
  LAST_ENTRY_MASK64 = 1000
  NOT_FOUND = 9999
  NoQuery = NoQuery
INVARIANTS ElfTypeOK ElfIsPacked MatchIsScan ExactMatchIsScan
