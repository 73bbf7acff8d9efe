SPECIFICATION Spec
CONSTANTS
  kNumBitsPerWord = 8
  kNumCodesPerBlock = 16
  kNumBitsPerGroup = 2
  Names = {1, 2}
  Schemas <- MCSchemas
  Junks = {6}
  Batches <- MCBatches
  Starts = {0, 5}
  Sizes = {5, 16, 18}
  Codes = {2}
  Probes = {5}
  Predicates <- MCPredicates
  Comparators = {"kEqual", "kGreaterEqual"}
  Stores <- MCStores
  Queries <- MCQueries
  Cuts <- MCCuts
  Meta = Meta
  NoFile = NoFile
  NoVector = NoVector
  NoStore = NoStore
  NOT_FOUND = NOT_FOUND
  MaxTuples = 20
  MaxChanges = 4
  MaxScanned = 3
  MaxScans = 2
  MaxStops = 1
INVARIANTS
  BwTypeOK
  ReadsWhatWasWritten
  ScansSelectWhatTheyShould
  WalkVisitsTheSelection
  IdsAreDense
  OpenLoadsTheLastSave
  AssertionsHold
  NullOnlyWhere
  IndexAnswersAsAScan
CHECK_DEADLOCK FALSE
