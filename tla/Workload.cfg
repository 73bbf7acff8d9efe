SPECIFICATION Spec
CONSTANTS
  NUM_DIM = 7
  Tables <- MCTables
  Queries = {}
  NOT_FOUND = NOT_FOUND
  NoQuery = NoQuery
  NoIndex = NoIndex
  TIDS_PER_BYTE = 4
  VALUE_BITS = 13
  BINS = 8
  CNT_BITS = 2
  LOG2_OF_NUMBER_OF_BINS = 2
  INTROSORT_SWITCH = 6
  Projections <- MCProjections
  Configs = {"LineItem", "Part", "Veit"}
  NUM_Partials = 2
  Streams <- MCStreams
  Kinds = {"Colseqscan", "SIMDSeqScan", "ImprintIndex",
           "ImprintIndexWithoutCompression",
           "ImprintSIMDIndexWithoutCompression",
           "ImprintSIMD64IndexWithoutCompression", "SortedProjection", "Elf"}
  Junks = {5}
INVARIANTS
  WorkloadTypeOK
  SharedColumnsAgree
  MonthsAreCovered
  ColumnsAnswerAsAScan
  ImprintsAnswerAsAScan
  LossesAreNoticed
CHECK_DEADLOCK FALSE
