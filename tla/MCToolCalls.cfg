SPECIFICATION Spec
CONSTANTS
  PARSE_RECURSION_LIMIT = 11
  MAX_RESULT_BYTES = 8
  CAP = 64
  MAX_LIMIT = 3
  DefaultLimit = 2
  MaxRows = 5
  SearchPath = "app"
  Configs <- MCConfigs
  Calls <- MCCalls
  Relations <- MCRelations
  ServerState <- MCServerState
  Base <- MCBase
  Parent <- MCParent
  UserFunctions <- MCUserFunctions
  Body <- MCBody
  RowsOfBody <- MCRowsOfBody
  Lower <- MCLower
  References <- MCReferences
  Tied <- MCTied
CHECK_DEADLOCK FALSE
INVARIANTS
  OnlyReadsRun
  NothingRunsUnpriced
  RowsHonest
  SurfaceHolds
  RecordTellsTruth
