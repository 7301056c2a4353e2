SPECIFICATION Spec
CONSTANTS
  NP_MAX_HEADERS = 2
  Servers <- MCServers
  ModulePaths <- MCModulePaths
  RateLimiting = TRUE
  MetricsPath <- MCMetricsPath
  Hits <- MCHits
  WCap = 5
  Scripts <- MCScripts
  Pipelines = {FALSE, TRUE}
  AnyCut = FALSE
  HangsUp = TRUE
  RCap = 48
  SCap = 2
INVARIANTS
  AnswersInOrder
  AnswersWhole
  
PROPERTIES
  RequestAnswered
CHECK_DEADLOCK FALSE
