SPECIFICATION Spec
CONSTANTS
  NP_MAX_HEADERS = 2
  Servers <- MCServers
  ModulePaths <- MCModulePaths
  RateLimiting = FALSE
  MetricsPath <- MCMetricsPath
  Hits <- MCHits
  WCap = 5
  Scripts <- OneFile
  Pipelines = {FALSE}
  AnyCut = FALSE
  HangsUp = FALSE
  RCap = 48
  SCap = 2
INVARIANTS
  AnswersWhole
CHECK_DEADLOCK FALSE
