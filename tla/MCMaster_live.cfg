SPECIFICATION FairSpec
CONSTANTS
  Pids = {p1, p2, p3}
  Configs = {"small", "large"}
  MaxWorkers = 2
  WorkerProcesses <- WorkerProcessesDef
  Ports <- PortsDef
  ForkFails = FALSE
  BindFails = TRUE
  Interrupts = FALSE
  SlowStart = FALSE
CHECK_DEADLOCK FALSE
PROPERTIES CrashedRespawned ShutdownEnds ReloadEnds
