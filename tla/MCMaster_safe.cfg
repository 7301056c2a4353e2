SPECIFICATION Spec
CONSTANTS
  Pids = {p1, p2, p3}
  Configs = {"small", "large"}
  MaxWorkers = 2
  WorkerProcesses <- WorkerProcessesDef
  Ports <- PortsDef
  ForkFails = TRUE
  BindFails = TRUE
  Interrupts = FALSE
  SlowStart = TRUE
SYMMETRY Symmetry
CHECK_DEADLOCK FALSE
INVARIANTS  WorkersCurrent ChildrenTracked
