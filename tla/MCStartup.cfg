SPECIFICATION Spec
CONSTANTS
  CONFIG_MAX_SERVERS = 3
  CONFIG_MAX_LIST = 2
  CONFIG_MAX_MODULES = 2
  Atoi <- AtoiDef
  Regexes = {}
  Procs = {p1, p2}
  Files <- LiveFiles
  TestFiles <- AllFiles
  Overlap = FALSE
  Daemons = {TRUE, FALSE}
  Faults = {"file", "module", "bind", "fork", "pid_file", "kill"}
SYMMETRY Symmetry
CHECK_DEADLOCK FALSE
INVARIANTS ConfigByBlock ListenersServe PidFileNames
