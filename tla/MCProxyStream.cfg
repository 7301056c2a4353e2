SPECIFICATION FairSpec
CONSTANTS
  N = 4
  Req = 2
  Cap = 2
  UWin = 2
  CWin = 2
  Exchanges = 2
  Faults = {"early", "short", "reset", "leave"}
CHECK_DEADLOCK FALSE
INVARIANTS NoLostWakeup DrainedWhileSmooth WholeWhileSmooth CacheExactWhileSmooth
PROPERTIES ResponseDelivered BufferEmpties
