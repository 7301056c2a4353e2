SPECIFICATION Spec
CONSTANTS
  Count = 3
  Keepalive = 3
  IdleMax = 2
  ErrorLimit = 1
  MaxRequests = 7
CHECK_DEADLOCK FALSE
INVARIANTS RoundRobinFair   ActiveCoversInFlight
