SPECIFICATION Spec
CONSTANTS
  Conns = {c1, c2}
  Fds = {f1, f2, f3, f4}
  Backends = {b1, b2}
  LISTENER = LISTENER
  NONE = NONE
  MaxFree = 1
  MaxEvents = 1
  Keepalive = 1
  MaxAccepts = 3
  Routes = {"local", "proxy", "tunnel"}
  Overlap = FALSE
  LateFin = FALSE
SYMMETRY Symmetry
CHECK_DEADLOCK FALSE
INVARIANTS PoolSound HandlerOwnerLive  IdleBelongs ActiveCoversInUse 
PROPERTY ProxyingUntilClosed
