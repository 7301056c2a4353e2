SPECIFICATION Spec
CONSTANTS
  Conns = {c1, c2}
  Fds = {f1, f2, f3}
  Backends = {b1}
  LISTENER = LISTENER
  NONE = NONE
  MaxFree = 9
  MaxEvents = 2
  Keepalive = 1
  MaxAccepts = 2
  Routes = {"local", "static", "proxy", "tunnel"}
  Overlap = TRUE
  LateFin = TRUE
SYMMETRY Symmetry
CHECK_DEADLOCK FALSE
INVARIANTS DescriptorsOwned TunnelHasUpstream
