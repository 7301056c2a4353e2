SPECIFICATION Spec
CONSTANTS
  Ips = {"a", "b", "c"}
  Slots = {0, 1}
  Hash <- HashDef
  Rate = 2
  Burst = 2
  MaxNow = 2
INVARIANTS Conserved  ServedAfterPause
