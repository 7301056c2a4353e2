SPECIFICATION Spec
CONSTANTS
  Conns = {c1, c2}
  Workers = {w1}
  WorkerOf <- OneWorker
  Keys = {"a", "post"}
  Cached = {"a", "post"}
  Gets = {"a"}
  Truncated <- KeyItself
  Slots = {"a", "post"}
  Hash <- KeyItself
  Inodes = {i1, i2, i3}
  NONE = NONE
  Pieces = 2
  Ttl = 1
  MaxEntries = 2
  MaxNow = 2
  MaxResponses = 2
  Faults = {"crash", "disk"}
SYMMETRY Symmetry
CHECK_DEADLOCK FALSE
  
PROPERTIES PublishedStable 
