SPECIFICATION Spec
CONSTANTS
  None = None
  r1 = r1
  r2 = r2
  p1 = p1
  w1 = w1
  w2 = w2
  h1 = h1
  h2 = h2
  Revs = {r1, r2}
  Paths = {}
  Kinds = {"offline"}
  Watches = {w1, w2}
  Hosts = {h1, h2}
  HostsOf <- SharedHost
  CatchUp = {h1}
  Bootstrap = {h2}
  Guarded = {}
  DiskFills = TRUE
  MaxEvents = 2
SYMMETRY RevSymmetry
INVARIANTS
  LoopInOrder
  LedgerConsistent
  RunStillNeeded
PROPERTIES
  CancelSettles
  NoWorkCutShort
CHECK_DEADLOCK FALSE
