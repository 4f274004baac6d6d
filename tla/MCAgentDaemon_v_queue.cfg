SPECIFICATION Spec
CONSTANTS
  None = None
  r1 = r1
  r2 = r2
  p1 = p1
  w1 = w1
  w2 = w2
  h1 = h1
  h2 = h2
  Revs = {r1, r2}
  Paths = {p1}
  Kinds = {"offline"}
  Watches = {w1, w2}
  Hosts = {h1}
  HostsOf <- TwoWatches
  CatchUp = {h1}
  Bootstrap = {}
  Guarded = {h1}
  DiskFills = FALSE
  MaxEvents = 2
SYMMETRY RevSymmetry
PROPERTIES
  QueuedPollsKept
CHECK_DEADLOCK FALSE
