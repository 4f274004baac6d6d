SPECIFICATION FairRounds
CONSTANTS
  None = None
  r1 = r1
  r2 = r2
  p1 = p1
  w1 = w1
  h1 = h1
  Revs = {r1, r2}
  Paths = {p1}
  Kinds = {"offline", "denied"}
  Watches = {w1}
  Hosts = {h1}
  HostsOf <- OneHost
  CatchUp = {h1}
  Bootstrap = {}
  Guarded = {h1}
  DiskFills = FALSE
  MaxEvents = 4
INVARIANTS
  TypeOK
  RecheckArmed
  NothingUnsaved
  FirstContactHeld
  NoSameCommitRetry
PROPERTIES
  Converges
  HandsOverAtLast
CHECK_DEADLOCK FALSE
