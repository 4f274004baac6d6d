SPECIFICATION Spec
CONSTANTS
  None = None
  Branch = Branch
  Dirty = Dirty
  Revs = {1, 2, 3}
  Kinds = {}
  Profiles <- MCProfiles
  Paths <- MCPaths
  Activation <- SystemFirst
  Reading <- ByName
  Stamped = TRUE
  Bootstrap = FALSE
  Guarded = TRUE
  Manual <- MCProfiles
  Starts <- MCStarts
INVARIANTS RecordIsTrue
PROPERTIES SystemWorkProtected OwnChangeNotHeld
CHECK_DEADLOCK FALSE
