\* Every kind of plan, two descendants, a channel of two lines.
SPECIFICATION FairSpec
CONSTANTS
  None = None
  Profiles <- SomeProfiles
  Requests <- SomeRequests
  Helpers = {h1, h2}
  Capacity = 2
  Passwords = 2
INVARIANTS TypeOK SignalsOwnGroup TornDownWhole LoginFits OnePasswordLost
PROPERTIES KeepsPromise CancelEnds
CHECK_DEADLOCK FALSE
