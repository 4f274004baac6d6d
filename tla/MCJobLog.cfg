SPECIFICATION Spec
CONSTANTS
  None = None
  h1 = h1
  h2 = h2
  Hosts = {h1, h2}
  Lines <- MCLines
  Height = 2
  LogCap = 7
  Starts <- MCStarts
INVARIANTS WindowSuffices
PROPERTIES MatchOnScreen CursorOnScreen
CHECK_DEADLOCK FALSE
