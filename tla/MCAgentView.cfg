SPECIFICATION Spec
CONSTANTS
  None = None
  a1 = a1
  a2 = a2
  h1 = h1
  h2 = h2
  Agents = {a1, a2}
  Hosts = {h1, h2}
  Rows <- SomeRows
  Capacity = 2
  LogCap = 2
  HistoryCap = 2
  MaxLines = 2
  Scenarios <- SomeScenarios
INVARIANTS LogsApart ShownIsCurrent FetchUnderWay LinesInOrder ApprovalWarned
PROPERTIES ViewCatchesUp
CHECK_DEADLOCK FALSE
