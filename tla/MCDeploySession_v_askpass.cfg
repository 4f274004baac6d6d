\* A deploy that ends while an askpass dialog is open.
SPECIFICATION Spec
CONSTANTS
  None = None
  h1 = h1
  h2 = h2
  h3 = h3
  Hosts = {h1, h2, h3}
  Batches <- SomeBatches
  Skipped = {h2}
  Askers = {a1}
  Sudo = FALSE
INVARIANT AnswerIsOwed
CHECK_DEADLOCK FALSE
