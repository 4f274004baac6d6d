\* Batches of up to three hosts, one of them skipped; two processes that ask.
SPECIFICATION FairSpec
CONSTANTS
  None = None
  h1 = h1
  h2 = h2
  h3 = h3
  Hosts = {h1, h2, h3}
  Batches <- SomeBatches
  Skipped = {h2}
  Askers = {a1, a2}
  Sudo = TRUE
INVARIANTS TypeOK NoSurpriseDeploy AnswersTheirPrompt
PROPERTIES PasswordDiesWithDeploy DialogAnswered
CHECK_DEADLOCK FALSE
