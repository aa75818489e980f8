CONSTANTS
  MaxHead = 3
  InitialHead = 1
  BatchSize = 1
  Attempts = 2
  MaxFailures = 2
  MaxRestarts = 1
  Polls = {p1}
  Starters = {boot}
  Boot = boot
  Null = Null
  Workers = {w1, w2}
  Working = TRUE
  e1 = e1  e2 = e2
  Transfers <- MCTransfers
  Logs <- MCLogs
SPECIFICATION FairSpec
INVARIANTS CompletedIsOffered RepeatsBounded
PROPERTY BlockEnds
CHECK_DEADLOCK FALSE
