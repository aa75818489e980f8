CONSTANTS
  MaxHead = 4
  InitialHead = 1
  BatchSize = 2
  Attempts = 1
  MaxFailures = 1
  MaxRestarts = 1
  Polls = {p1, p2}
  Starters = {boot, s1}
  Boot = boot
  Null = Null
  Workers = {w1}
  Working = FALSE
  e1 = e1  e2 = e2
  Transfers <- MCTransfers
  Logs <- MCLogs
SPECIFICATION FairSpec
INVARIANT NoGap
PROPERTY KeepsUp
CHECK_DEADLOCK FALSE
