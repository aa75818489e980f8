SPECIFICATION FairReadsSpec
CONSTANTS
  NoTime = NoTime
  Top = 6
  Chains <- MCChains
  Instants = {2, 6, 11}
  BlockTime = 2
  Window = 1
  Close = 1
  Chunk = 2
  MaxScan = 4
  Queries = {"events", "transactions"}
  Limit = 3
  PageSize = 1
  MaxTransactions = 4
  Orders <- MCOrders
INVARIANTS ReadsTypeOK NothingMissed BlockFound ScanComplete
PROPERTIES ScanEnds
CHECK_DEADLOCK FALSE
