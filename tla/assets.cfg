CONSTANTS
  Null = Null
  Zero = Zero
  a = a  b = b
  Tokens = {"t1"}
  Chain <- MCChain
  x1 = x1  x2 = x2  v1 = v1  v2 = v2
  Executions = {x1, x2}
  Visits = {v1, v2}
  Failing = {x1, v1}
  Casts <- MCCasts
  WebhookKinds = {"transferred"}
  Attempts = 2
  ContractTypes = {"ERC721", "ERC1155"}
SPECIFICATION FairSpec
INVARIANTS TypeOK BalanceBacked PublishedIsAudited AnnouncedOnce
PROPERTIES RowsFollowTransfers EveryExecutionEnds
CHECK_DEADLOCK FALSE
