CONSTANTS
  Null = Null
  Zero = Zero
  a = a  b = b
  x1 = x1  x2 = x2  v1 = v1  v2 = v2
  Tokens = {"t1"}
  Chain <- MCMoves
  Executions = {x1, x2}
  Visits = {}
  Failing = {}
  Casts = {{x1, x2}}
  WebhookKinds = {"transferred"}
  Attempts = 1
  ContractTypes = {"ERC721"}
SPECIFICATION Spec
INVARIANT OwnerIsCurrent
CHECK_DEADLOCK FALSE
