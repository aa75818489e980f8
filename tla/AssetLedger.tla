------------------------------ MODULE AssetLedger ------------------------------
(***************************************************************************)
(* ProcessBlockchainEventUseCase and its callers, for one contract: the    *)
(* rows of its tokens, their transaction history and audit log, written by *)
(* executions that handle one event after the other (the NFT recovery) or  *)
(* one event with retries (processEventWithRetry), and the discovery that  *)
(* registers the contract.  Each awaited call is a step, and any call of a *)
(* process in Failing may be rejected.                                     *)
(***************************************************************************)
EXTENDS Integers, Sequences, FiniteSets, Functions

CONSTANTS
  Null, Tokens, Zero, Chain,
  Executions,     \* executions of the use case, each started at most once
  Visits,         \* calls of discoverContract and refreshContractInfo
  Failing,        \* executions and visits whose calls may be rejected
  Casts,          \* which of them take part: one set for each behaviour
  WebhookKinds,   \* the types under which webhooks deliver Transfer logs
  Attempts,       \* maxRetries of processEventWithRetry (3)
  ContractTypes   \* what the contract may be: "ERC721", "ERC1155"

ASSUME AttemptsAssumption == Attempts \in Nat \ {0}
ASSUME ChainAssumption ==
  /\ Len(Chain) \in Nat
  /\ \A n \in 1 .. Len(Chain) : /\ Chain[n].token \in Tokens
                                /\ Chain[n].amount \in Nat \ {0}
                                /\ Chain[n].block \in Nat
                                /\ ~(Chain[n].from = Zero /\ Chain[n].to = Zero)
ASSUME ExecutionsAssumption == IsFiniteSet(Executions)

Logs == 1 .. Len(Chain)
Addresses == {Chain[n].from : n \in Logs} \cup {Chain[n].to : n \in Logs}
Kinds == {"minted", "transferred", "burned"}

ASSUME WebhookKindsAssumption == WebhookKinds \subseteq {"minted", "transferred", "burned"}
ASSUME CastsAssumption == Casts \subseteq SUBSET (Executions \cup Visits)

VARIABLES
  cast,       \* the executions and visits that take part
  deployed,   \* the type of the contract on the chain
  contract,   \* its row in blockchain_contracts: is_active, or Null
  asset,      \* asset[t]: the row of token t in blockchain_assets, or Null
  ids,        \* asset rows inserted so far
  history,    \* the logs with a row in asset_transactions
  audit,      \* user_audit_logs: transaction hash and event type
  exec,       \* exec[x]: the local state of execution x
  visit,      \* visit[v]: the local state of a discovery or refresh
  attempted,  \* attempted[n]: attempts begun on log n
  published,  \* log and type of the events EventBridge has accepted
  unaudited,  \* the same, of events whose audit call was rejected
  announced   \* contract.discovered events accepted

rows == <<asset, ids, history>>
ghosts == <<attempted, published, unaudited>>
vars == <<cast, deployed, contract, rows, audit, exec, visit, ghosts, announced>>

Row == [id : Nat, owner : Addresses, balance : Int, block : Nat]

\* A row and its absence are told apart.
ASSUME NullAssumption ==
  Null \notin Row \cup [owner : Addresses, block : Nat] \cup {"active", "inactive"}

Steps == {"contract", "findToMint", "insert", "remint", "recordMint",
          "findToMove", "move", "findToSet", "setBalance", "findMoved",
          "recordMove", "findToBurn", "recordBurn", "burn",
          "audit", "insertAudit", "publish"}

Execution == [pc : Steps \cup {"new", "done"},
              todo : SUBSET Logs,       \* logs still to be handled
              log : Logs \cup {0}, kind : Kinds,
              attempt : 0 .. Attempts, attempts : {1, Attempts},
              row : Row \cup {Null}]    \* the asset read

TypeOK ==
  /\ cast \in Casts
  /\ deployed \in ContractTypes
  /\ contract \in {Null, "active", "inactive"}
  /\ asset \in [Tokens -> Row \cup {Null}]
  /\ ids \in Nat
  /\ history \subseteq Logs
  /\ audit \subseteq {Chain[n].tx : n \in Logs} \X Kinds
  /\ exec \in [Executions -> Execution]
  /\ visit \in [Visits -> {"new", "detect", "create", "latest", "publish",
                           "redetect", "done"}]
  /\ attempted \in [Logs -> Nat]
  /\ published \subseteq Logs \X Kinds
  /\ unaudited \subseteq Logs \X Kinds
  /\ announced \in Nat

New == [pc |-> "new", todo |-> {}, log |-> 0, kind |-> "transferred",
        attempt |-> 0, attempts |-> 1, row |-> Null]

Init ==
  /\ cast \in Casts
  /\ deployed \in ContractTypes
  /\ contract \in {Null, "active"}
  /\ asset = [t \in Tokens |-> Null]
  /\ ids = 0
  /\ history = {}
  /\ audit = {}
  /\ exec = [x \in Executions |-> New]
  /\ visit = [v \in Visits |-> "new"]
  /\ attempted = [n \in Logs |-> 0]
  /\ published = {}
  /\ unaudited = {}
  /\ announced = 0

-----------------------------------------------------------------------------
(* Events *)

First(S) == CHOOSE n \in S : \A m \in S : n <= m

\* The event types that fit a log: a mint and a burn are transfers, too.
KindsOf(n) == {"transferred"}
  \cup (IF Chain[n].from = Zero THEN {"minted"} ELSE {})
  \cup (IF Chain[n].to = Zero THEN {"burned"} ELSE {})

\* The handler that updateDatabase and handleTokenTransfer choose.
Handler(n, kind) ==
  CASE kind # "transferred" -> kind
    [] kind = "transferred" /\ Chain[n].from = Zero -> "minted"
    [] kind = "transferred" /\ Chain[n].from # Zero /\ Chain[n].to = Zero -> "burned"
    [] OTHER -> "transferred"

\* mapToUserAuditRequest: a transferred event from or to the zero address is
\* in no audit log.
Audited(n, kind) == kind # "transferred" \/ Handler(n, kind) = "transferred"

Event(x) == Chain[exec[x].log]
AuditKey(x) == <<Event(x).tx, exec[x].kind>>
Goto(x, pc) == exec' = [exec EXCEPT ![x].pc = pc,
                                    ![x].row = IF pc = "audit" THEN Null ELSE @]
GotoWith(x, pc, row) == exec' = [exec EXCEPT ![x].pc = pc, ![x].row = row]

\* ERC1155 rows keep a balance; the amounts of the chain are never zero.
Multi == deployed = "ERC1155"

\* The next event of the loop, or the end.
Begin(q) ==
  IF q.todo = {} THEN [New EXCEPT !.pc = "done"]
  ELSE LET n == First(q.todo)
       IN  [q EXCEPT !.pc = "contract", !.todo = @ \ {n}, !.log = n, !.row = Null,
              !.kind = IF Chain[n].from = Zero THEN "minted" ELSE "transferred",
              !.attempt = 1]

Attempting(q) == IF q.pc = "contract"
                   THEN attempted' = [attempted EXCEPT ![q.log] = @ + 1]
                   ELSE UNCHANGED attempted

-----------------------------------------------------------------------------
(* Where executions come from *)

\* handleWebhookEvent: one event, of any log and at any time, with retries.
Deliver(x) ==
  /\ exec[x].pc = "new"
  /\ \E n \in Logs : \E k \in KindsOf(n) \cap WebhookKinds :
       exec' = [exec EXCEPT ![x] = [New EXCEPT !.pc = "contract", !.log = n, !.kind = k,
                                                !.attempt = 1, !.attempts = Attempts]]
  /\ Attempting(exec'[x])
  /\ UNCHANGED <<cast, deployed, contract, rows, audit, visit, published, unaudited, announced>>

\* saveNFTsToDatabase, for an active contract: every log of a token that had no
\* row when the recovery began, in the order of the chain, once each.  The logs
\* of an ERC1155 contract are not the Transfer logs it asks for.
SaveNFTs(x) ==
  /\ exec[x].pc = "new" /\ contract = "active"
  /\ LET logs == IF Multi THEN {} ELSE {n \in Logs : asset[Chain[n].token] = Null}
     IN  exec' = [exec EXCEPT ![x] = Begin([New EXCEPT !.todo = logs])]
  /\ Attempting(exec'[x])
  /\ UNCHANGED <<cast, deployed, contract, rows, audit, visit, published, unaudited, announced>>

-----------------------------------------------------------------------------
(* The handlers.  A rejected call ends the handler, not the execution. *)

\* findByAddress: an event of an unknown contract changes no row.
FindContract(x) ==
  /\ exec[x].pc = "contract"
  /\ Goto(x, CASE contract = Null -> "audit"
               [] contract # Null /\ Handler(exec[x].log, exec[x].kind) = "minted" -> "findToMint"
               [] contract # Null /\ Handler(exec[x].log, exec[x].kind) = "burned" -> "findToBurn"
               [] OTHER -> "findToMove")
  /\ UNCHANGED <<cast, deployed, contract, rows, audit, visit, ghosts, announced>>

\* findByContractAndToken, and where the handler goes with and without a row.
Find(x, pc, found, missing) ==
  /\ exec[x].pc = pc
  /\ LET r == asset[Event(x).token] IN GotoWith(x, IF r = Null THEN missing ELSE found, r)
  /\ UNCHANGED <<cast, deployed, contract, rows, audit, visit, ghosts, announced>>

FindToMint(x) == Find(x, "findToMint", "remint", "insert")
FindToMove(x) == Find(x, "findToMove", "move", IF Multi THEN "findToSet" ELSE "findMoved")
FindToSet(x)  == Find(x, "findToSet", "setBalance", "findMoved")
\* Mutant: a transfer waits for the row of its token.
FindMovedWaits(x) == Find(x, "findMoved", "recordMove", "findMoved")

FindMoved(x)  == Find(x, "findMoved", "recordMove", "audit")
FindToBurn(x) == Find(x, "findToBurn", "recordBurn", "audit")

\* The next step after the handler's update of a row, which is found by its id:
\* a row deleted since it was read is left alone.
Update(x, pc, after, New_(_)) ==
  /\ exec[x].pc = pc
  /\ LET t == Event(x).token
     IN  asset' = IF asset[t] # Null /\ asset[t].id = exec[x].row.id
                    THEN [asset EXCEPT ![t] = New_(@)] ELSE asset
  /\ Goto(x, after)
  /\ UNCHANGED <<cast, deployed, contract, ids, history, audit, visit, ghosts, announced>>

\* Mutant: the branch of the new row has no else.
InsertAssetThenRemint(x) ==
  /\ exec[x].pc = "insert"
  /\ LET t == Event(x).token
         r == [id |-> ids + 1, owner |-> Event(x).to, block |-> Event(x).block,
               balance |-> IF Multi THEN Event(x).amount ELSE 1]
     IN  IF asset[t] # Null
           THEN Goto(x, "audit") /\ UNCHANGED rows
           ELSE /\ asset' = [asset EXCEPT ![t] = r]
                /\ ids' = ids + 1
                /\ GotoWith(x, "remint", r)
                /\ UNCHANGED history
  /\ UNCHANGED <<cast, deployed, contract, audit, visit, ghosts, announced>>

\* A token seen for the first time; the unique index on (contract_id, token_id)
\* rejects the second of two such inserts.
InsertAsset(x) ==
  /\ exec[x].pc = "insert"
  /\ LET t == Event(x).token
         r == [id |-> ids + 1, owner |-> Event(x).to, block |-> Event(x).block,
               balance |-> IF Multi THEN Event(x).amount ELSE 1]
     IN  IF asset[t] # Null
           THEN Goto(x, "audit") /\ UNCHANGED rows
           ELSE /\ asset' = [asset EXCEPT ![t] = r]
                /\ ids' = ids + 1
                /\ GotoWith(x, "recordMint", r)
                /\ UNCHANGED history
  /\ UNCHANGED <<cast, deployed, contract, audit, visit, ghosts, announced>>

\* A mint of a token that has a row: the balance read is added to.
Remint(x) ==
  Update(x, "remint", "recordMint",
         LAMBDA r : [r EXCEPT !.owner = Event(x).to, !.block = Event(x).block,
                              !.balance = exec[x].row.balance
                                            + (IF Multi THEN Event(x).amount ELSE 0)])

\* Mutant: the owner is set and the block is not.
MoveOwnerOnly(x) ==
  Update(x, "move", IF Multi THEN "findToSet" ELSE "findMoved",
         LAMBDA r : [r EXCEPT !.owner = Event(x).to])

\* updateAssetOwnership
Move(x) ==
  Update(x, "move", IF Multi THEN "findToSet" ELSE "findMoved",
         LAMBDA r : [r EXCEPT !.owner = Event(x).to, !.block = Event(x).block])

\* updateAssetBalance: the amount moved becomes the balance.
SetBalance(x) ==
  Update(x, "setBalance", "findMoved",
         LAMBDA r : [r EXCEPT !.balance = Event(x).amount, !.block = Event(x).block])

\* handleTokenBurn: some of an ERC1155 balance is left, or the row goes and its
\* transactions with it (ON DELETE CASCADE).
BurnAsset(x) ==
  /\ exec[x].pc = "burn"
  /\ LET t == Event(x).token
         left == exec[x].row.balance - Event(x).amount
         mine == asset[t] # Null /\ asset[t].id = exec[x].row.id
     IN  IF ~mine THEN UNCHANGED <<asset, history>>
         ELSE IF Multi /\ left > 0
           THEN /\ asset' = [asset EXCEPT ![t].balance = left, ![t].block = Event(x).block]
                /\ UNCHANGED history
           ELSE /\ asset' = [asset EXCEPT ![t] = Null]
                /\ history' = {n \in history : Chain[n].token # t}
  /\ Goto(x, "audit")
  /\ UNCHANGED <<cast, deployed, contract, ids, audit, visit, ghosts, announced>>

\* recordTransaction: the foreign key rejects the transaction of a deleted row,
\* and its rejections are swallowed.
Record(x, pc, after) ==
  /\ exec[x].pc = pc
  /\ LET r == asset[Event(x).token]
     IN  history' = IF r # Null /\ r.id = exec[x].row.id
                      THEN history \cup {exec[x].log} ELSE history
  /\ Goto(x, after)
  /\ UNCHANGED <<cast, deployed, contract, asset, ids, audit, visit, ghosts, announced>>

RecordMint(x) == Record(x, "recordMint", "audit")
RecordMove(x) == Record(x, "recordMove", "audit")
RecordBurn(x) == Record(x, "recordBurn", "burn")

-----------------------------------------------------------------------------
(* Audit and publication *)

\* Mutant: any event of the transaction is taken for this one.
FindAuditByHash(x) ==
  /\ exec[x].pc = "audit"
  /\ Goto(x, IF /\ Audited(exec[x].log, exec[x].kind)
                /\ \A k \in Kinds : <<Event(x).tx, k>> \notin audit
               THEN "insertAudit" ELSE "publish")
  /\ UNCHANGED <<cast, deployed, contract, rows, audit, visit, ghosts, announced>>

FindAudit(x) ==
  /\ exec[x].pc = "audit"
  /\ Goto(x, IF Audited(exec[x].log, exec[x].kind) /\ AuditKey(x) \notin audit
               THEN "insertAudit" ELSE "publish")
  /\ UNCHANGED <<cast, deployed, contract, rows, audit, visit, ghosts, announced>>

\* The unique index on (transaction_hash, event_type) rejects a second row,
\* which is answered like a failed one: the event is published all the same.
InsertAudit(x) ==
  /\ exec[x].pc = "insertAudit"
  /\ audit' = audit \cup {AuditKey(x)}
  /\ Goto(x, "publish")
  /\ UNCHANGED <<cast, deployed, contract, rows, visit, ghosts, announced>>

\* EventBridge accepts the event: on with the loop.
Publish(x) ==
  /\ exec[x].pc = "publish"
  /\ published' = published \cup {<<exec[x].log, exec[x].kind>>}
  /\ exec' = [exec EXCEPT ![x] = Begin(@)]
  /\ Attempting(exec'[x])
  /\ UNCHANGED <<cast, deployed, contract, rows, audit, visit, unaudited, announced>>

Again(q) == [q EXCEPT !.pc = "contract", !.attempt = @ + 1, !.row = Null]

\* Mutant: one attempt too many.
RetryOnceMore(x) ==
  /\ exec[x].pc = "publish"
  /\ exec' = [exec EXCEPT ![x] = IF @.attempt <= @.attempts
                THEN Again(@) ELSE Begin(@)]
  /\ Attempting(exec'[x])
  /\ UNCHANGED <<published, unaudited>>

\* The event is not accepted: another attempt from the start, or given up.
Retry(x) ==
  /\ exec[x].pc = "publish"
  /\ exec' = [exec EXCEPT ![x] = IF @.attempt < @.attempts
                THEN Again(@) ELSE Begin(@)]
  /\ Attempting(exec'[x])
  /\ UNCHANGED <<published, unaudited>>

\* A call is rejected: the handler gives up, a failed recordTransaction is
\* passed over, the audit log is done without.
Reject(x) ==
  \/ /\ exec[x].pc \in Steps \ {"recordBurn", "audit", "insertAudit", "publish"}
     /\ Goto(x, "audit") /\ UNCHANGED ghosts
  \/ /\ exec[x].pc = "recordBurn"
     /\ Goto(x, "burn") /\ UNCHANGED ghosts
  \/ /\ exec[x].pc \in {"audit", "insertAudit"}
     /\ Goto(x, "publish")
     /\ unaudited' = unaudited \cup {<<exec[x].log, exec[x].kind>>}
     /\ UNCHANGED <<attempted, published>>
  \/ Retry(x)

FailExecution(x) ==
  /\ x \in Failing
  /\ Reject(x)
  /\ UNCHANGED <<cast, deployed, contract, rows, audit, visit, announced>>

Handle(x) ==
  \/ FindContract(x) \/ FindToMint(x) \/ InsertAsset(x) \/ Remint(x) \/ RecordMint(x)
  \/ FindToMove(x) \/ Move(x) \/ FindToSet(x) \/ SetBalance(x) \/ FindMoved(x)
  \/ RecordMove(x) \/ FindToBurn(x) \/ RecordBurn(x) \/ BurnAsset(x)
  \/ FindAudit(x) \/ InsertAudit(x) \/ Publish(x)

-----------------------------------------------------------------------------
(* ContractDiscoveryService *)

Visit(v, from, to) == visit[v] = from /\ visit' = [visit EXCEPT ![v] = to]
ContractOnly == UNCHANGED <<cast, deployed, rows, audit, exec, ghosts>>

\* discoverContract looks for the row, refreshContractInfo needs one.
BeginVisit(v) ==
  /\ \/ contract = Null /\ Visit(v, "new", "detect")
     \/ contract # Null /\ Visit(v, "new", "redetect")
  /\ ContractOnly /\ UNCHANGED <<contract, announced>>

\* detectContractType, which takes a contract it cannot probe for "Unknown".
Detect(v) == /\ Visit(v, "detect", "create") \/ Visit(v, "detect", "done")
             /\ ContractOnly /\ UNCHANGED <<contract, announced>>

\* Mutant: a second row of the address is not rejected.
CreateContractAgain(v) ==
  /\ Visit(v, "create", "latest") /\ contract' = "active"
  /\ ContractOnly /\ UNCHANGED announced

\* The unique index on the address rejects the second of two discoveries, which
\* answers that there is no contract.
CreateContract(v) ==
  /\ \/ contract = Null /\ contract' = "active" /\ Visit(v, "create", "latest")
     \/ contract # Null /\ UNCHANGED contract /\ Visit(v, "create", "done")
  /\ ContractOnly /\ UNCHANGED announced

\* execute of contract.discovered: its handler finds the row just made.
GetLatestBlock(v) == /\ Visit(v, "latest", "publish")
                     /\ ContractOnly /\ UNCHANGED <<contract, announced>>

PublishDiscovered(v) == /\ Visit(v, "publish", "done")
                        /\ announced' = announced + 1
                        /\ ContractOnly /\ UNCHANGED contract

Refresh(v) == /\ Visit(v, "redetect", "done")
              /\ contract' \in {"active", "inactive"}
              /\ ContractOnly /\ UNCHANGED announced

FailVisit(v) == /\ v \in Failing
                /\ visit[v] \notin {"new", "done"}
                /\ visit' = [visit EXCEPT ![v] = "done"]
                /\ ContractOnly /\ UNCHANGED <<contract, announced>>

Explore(v) == Detect(v) \/ CreateContract(v) \/ GetLatestBlock(v)
                \/ PublishDiscovered(v) \/ Refresh(v)

-----------------------------------------------------------------------------

Next == \/ \E x \in Executions \cap cast : Deliver(x) \/ SaveNFTs(x) \/ Handle(x) \/ FailExecution(x)
        \/ \E v \in Visits \cap cast : BeginVisit(v) \/ Explore(v) \/ FailVisit(v)

Spec == Init /\ [][Next]_vars

\* A promise whose call is answered or rejected goes on.
FairSpec == Spec /\ \A x \in Executions : WF_vars(Handle(x) \/ FailExecution(x))

\* However executions overlap, repeat events and fail halfway, a token of an
\* ERC721 contract is as one of its transfers left it.
Registry == INSTANCE TokenRegistry WITH
  held <- [t \in Tokens |-> IF asset[t] = Null \/ Multi THEN Null
                            ELSE [owner |-> asset[t].owner, block |-> asset[t].block]]

RowsFollowTransfers == Registry!Spec

\* What the attempts begun on each log can have given of token t.
Given(t) == [n \in Logs |-> IF Chain[n].token = t THEN attempted[n] * Chain[n].amount ELSE 0]

\* No retry and no race makes more of a token than the mints attempted and the
\* transfers, which set the balance to what they moved.
BalanceBacked ==
  \A t \in Tokens : asset[t] # Null => asset[t].balance <= SumFunctionOnSet(Given(t), Logs)

\* The audit log keeps one row for each transaction and type of event.  An event
\* that reached EventBridge is represented by such a row unless an audit call of
\* it was rejected: a race of two executions for the row, or an event of another
\* type in the transaction, does not leave it without one.  A second event of
\* the same type in the transaction has no row of its own.
PublishedIsAudited ==
  \A p \in published \ unaudited : Audited(p[1], p[2]) => <<Chain[p[1]].tx, p[2]>> \in audit

\* However many discoveries of the contract overlap, it is announced once.
AnnouncedOnce == announced <= 1

\* Every execution comes to an end, after its attempts at the latest.
EveryExecutionEnds == \A x \in Executions : exec[x].pc # "new" ~> exec[x].pc = "done"

\* What the entity says of a row: its owner is the current one.  Once every log
\* has been handled and nothing is under way, that is the one of the last log.
LastLog(t) == CHOOSE n \in Logs : /\ Chain[n].token = t
                                  /\ \A m \in Logs : Chain[m].token = t => m <= n
OwnerIsCurrent ==
  (/\ \A x \in Executions : exec[x].pc \in {"new", "done"}
   /\ \A n \in Logs : attempted[n] > 0)
  => \A t \in Tokens : asset[t] # Null => asset[t].owner = Chain[LastLog(t)].to
=============================================================================
