-------------------------- MODULE AssetLedger_proofs --------------------------
(* What holds of the rows, the audit log and the announcements of a contract   *)
(* whatever its logs are and however many executions and discoveries overlap.  *)
EXTENDS AssetLedger, SumTheorems

MintSteps == {"findToMint", "insert", "remint", "recordMint"}
MoveSteps == {"findToMove", "move", "findToSet", "setBalance", "findMoved", "recordMove"}
BurnSteps == {"findToBurn", "recordBurn", "burn"}
Holding == {"remint", "recordMint", "move", "setBalance", "recordMove", "recordBurn", "burn"}

\* An execution handles a log of a type that fits it, with the handler of that
\* type, and writes with the row it has read.
Sound(e) ==
  /\ e.pc \in Steps => e.log \in Logs /\ e.kind \in KindsOf(e.log)
  /\ e.pc \in MintSteps => Chain[e.log].from = Zero
  /\ e.pc \in MoveSteps => Chain[e.log].from # Zero /\ Chain[e.log].to # Zero
  /\ e.pc \in BurnSteps => Chain[e.log].from # Zero /\ Chain[e.log].to = Zero
  /\ e.pc \in {"findToSet", "setBalance"} => Multi
  /\ e.pc \in Holding => e.row \in Row

FlowInv == TypeOK /\ \A x \in Executions : Sound(exec[x])

USE AttemptsAssumption, ChainAssumption, NullAssumption, WebhookKindsAssumption

\* ------------------------------------------------------------------- lemmas

\* The next log of a recovery is one of those to do.
LEMMA FirstIsOne ==
  ASSUME NEW S \in SUBSET Logs, S # {}
  PROVE  First(S) \in S
<1>1. Logs \subseteq Nat
  BY DEF Logs
<1>2. \E n \in S : \A m \in S : n <= m
  BY <1>1, LeastExists
<1> QED BY <1>2 DEF First

\* The handler of a type that fits a log is the one of what the log does.
LEMMA HandlerFits ==
  ASSUME NEW n \in Logs, NEW k \in KindsOf(n)
  PROVE  /\ k \in Kinds
         /\ Handler(n, k) \in Kinds
         /\ Handler(n, k) = "minted" => Chain[n].from = Zero
         /\ Handler(n, k) = "transferred" => Chain[n].from # Zero /\ Chain[n].to # Zero
         /\ Handler(n, k) = "burned" => Chain[n].from # Zero /\ Chain[n].to = Zero
  BY DEF Handler, KindsOf, Kinds, Logs

LEMMA ChainFits ==
  ASSUME NEW n \in Logs
  PROVE  /\ Chain[n].token \in Tokens /\ Chain[n].amount \in Nat \ {0} /\ Chain[n].amount \in Int
         /\ Chain[n].block \in Nat /\ Chain[n].to \in Addresses
  BY DEF Logs, Addresses

LEMMA NewFits == New \in Execution /\ Sound(New) /\ Sound([New EXCEPT !.pc = "done"])
                   /\ [New EXCEPT !.pc = "done"] \in Execution
  BY DEF New, Execution, Sound, Steps, MintSteps, MoveSteps, BurnSteps, Holding, Kinds

\* What the loop goes on with.
LEMMA BeginFits ==
  ASSUME NEW q \in Execution
  PROVE  Begin(q) \in Execution /\ Sound(Begin(q)) /\ Begin(q).pc \in {"contract", "done"}
<1>1. CASE q.todo = {}
  BY <1>1, NewFits DEF Begin, New
<1>2. CASE q.todo # {}
  <2> DEFINE n == First(q.todo)
  <2>1. q.todo \in SUBSET Logs
    BY DEF Execution
  <2>2. n \in q.todo /\ n \in Logs
    BY <1>2, <2>1, FirstIsOne
  <2> HIDE DEF n
  <2>3. Begin(q) = [q EXCEPT !.pc = "contract", !.todo = @ \ {n}, !.log = n, !.row = Null,
              !.kind = IF Chain[n].from = Zero THEN "minted" ELSE "transferred",
              !.attempt = 1]
    BY <1>2 DEF Begin, n
  <2>4. Begin(q) \in Execution
    <3>1. Begin(q) = [pc |-> "contract", todo |-> q.todo \ {n}, log |-> n,
                      kind |-> IF Chain[n].from = Zero THEN "minted" ELSE "transferred",
                      attempt |-> 1, attempts |-> q.attempts, row |-> Null]
      BY <2>3 DEF Execution
    <3>2. q.todo \ {n} \in SUBSET Logs /\ 1 \in 0 .. Attempts /\ q.attempts \in {1, Attempts}
      BY <2>1 DEF Execution
    <3> QED BY <2>2, <3>1, <3>2 DEF Execution, Steps, Kinds
  <2>5. Begin(q).pc = "contract" /\ Begin(q).log = n
        /\ Begin(q).kind = IF Chain[n].from = Zero THEN "minted" ELSE "transferred"
    BY <2>3 DEF Execution
  <2>6. Sound(Begin(q))
    BY <2>2, <2>5 DEF Sound, MintSteps, MoveSteps, BurnSteps, Holding, KindsOf
  <2> QED BY <2>4, <2>5, <2>6
<1> QED BY <1>1, <1>2

\* One execution moves and the others stay where they are.
LEMMA OthersStay ==
  ASSUME FlowInv, NEW x \in Executions, NEW q \in Execution, Sound(q),
         exec' = [exec EXCEPT ![x] = q], deployed' = deployed
  PROVE  exec' \in [Executions -> Execution] /\ \A y \in Executions : Sound(exec[y])'
  BY DEF FlowInv, TypeOK, Sound, Multi

After(e, pc, row) == [e EXCEPT !.pc = pc, !.row = row]

LEMMA AfterFits ==
  ASSUME NEW e \in Execution, NEW pc \in Steps, NEW row \in Row \cup {Null}
  PROVE  /\ After(e, pc, row) \in Execution
         /\ After(e, pc, row).pc = pc /\ After(e, pc, row).row = row
         /\ After(e, pc, row).log = e.log /\ After(e, pc, row).kind = e.kind
  BY DEF After, Execution

LEMMA GotoGoes ==
  ASSUME FlowInv, NEW x \in Executions, NEW pc \in Steps, Goto(x, pc)
  PROVE  exec' = [exec EXCEPT ![x] = After(exec[x], pc, IF pc = "audit" THEN Null ELSE exec[x].row)]
  BY DEF FlowInv, TypeOK, Goto, After, Execution

LEMMA GotoWithGoes ==
  ASSUME FlowInv, NEW x \in Executions, NEW pc, NEW row, GotoWith(x, pc, row)
  PROVE  exec' = [exec EXCEPT ![x] = After(exec[x], pc, row)]
  BY DEF FlowInv, TypeOK, GotoWith, After, Execution

\* A step of an execution at a call goes to another call with the same log, and
\* a row in hand if the call needs one.
Fits(e, pc, row) ==
  /\ pc \in MintSteps => e.pc \in MintSteps \/ Chain[e.log].from = Zero
  /\ pc \in MoveSteps =>
       e.pc \in MoveSteps \/ (Chain[e.log].from # Zero /\ Chain[e.log].to # Zero)
  /\ pc \in BurnSteps =>
       e.pc \in BurnSteps \/ (Chain[e.log].from # Zero /\ Chain[e.log].to = Zero)
  /\ pc \in {"findToSet", "setBalance"} => Multi
  /\ pc \in Holding => row \in Row

LEMMA AfterSound ==
  ASSUME NEW e \in Execution, Sound(e), e.pc \in Steps, NEW pc \in Steps,
         NEW row \in Row \cup {Null}, Fits(e, pc, row)
  PROVE  After(e, pc, row) \in Execution /\ Sound(After(e, pc, row))
<1>1. /\ After(e, pc, row) \in Execution
      /\ After(e, pc, row).pc = pc /\ After(e, pc, row).row = row
      /\ After(e, pc, row).log = e.log /\ After(e, pc, row).kind = e.kind
  BY AfterFits
<1>2. Sound(After(e, pc, row))
  BY <1>1 DEF Sound, Fits
<1> QED BY <1>1, <1>2

LEMMA StepFlows ==
  ASSUME FlowInv, deployed' = deployed,
         NEW x \in Executions, exec[x].pc \in Steps, NEW pc \in Steps,
         NEW row \in Row \cup {Null}, Fits(exec[x], pc, row),
         exec' = [exec EXCEPT ![x] = After(exec[x], pc, row)]
  PROVE  exec' \in [Executions -> Execution] /\ \A y \in Executions : Sound(exec[y])'
<1>1. exec[x] \in Execution /\ Sound(exec[x])
  BY DEF FlowInv, TypeOK
<1> QED BY <1>1, AfterSound, OthersStay

\* A call that goes on with the row it has.
LEMMA GotoFlows ==
  ASSUME FlowInv, deployed' = deployed,
         NEW x \in Executions, exec[x].pc \in Steps, NEW pc \in Steps,
         Fits(exec[x], pc, exec[x].row), Goto(x, pc)
  PROVE  exec' \in [Executions -> Execution] /\ \A y \in Executions : Sound(exec[y])'
<1> DEFINE row == IF pc = "audit" THEN Null ELSE exec[x].row
<1>1. exec' = [exec EXCEPT ![x] = After(exec[x], pc, row)]
  BY GotoGoes
<1>2. exec[x].row \in Row \cup {Null}
  BY DEF FlowInv, TypeOK, Execution
<1>3. Fits(exec[x], pc, row)
  BY DEF Fits, MintSteps, MoveSteps, BurnSteps, Holding
<1> QED BY <1>1, <1>2, <1>3, StepFlows

LEMMA BeginFlows ==
  ASSUME FlowInv, deployed' = deployed,
         NEW x \in Executions, NEW q \in Execution,
         exec' = [exec EXCEPT ![x] = Begin(q)]
  PROVE  exec' \in [Executions -> Execution] /\ \A y \in Executions : Sound(exec[y])'
  BY BeginFits, OthersStay

\* What an attempt counts.
LEMMA AttemptingCounts ==
  ASSUME FlowInv, NEW q \in Execution, Sound(q), Attempting(q)
  PROVE  attempted' \in [Logs -> Nat]
<1>1. CASE q.pc = "contract"
  BY <1>1 DEF Attempting, FlowInv, TypeOK, Sound, Steps
<1>2. CASE q.pc # "contract"
  BY <1>2 DEF Attempting, FlowInv, TypeOK
<1> QED BY <1>1, <1>2

\* ------------------------------------------- executions flow as they should

LEMMA DeliverFlows ==
  ASSUME FlowInv, NEW x \in Executions, Deliver(x)
  PROVE  FlowInv'
<1>0. PICK n \in Logs : \E k \in KindsOf(n) \cap WebhookKinds :
        exec' = [exec EXCEPT ![x] = [New EXCEPT !.pc = "contract", !.log = n, !.kind = k,
                                                !.attempt = 1, !.attempts = Attempts]]
  BY DEF Deliver
<1>1. PICK k \in KindsOf(n) \cap WebhookKinds :
        exec' = [exec EXCEPT ![x] = [New EXCEPT !.pc = "contract", !.log = n, !.kind = k,
                                                !.attempt = 1, !.attempts = Attempts]]
  BY <1>0
<1> DEFINE q == [pc |-> "contract", todo |-> {}, log |-> n, kind |-> k,
                 attempt |-> 1, attempts |-> Attempts, row |-> Null]
<1>2. exec' = [exec EXCEPT ![x] = q]
  <2>1. [New EXCEPT !.pc = "contract", !.log = n, !.kind = k,
                    !.attempt = 1, !.attempts = Attempts] = q
    <3>1. New.todo = {} /\ New.row = Null
      BY DEF New
    <3>2. ASSUME NEW d, d = [New EXCEPT !.pc = "contract", !.log = n, !.kind = k,
                                         !.attempt = 1, !.attempts = Attempts]
          PROVE  d = q
      BY <3>1, <3>2, NewFits DEF Execution
    <3> QED BY <3>2
  <2> QED BY <1>1, <2>1
<1>3. q \in Execution
  BY HandlerFits DEF Execution, Steps
<1>4. Sound(q)
  BY DEF Sound, MintSteps, MoveSteps, BurnSteps, Holding
<1>5. exec'[x] = q
  BY <1>2 DEF FlowInv, TypeOK
<1>6. Attempting(q) /\ UNCHANGED <<cast, deployed, contract, rows, audit, visit, published, unaudited, announced>>
  BY <1>5 DEF Deliver
<1> HIDE DEF q
<1>7. exec' \in [Executions -> Execution] /\ \A y \in Executions : Sound(exec[y])'
  BY <1>2, <1>3, <1>4, <1>6, OthersStay
<1>8. attempted' \in [Logs -> Nat]
  BY <1>3, <1>4, <1>6, AttemptingCounts
<1> QED BY <1>6, <1>7, <1>8 DEF FlowInv, TypeOK, rows

LEMMA SaveNFTsFlows ==
  ASSUME FlowInv, NEW x \in Executions, SaveNFTs(x)
  PROVE  FlowInv'
<1> DEFINE logs == IF Multi THEN {} ELSE {n \in Logs : asset[Chain[n].token] = Null}
           q == [New EXCEPT !.todo = logs]
<1>1. exec' = [exec EXCEPT ![x] = Begin(q)]
  BY DEF SaveNFTs
<1>2. q \in Execution
  BY NewFits DEF Execution, New
<1> HIDE DEF q
<1>3. exec' \in [Executions -> Execution] /\ \A y \in Executions : Sound(exec[y])'
  BY <1>1, <1>2, BeginFlows DEF SaveNFTs
<1>4. exec'[x] = Begin(q) /\ Attempting(Begin(q))
  BY <1>1 DEF SaveNFTs, FlowInv, TypeOK
<1>5. attempted' \in [Logs -> Nat]
  BY <1>2, <1>4, BeginFits, AttemptingCounts
<1> QED BY <1>3, <1>5 DEF SaveNFTs, FlowInv, TypeOK, rows

LEMMA FindFlows ==
  ASSUME FlowInv, NEW x \in Executions, NEW pc \in Steps, NEW found \in Steps,
         NEW missing \in Steps, Find(x, pc, found, missing),
         missing \notin Holding, found \in Holding,
         missing = "findToSet" => Multi, found = "setBalance" => Multi,
         {found, missing} \cap MintSteps # {} => pc \in MintSteps,
         {found, missing} \cap MoveSteps # {} => pc \in MoveSteps,
         {found, missing} \cap BurnSteps # {} => pc \in BurnSteps
  PROVE  FlowInv'
<1> DEFINE r == asset[Event(x).token]
           after == IF r = Null THEN missing ELSE found
<1>1. exec[x] \in Execution /\ Sound(exec[x]) /\ exec[x].pc = pc
  BY DEF FlowInv, TypeOK, Find
<1>2. r \in Row \cup {Null}
  <2>1. Event(x).token \in Tokens
    BY <1>1, ChainFits DEF Sound, Event
  <2> QED BY <2>1 DEF FlowInv, TypeOK
<1>3. GotoWith(x, after, r)
  BY DEF Find
<1>4. Fits(exec[x], after, r)
  <2>1. /\ after \in MintSteps => pc \in MintSteps
        /\ after \in MoveSteps => pc \in MoveSteps
        /\ after \in BurnSteps => pc \in BurnSteps
    OBVIOUS
  <2>2. after \in Holding => r \in Row
    BY <1>2
  <2>3. after \in {"findToSet", "setBalance"} => Multi
    BY DEF Holding
  <2> HIDE DEF after, r
  <2> QED BY <1>1, <2>1, <2>2, <2>3 DEF Fits
<1>5. exec' = [exec EXCEPT ![x] = After(exec[x], after, r)]
  BY <1>3, GotoWithGoes
<1>6. exec' \in [Executions -> Execution] /\ \A y \in Executions : Sound(exec[y])'
  BY <1>1, <1>2, <1>4, <1>5, StepFlows DEF Find
<1> QED BY <1>6 DEF Find, FlowInv, TypeOK, rows, ghosts

LEMMA FindsFlow ==
  ASSUME FlowInv, NEW x \in Executions,
         FindToMint(x) \/ FindToMove(x) \/ FindToSet(x) \/ FindMoved(x) \/ FindToBurn(x)
  PROVE  FlowInv'
<1> USE DEF Steps, Holding, MintSteps, MoveSteps, BurnSteps
<1>1. CASE FindToMint(x)
  BY <1>1, FindFlows DEF FindToMint
<1>2. CASE FindToMove(x) /\ Multi
  BY <1>2, FindFlows DEF FindToMove
<1>3. CASE FindToMove(x) /\ ~Multi
  BY <1>3, FindFlows DEF FindToMove
<1>4. CASE FindToSet(x)
  <2>1. Multi
    BY <1>4 DEF FindToSet, Find, FlowInv, Sound
  <2> QED BY <1>4, <2>1, FindFlows DEF FindToSet
<1>5. CASE FindMoved(x)
  BY <1>5, FindFlows DEF FindMoved
<1>6. CASE FindToBurn(x)
  BY <1>6, FindFlows DEF FindToBurn
<1> QED BY <1>1, <1>2, <1>3, <1>4, <1>5, <1>6

LEMMA FindContractFlows ==
  ASSUME FlowInv, NEW x \in Executions, FindContract(x)
  PROVE  FlowInv'
<1> DEFINE e == exec[x]
<1>1. e \in Execution /\ Sound(e) /\ e.pc = "contract" /\ e.pc \in Steps
  BY DEF FlowInv, TypeOK, FindContract, Steps
<1>2. e.log \in Logs /\ e.kind \in KindsOf(e.log)
  BY <1>1 DEF Sound
<1>3. \E pc \in {"audit", "findToMint", "findToBurn", "findToMove"} :
        /\ Goto(x, pc)
        /\ pc = "findToMint" => Handler(e.log, e.kind) = "minted"
        /\ pc = "findToBurn" => Handler(e.log, e.kind) = "burned"
        /\ pc = "findToMove" => Handler(e.log, e.kind) = "transferred"
  <2>1. Handler(e.log, e.kind) \in Kinds
    BY <1>2, HandlerFits
  <2>2. CASE contract = Null
    BY <2>2 DEF FindContract
  <2>3. CASE contract # Null /\ Handler(e.log, e.kind) = "minted"
    BY <2>3 DEF FindContract
  <2>4. CASE contract # Null /\ Handler(e.log, e.kind) = "burned"
    BY <2>4 DEF FindContract
  <2>5. CASE contract # Null /\ Handler(e.log, e.kind) = "transferred"
    BY <2>5 DEF FindContract
  <2> QED BY <2>1, <2>2, <2>3, <2>4, <2>5 DEF Kinds
<1>4. PICK pc \in {"audit", "findToMint", "findToBurn", "findToMove"} :
        /\ Goto(x, pc)
        /\ pc = "findToMint" => Handler(e.log, e.kind) = "minted"
        /\ pc = "findToBurn" => Handler(e.log, e.kind) = "burned"
        /\ pc = "findToMove" => Handler(e.log, e.kind) = "transferred"
  BY <1>3
<1>5. Fits(e, pc, e.row)
  BY <1>2, <1>4, HandlerFits DEF Fits, MintSteps, MoveSteps, BurnSteps, Holding
<1>6. exec' \in [Executions -> Execution] /\ \A y \in Executions : Sound(exec[y])'
  BY <1>1, <1>4, <1>5, GotoFlows DEF FindContract, Steps
<1> QED BY <1>6 DEF FindContract, FlowInv, TypeOK, rows, ghosts

\* An event in hand is one of the chain, and its row is where its token is.
LEMMA EventFits ==
  ASSUME FlowInv, NEW x \in Executions, exec[x].pc \in Steps
  PROVE  /\ exec[x] \in Execution /\ Sound(exec[x])
         /\ exec[x].log \in Logs /\ exec[x].kind \in KindsOf(exec[x].log) /\ exec[x].kind \in Kinds
         /\ Event(x).token \in Tokens /\ Event(x).amount \in Nat \ {0}
         /\ Event(x).block \in Nat /\ Event(x).to \in Addresses
         /\ asset[Event(x).token] \in Row \cup {Null}
<1>1. exec[x] \in Execution /\ Sound(exec[x])
  BY DEF FlowInv, TypeOK
<1>2. exec[x].log \in Logs /\ exec[x].kind \in KindsOf(exec[x].log)
  BY <1>1 DEF Sound
<1>3. Event(x).token \in Tokens
  BY <1>2, ChainFits DEF Event
<1> QED BY <1>1, <1>2, <1>3, ChainFits, HandlerFits DEF Event, FlowInv, TypeOK

\* An update of a row that makes it another row.
LEMMA UpdateFlows ==
  ASSUME FlowInv, NEW x \in Executions, exec[x].pc \in Steps, NEW pc \in Steps,
         Fits(exec[x], pc, exec[x].row), Goto(x, pc),
         asset' \in [Tokens -> Row \cup {Null}],
         UNCHANGED <<cast, deployed, contract, ids, history, audit, visit, ghosts, announced>>
  PROVE  FlowInv'
<1>1. exec' \in [Executions -> Execution] /\ \A y \in Executions : Sound(exec[y])'
  BY GotoFlows
<1> QED BY <1>1 DEF FlowInv, TypeOK, ghosts

\* The row with its id, changed, is a row like the others.
Changed(x, r) ==
  asset' = IF asset[Event(x).token] # Null /\ asset[Event(x).token].id = exec[x].row.id
             THEN [asset EXCEPT ![Event(x).token] = r] ELSE asset

LEMMA ChangedFits ==
  ASSUME FlowInv, NEW x \in Executions, exec[x].pc \in Steps, NEW r,
         asset[Event(x).token] \in Row => r \in Row, Changed(x, r)
  PROVE  asset' \in [Tokens -> Row \cup {Null}]
<1>1. Event(x).token \in Tokens /\ asset[Event(x).token] \in Row \cup {Null}
  BY EventFits
<1> QED BY <1>1 DEF Changed, FlowInv, TypeOK

LEMMA RowChanges ==
  ASSUME NEW r \in Row, NEW o \in Addresses, NEW b \in Int, NEW k \in Nat
  PROVE  /\ [r EXCEPT !.owner = o, !.block = k, !.balance = b] \in Row
         /\ [r EXCEPT !.owner = o, !.block = k] \in Row
         /\ [r EXCEPT !.balance = b, !.block = k] \in Row
  BY DEF Row

LEMMA UpdatesFlow ==
  ASSUME FlowInv, NEW x \in Executions, Remint(x) \/ Move(x) \/ SetBalance(x)
  PROVE  FlowInv'
<1> DEFINE t == Event(x).token
<1>0. exec[x].pc \in {"remint", "move", "setBalance"} /\ exec[x].pc \in Steps /\ exec[x].pc \in Holding
  BY DEF Remint, Move, SetBalance, Update, Steps, Holding
<1>1. /\ Sound(exec[x]) /\ exec[x].row \in Row
      /\ Event(x).amount \in Int /\ Event(x).block \in Nat /\ Event(x).to \in Addresses
  BY <1>0, EventFits DEF Sound
<1>2. CASE Remint(x)
  <2> DEFINE r == [asset[t] EXCEPT !.owner = Event(x).to, !.block = Event(x).block,
                     !.balance = exec[x].row.balance + (IF Multi THEN Event(x).amount ELSE 0)]
  <2>1. Changed(x, r)
    BY <1>2 DEF Remint, Update, Changed
  <2>2. exec[x].row.balance + (IF Multi THEN Event(x).amount ELSE 0) \in Int
    BY <1>1 DEF Row
  <2>3. asset' \in [Tokens -> Row \cup {Null}]
    BY <1>0, <1>1, <2>1, <2>2, RowChanges, ChangedFits
  <2>4. exec[x].pc = "remint" /\ Goto(x, "recordMint")
        /\ UNCHANGED <<cast, deployed, contract, ids, history, audit, visit, ghosts, announced>>
    BY <1>2 DEF Remint, Update
  <2>5. Fits(exec[x], "recordMint", exec[x].row) /\ "recordMint" \in Steps
    BY <1>1, <2>4 DEF Fits, MintSteps, MoveSteps, BurnSteps, Steps
  <2> QED BY <1>0, <2>3, <2>4, <2>5, UpdateFlows
<1>3. CASE Move(x)
  <2> DEFINE r == [asset[t] EXCEPT !.owner = Event(x).to, !.block = Event(x).block]
             pc == IF Multi THEN "findToSet" ELSE "findMoved"
  <2>1. Changed(x, r)
    BY <1>3 DEF Move, Update, Changed
  <2>3. asset' \in [Tokens -> Row \cup {Null}]
    BY <1>0, <1>1, <2>1, RowChanges, ChangedFits
  <2>4. exec[x].pc = "move" /\ Goto(x, pc)
        /\ UNCHANGED <<cast, deployed, contract, ids, history, audit, visit, ghosts, announced>>
    BY <1>3 DEF Move, Update
  <2>5. Fits(exec[x], pc, exec[x].row) /\ pc \in Steps
    BY <1>1, <2>4 DEF Fits, MintSteps, MoveSteps, BurnSteps, Steps
  <2> QED BY <1>0, <2>3, <2>4, <2>5, UpdateFlows
<1>4. CASE SetBalance(x)
  <2> DEFINE r == [asset[t] EXCEPT !.balance = Event(x).amount, !.block = Event(x).block]
  <2>1. Changed(x, r)
    BY <1>4 DEF SetBalance, Update, Changed
  <2>3. asset' \in [Tokens -> Row \cup {Null}]
    BY <1>0, <1>1, <2>1, RowChanges, ChangedFits
  <2>4. exec[x].pc = "setBalance" /\ Goto(x, "findMoved")
        /\ UNCHANGED <<cast, deployed, contract, ids, history, audit, visit, ghosts, announced>>
    BY <1>4 DEF SetBalance, Update
  <2>5. Fits(exec[x], "findMoved", exec[x].row) /\ "findMoved" \in Steps
    BY <1>1, <2>4 DEF Fits, MintSteps, MoveSteps, BurnSteps, Steps
  <2> QED BY <1>0, <2>3, <2>4, <2>5, UpdateFlows
<1> QED BY <1>2, <1>3, <1>4

LEMMA InsertAssetFlows ==
  ASSUME FlowInv, NEW x \in Executions, InsertAsset(x)
  PROVE  FlowInv'
<1> DEFINE t == Event(x).token
           r == [id |-> ids + 1, owner |-> Event(x).to, block |-> Event(x).block,
                 balance |-> IF Multi THEN Event(x).amount ELSE 1]
<1>1. exec[x].pc = "insert" /\ exec[x].pc \in Steps
      /\ UNCHANGED <<cast, deployed, contract, audit, visit, ghosts, announced>>
  BY DEF InsertAsset, Steps
<1>2. /\ t \in Tokens /\ Event(x).amount \in Int /\ Event(x).block \in Nat
      /\ Event(x).to \in Addresses /\ exec[x] \in Execution /\ ids \in Nat
  BY <1>1, EventFits DEF FlowInv, TypeOK
<1>3. r \in Row
  BY <1>2 DEF Row
<1>4. CASE asset[t] # Null
  <2>1. Goto(x, "audit") /\ UNCHANGED rows
    BY <1>4 DEF InsertAsset
  <2>2. Fits(exec[x], "audit", exec[x].row) /\ "audit" \in Steps
    BY DEF Fits, MintSteps, MoveSteps, BurnSteps, Holding, Steps
  <2>3. asset' \in [Tokens -> Row \cup {Null}]
    BY <2>1 DEF rows, FlowInv, TypeOK
  <2> QED BY <1>1, <2>1, <2>2, <2>3, UpdateFlows DEF rows
<1>5. CASE asset[t] = Null
  <2>1. asset' = [asset EXCEPT ![t] = r] /\ ids' = ids + 1 /\ history' = history
        /\ GotoWith(x, "recordMint", r)
    BY <1>5 DEF InsertAsset
  <2> HIDE DEF r
  <2>2. Fits(exec[x], "recordMint", r) /\ "recordMint" \in Steps
    BY <1>1, <1>3 DEF Fits, MintSteps, MoveSteps, BurnSteps, Steps
  <2>3. exec' \in [Executions -> Execution] /\ \A y \in Executions : Sound(exec[y])'
    BY <1>1, <1>3, <2>1, <2>2, GotoWithGoes, StepFlows
  <2>4. asset' \in [Tokens -> Row \cup {Null}] /\ ids' \in Nat
    BY <1>2, <1>3, <2>1 DEF FlowInv, TypeOK
  <2> QED BY <1>1, <2>1, <2>3, <2>4 DEF FlowInv, TypeOK, ghosts
<1> QED BY <1>4, <1>5

LEMMA RecordsFlow ==
  ASSUME FlowInv, NEW x \in Executions, RecordMint(x) \/ RecordMove(x) \/ RecordBurn(x)
  PROVE  FlowInv'
<1>1. /\ exec[x].pc \in {"recordMint", "recordMove", "recordBurn"} /\ exec[x].pc \in Steps
      /\ exec[x].pc \in Holding
      /\ Goto(x, IF exec[x].pc = "recordBurn" THEN "burn" ELSE "audit")
      /\ history' \in {history, history \cup {exec[x].log}}
      /\ UNCHANGED <<cast, deployed, contract, asset, ids, audit, visit, ghosts, announced>>
  BY DEF RecordMint, RecordMove, RecordBurn, Record, Steps, Holding
<1> DEFINE pc == IF exec[x].pc = "recordBurn" THEN "burn" ELSE "audit"
<1>2. exec[x].log \in Logs /\ Sound(exec[x])
  BY <1>1, EventFits
<1>3. Fits(exec[x], pc, exec[x].row) /\ pc \in Steps
  BY <1>1, <1>2 DEF Fits, Sound, MintSteps, MoveSteps, BurnSteps, Holding, Steps
<1>4. exec' \in [Executions -> Execution] /\ \A y \in Executions : Sound(exec[y])'
  BY <1>1, <1>3, GotoFlows
<1> QED BY <1>1, <1>2, <1>4 DEF FlowInv, TypeOK, ghosts

LEMMA BurnAssetFlows ==
  ASSUME FlowInv, NEW x \in Executions, BurnAsset(x)
  PROVE  FlowInv'
<1> DEFINE t == Event(x).token
           left == exec[x].row.balance - Event(x).amount
<1>1. exec[x].pc = "burn" /\ exec[x].pc \in Steps /\ exec[x].pc \in Holding /\ Goto(x, "audit")
      /\ UNCHANGED <<cast, deployed, contract, ids, audit, visit, ghosts, announced>>
  BY DEF BurnAsset, Steps, Holding
<1>2. /\ t \in Tokens /\ Event(x).amount \in Int /\ Event(x).block \in Nat
      /\ exec[x].row \in Row /\ asset[t] \in Row \cup {Null}
  BY <1>1, EventFits DEF Sound
<1>3. Fits(exec[x], "audit", exec[x].row) /\ "audit" \in Steps
  BY DEF Fits, MintSteps, MoveSteps, BurnSteps, Holding, Steps
<1>4. exec' \in [Executions -> Execution] /\ \A y \in Executions : Sound(exec[y])'
  BY <1>1, <1>3, GotoFlows
<1>5. asset' \in [Tokens -> Row \cup {Null}] /\ history' \subseteq Logs
  <2>1. left \in Int
    BY <1>2 DEF Row
  <2>2. asset[t] \in Row => [asset[t] EXCEPT !.balance = left, !.block = Event(x).block] \in Row
    BY <1>2, <2>1 DEF Row
  <2>3. \/ asset' = asset
        \/ asset[t] # Null /\ asset' = [asset EXCEPT ![t].balance = left, ![t].block = Event(x).block]
        \/ asset' = [asset EXCEPT ![t] = Null]
    BY DEF BurnAsset
  <2>4. history' = history \/ history' = {n \in history : Chain[n].token # t}
    BY DEF BurnAsset
  <2>5. asset \in [Tokens -> Row \cup {Null}] /\ history \subseteq Logs
    BY DEF FlowInv, TypeOK
  <2>6. [asset EXCEPT ![t].balance = left, ![t].block = Event(x).block]
          = [asset EXCEPT ![t] = [asset[t] EXCEPT !.balance = left, !.block = Event(x).block]]
    BY <1>2, <2>5
  <2> HIDE DEF left
  <2> QED BY <1>2, <2>2, <2>3, <2>4, <2>5, <2>6
<1> QED BY <1>1, <1>4, <1>5 DEF FlowInv, TypeOK, ghosts

LEMMA AuditFlows ==
  ASSUME FlowInv, NEW x \in Executions, FindAudit(x) \/ InsertAudit(x)
  PROVE  FlowInv'
<1>1. /\ exec[x].pc \in {"audit", "insertAudit"} /\ exec[x].pc \in Steps
      /\ Goto(x, "publish") \/ Goto(x, "insertAudit")
      /\ audit' \in {audit, audit \cup {AuditKey(x)}}
      /\ UNCHANGED <<cast, deployed, contract, rows, visit, ghosts, announced>>
  BY DEF FindAudit, InsertAudit, Steps
<1>2. AuditKey(x) \in {Chain[n].tx : n \in Logs} \X Kinds
  BY <1>1, EventFits DEF AuditKey, Event
<1>3. \A pc \in {"publish", "insertAudit"} : Fits(exec[x], pc, exec[x].row) /\ pc \in Steps
  BY DEF Fits, MintSteps, MoveSteps, BurnSteps, Holding, Steps
<1>4. exec' \in [Executions -> Execution] /\ \A y \in Executions : Sound(exec[y])'
  BY <1>1, <1>3, GotoFlows
<1> QED BY <1>1, <1>2, <1>4 DEF FlowInv, TypeOK, rows, ghosts

LEMMA PublishFlows ==
  ASSUME FlowInv, NEW x \in Executions, Publish(x)
  PROVE  FlowInv'
<1>1. exec[x].pc = "publish" /\ exec[x].pc \in Steps
      /\ exec' = [exec EXCEPT ![x] = Begin(exec[x])] /\ Attempting(exec'[x])
      /\ published' = published \cup {<<exec[x].log, exec[x].kind>>}
      /\ UNCHANGED <<cast, deployed, contract, rows, audit, visit, unaudited, announced>>
  BY DEF Publish, Steps
<1>2. exec[x] \in Execution /\ exec[x].log \in Logs /\ exec[x].kind \in Kinds
  BY <1>1, EventFits
<1>3. exec' \in [Executions -> Execution] /\ \A y \in Executions : Sound(exec[y])'
  BY <1>1, <1>2, BeginFlows
<1>4. attempted' \in [Logs -> Nat]
  BY <1>1, <1>2, <1>3, AttemptingCounts, BeginFits DEF FlowInv, TypeOK
<1> QED BY <1>1, <1>2, <1>3, <1>4 DEF FlowInv, TypeOK, rows

LEMMA RetryFlows ==
  ASSUME FlowInv, NEW x \in Executions, Retry(x),
         UNCHANGED <<cast, deployed, contract, rows, audit, visit, announced>>
  PROVE  FlowInv'
<1>1. exec[x].pc = "publish" /\ exec[x].pc \in Steps
  BY DEF Retry, Steps
<1>2. exec[x] \in Execution /\ Sound(exec[x])
  BY <1>1, EventFits
<1> DEFINE q == exec'[x]
<1>3. q \in Execution /\ Sound(q) /\ exec' = [exec EXCEPT ![x] = q]
  <2>1. CASE exec[x].attempt < exec[x].attempts
    <3>1. exec' = [exec EXCEPT ![x] = Again(exec[x])]
      BY <2>1 DEF Retry
    <3>2. q = Again(exec[x])
      BY <3>1 DEF FlowInv, TypeOK
    <3>3. exec[x].attempt + 1 \in 0 .. Attempts
      BY <1>2, <2>1 DEF Execution
    <3>4. q.pc = "contract" /\ q.log = exec[x].log /\ q.kind = exec[x].kind /\ q \in Execution
      BY <1>2, <3>2, <3>3 DEF Again, Execution, Steps
    <3>5. Sound(q)
      BY <1>1, <1>2, <3>4 DEF Sound, MintSteps, MoveSteps, BurnSteps, Holding
    <3> QED BY <3>1, <3>2, <3>4, <3>5
  <2>2. CASE ~(exec[x].attempt < exec[x].attempts)
    <3>1. exec' = [exec EXCEPT ![x] = Begin(exec[x])]
      BY <2>2 DEF Retry
    <3>2. q = Begin(exec[x])
      BY <3>1 DEF FlowInv, TypeOK
    <3> QED BY <1>2, <3>1, <3>2, BeginFits
  <2> QED BY <2>1, <2>2
<1>4. exec' \in [Executions -> Execution] /\ \A y \in Executions : Sound(exec[y])'
  BY <1>3, OthersStay
<1>5. attempted' \in [Logs -> Nat] /\ UNCHANGED <<published, unaudited>>
  BY <1>3, AttemptingCounts DEF Retry
<1> QED BY <1>4, <1>5 DEF FlowInv, TypeOK, rows

LEMMA FailExecutionFlows ==
  ASSUME FlowInv, NEW x \in Executions, FailExecution(x)
  PROVE  FlowInv'
<1>0. UNCHANGED <<cast, deployed, contract, rows, audit, visit, announced>>
  BY DEF FailExecution
<1>1. CASE Retry(x)
  BY <1>0, <1>1, RetryFlows
<1>2. ASSUME NEW pc \in {"audit", "burn", "publish"}, Goto(x, pc), exec[x].pc \in Steps,
             pc = "burn" => exec[x].pc = "recordBurn",
             unaudited' \in {unaudited, unaudited \cup {<<exec[x].log, exec[x].kind>>}},
             UNCHANGED <<attempted, published>>
      PROVE  FlowInv'
  <2>1. Fits(exec[x], pc, exec[x].row) /\ pc \in Steps
    BY <1>2, EventFits DEF Fits, Sound, MintSteps, MoveSteps, BurnSteps, Holding, Steps
  <2>2. exec' \in [Executions -> Execution] /\ \A y \in Executions : Sound(exec[y])'
    BY <1>0, <1>2, <2>1, GotoFlows
  <2>3. unaudited' \subseteq Logs \X Kinds
    BY <1>2, EventFits DEF FlowInv, TypeOK
  <2> QED BY <1>0, <1>2, <2>2, <2>3 DEF FlowInv, TypeOK, rows
<1>3. CASE ~Retry(x)
  BY <1>2, <1>3 DEF FailExecution, Reject, Steps, ghosts
<1> QED BY <1>1, <1>3

LEMMA HandleFlows ==
  ASSUME FlowInv, NEW x \in Executions, Handle(x)
  PROVE  FlowInv'
  BY FindContractFlows, FindsFlow, UpdatesFlow, InsertAssetFlows, RecordsFlow, BurnAssetFlows,
     AuditFlows, PublishFlows DEF Handle

\* A visit touches the contract's row and nothing of the executions.
LEMMA VisitsFlow ==
  ASSUME FlowInv, NEW v \in Visits, BeginVisit(v) \/ Explore(v) \/ FailVisit(v)
  PROVE  FlowInv'
<1>1. /\ \E to \in {"detect", "redetect", "create", "latest", "publish", "done"} :
           visit' = [visit EXCEPT ![v] = to]
      /\ contract' \in {contract, "active", "inactive"}
      /\ announced' \in {announced, announced + 1}
      /\ UNCHANGED <<cast, deployed, rows, audit, exec, ghosts>>
  BY DEF BeginVisit, Explore, FailVisit, Detect, CreateContract, GetLatestBlock,
         PublishDiscovered, Refresh, Visit, ContractOnly
<1>2. visit' \in [Visits -> {"new", "detect", "create", "latest", "publish", "redetect", "done"}]
  BY <1>1 DEF FlowInv, TypeOK
<1> QED BY <1>1, <1>2 DEF FlowInv, TypeOK, rows, ghosts, Sound, Multi

LEMMA FlowStep == FlowInv /\ [Next]_vars => FlowInv'
<1> SUFFICES ASSUME FlowInv, [Next]_vars PROVE FlowInv'
  OBVIOUS
<1>1. CASE UNCHANGED vars
  BY <1>1 DEF vars, rows, ghosts, FlowInv, TypeOK, Sound, Multi
<1>2. ASSUME NEW x \in Executions, Deliver(x) \/ SaveNFTs(x) \/ Handle(x) \/ FailExecution(x)
      PROVE  FlowInv'
  BY <1>2, DeliverFlows, SaveNFTsFlows, HandleFlows, FailExecutionFlows
<1>3. ASSUME NEW v \in Visits, BeginVisit(v) \/ Explore(v) \/ FailVisit(v)
      PROVE  FlowInv'
  BY <1>3, VisitsFlow
<1> QED BY <1>1, <1>2, <1>3 DEF Next

LEMMA FlowInit == Init => FlowInv
<1> SUFFICES ASSUME Init PROVE FlowInv
  OBVIOUS
<1>1. exec = [x \in Executions |-> New] /\ asset = [t \in Tokens |-> Null]
      /\ visit = [v \in Visits |-> "new"] /\ attempted = [n \in Logs |-> 0]
  BY DEF Init
<1>2. exec \in [Executions -> Execution] /\ \A x \in Executions : Sound(exec[x])
  BY <1>1, NewFits
<1> QED BY <1>1, <1>2 DEF Init, FlowInv, TypeOK

\* Type correctness of the rows, the histories, the audit log and the local
\* state of every execution and discovery.
THEOREM LedgerTypeCorrect == Spec => []TypeOK
<1>1. FlowInv => TypeOK
  BY DEF FlowInv
<1> QED BY FlowInit, FlowStep, <1>1, PTL DEF Spec

\* ---------------------------------------------------------- announced once

\* A discovery that will announce the contract is the one that made its row, and
\* no other has announced it.
AnnounceInv ==
  /\ announced \in {0, 1}
  /\ announced = 1 => contract # Null
  /\ \A v \in Visits : visit[v] \in {"latest", "publish"} =>
       /\ announced = 0 /\ contract # Null
       /\ \A w \in Visits : visit[w] \in {"latest", "publish"} => w = v

LEMMA AnnounceStep == TypeOK /\ AnnounceInv /\ [Next]_vars => AnnounceInv'
<1> SUFFICES ASSUME TypeOK, AnnounceInv, [Next]_vars PROVE AnnounceInv'
  OBVIOUS
<1>1. CASE UNCHANGED vars
  BY <1>1 DEF vars, AnnounceInv
<1>2. ASSUME NEW x \in Executions, Deliver(x) \/ SaveNFTs(x) \/ Handle(x) \/ FailExecution(x)
      PROVE  AnnounceInv'
  <2>1. UNCHANGED <<contract, visit, announced>>
    BY <1>2 DEF Deliver, SaveNFTs, Handle, FailExecution, FindContract, FindToMint, InsertAsset,
       Remint, RecordMint, FindToMove, Move, FindToSet, SetBalance, FindMoved, RecordMove,
       FindToBurn, RecordBurn, BurnAsset, FindAudit, InsertAudit, Publish, Find, Update, Record
  <2> QED BY <2>1 DEF AnnounceInv
<1>3. ASSUME NEW v \in Visits, BeginVisit(v) \/ Explore(v) \/ FailVisit(v)
      PROVE  AnnounceInv'
  <2>0. visit \in [Visits -> {"new", "detect", "create", "latest", "publish", "redetect", "done"}]
    BY DEF TypeOK
  <2>1. CASE \/ BeginVisit(v) \/ Detect(v) \/ GetLatestBlock(v) \/ FailVisit(v)
    BY <2>0, <2>1 DEF BeginVisit, Detect, GetLatestBlock, FailVisit, Visit, ContractOnly, AnnounceInv
  <2>2. CASE CreateContract(v)
    BY <2>0, <2>2 DEF CreateContract, Visit, ContractOnly, AnnounceInv
  <2>3. CASE PublishDiscovered(v)
    BY <2>0, <2>3 DEF PublishDiscovered, Visit, ContractOnly, AnnounceInv
  <2>4. CASE Refresh(v)
    BY <2>0, <2>4 DEF Refresh, Visit, ContractOnly, AnnounceInv
  <2> QED BY <1>3, <2>1, <2>2, <2>3, <2>4 DEF Explore
<1> QED BY <1>1, <1>2, <1>3 DEF Next

\* However many discoveries of a contract overlap, and whichever of their calls
\* are rejected, contract.discovered is announced at most once: the unique index
\* on the address lets one of them go on.
THEOREM DiscoveryAnnouncedOnce == Spec => []AnnouncedOnce
<1>1. Init => AnnounceInv
  BY DEF Init, AnnounceInv
<1>2. AnnounceInv => AnnouncedOnce
  BY DEF AnnounceInv, AnnouncedOnce
<1> QED BY <1>1, <1>2, AnnounceStep, LedgerTypeCorrect, PTL DEF Spec

\* ------------------------------------------------------ published is audited

\* The last lookup or insert of the event in hand found or left its audit row,
\* or a call for it was rejected.
AuditedOrNot(x) ==
  exec[x].pc = "publish" =>
    \/ <<exec[x].log, exec[x].kind>> \in unaudited
    \/ Audited(exec[x].log, exec[x].kind) => AuditKey(x) \in audit

AuditInv == PublishedIsAudited /\ \A x \in Executions : AuditedOrNot(x)

\* Where a call leaves its execution, and all the others.
LEMMA GotoPoints ==
  ASSUME FlowInv, NEW x \in Executions, NEW pc \in Steps, Goto(x, pc)
  PROVE  /\ exec'[x].pc = pc /\ exec'[x].log = exec[x].log /\ exec'[x].kind = exec[x].kind
         /\ exec'[x].row = IF pc = "audit" THEN Null ELSE exec[x].row
         /\ \A y \in Executions \ {x} : exec'[y] = exec[y]
<1> DEFINE row == IF pc = "audit" THEN Null ELSE exec[x].row
<1>1. exec' = [exec EXCEPT ![x] = After(exec[x], pc, row)]
  BY GotoGoes
<1>2. row \in Row \cup {Null} /\ exec[x] \in Execution
  BY DEF FlowInv, TypeOK, Execution
<1> HIDE DEF row
<1>3. exec'[x] = After(exec[x], pc, row) /\ \A y \in Executions \ {x} : exec'[y] = exec[y]
  BY <1>1 DEF FlowInv, TypeOK
<1> QED BY <1>2, <1>3, AfterFits DEF row

LEMMA GotoWithPoints ==
  ASSUME FlowInv, NEW x \in Executions, NEW pc \in Steps, NEW row \in Row \cup {Null},
         GotoWith(x, pc, row)
  PROVE  /\ exec'[x].pc = pc /\ exec'[x].log = exec[x].log /\ exec'[x].kind = exec[x].kind
         /\ exec'[x].row = row
         /\ \A y \in Executions \ {x} : exec'[y] = exec[y]
  BY GotoWithGoes, AfterFits DEF FlowInv, TypeOK

\* A step that comes to no publication leaves what is said of the others' as it was.
LEMMA ElsewhereAudited ==
  ASSUME AuditInv, NEW x \in Executions,
         \A y \in Executions \ {x} : exec'[y] = exec[y],
         audit \subseteq audit', unaudited \subseteq unaudited',
         exec'[x].pc # "publish" \/ AuditedOrNot(x)'
  PROVE  \A y \in Executions : AuditedOrNot(y)'
<1>1. ASSUME NEW y \in Executions \ {x} PROVE AuditedOrNot(y)'
  BY <1>1 DEF AuditInv, AuditedOrNot, AuditKey, Event
<1>2. AuditedOrNot(x)'
  BY DEF AuditedOrNot
<1> QED BY <1>1, <1>2

LEMMA CallsBeforeAudit ==
  ASSUME FlowInv, NEW x \in Executions,
         \/ FindContract(x) \/ FindToMint(x) \/ InsertAsset(x) \/ Remint(x) \/ RecordMint(x)
         \/ FindToMove(x) \/ Move(x) \/ FindToSet(x) \/ SetBalance(x) \/ FindMoved(x)
         \/ RecordMove(x) \/ FindToBurn(x) \/ RecordBurn(x) \/ BurnAsset(x)
  PROVE  /\ exec'[x].pc \in Steps \ {"contract", "publish"}
         /\ \A y \in Executions \ {x} : exec'[y] = exec[y]
         /\ UNCHANGED <<audit, published, unaudited, attempted>>
<1>1. ASSUME NEW pc \in Steps \ {"contract", "publish"}, Goto(x, pc)
      PROVE  /\ exec'[x].pc \in Steps \ {"contract", "publish"}
             /\ \A y \in Executions \ {x} : exec'[y] = exec[y]
  BY <1>1, GotoPoints
<1>2. ASSUME NEW pc \in Steps \ {"contract", "publish"}, NEW row, GotoWith(x, pc, row)
      PROVE  /\ exec'[x].pc \in Steps \ {"contract", "publish"}
             /\ \A y \in Executions \ {x} : exec'[y] = exec[y]
  BY <1>2 DEF GotoWith, FlowInv, TypeOK, Execution
<1>3. CASE FindContract(x)
  <2>1. \E pc \in {"audit", "findToMint", "findToBurn", "findToMove"} : Goto(x, pc)
    BY <1>3, Zenon DEF FindContract
  <2> QED BY <1>1, <1>3, <2>1 DEF FindContract, ghosts, Steps
<1>4. ASSUME NEW p \in Steps, NEW found \in Steps \ {"contract", "publish"},
             NEW missing \in Steps \ {"contract", "publish"}, Find(x, p, found, missing)
      PROVE  /\ exec'[x].pc \in Steps \ {"contract", "publish"}
             /\ \A y \in Executions \ {x} : exec'[y] = exec[y]
             /\ UNCHANGED <<audit, published, unaudited, attempted>>
  <2>1. \E pc \in Steps \ {"contract", "publish"} : GotoWith(x, pc, asset[Event(x).token])
    BY <1>4 DEF Find
  <2> QED BY <1>2, <1>4, <2>1 DEF Find, ghosts
<1>5. CASE FindToMint(x) \/ FindToMove(x) \/ FindToSet(x) \/ FindMoved(x) \/ FindToBurn(x)
  BY <1>4, <1>5 DEF FindToMint, FindToMove, FindToSet, FindMoved, FindToBurn, Steps
<1>6. CASE \/ Remint(x) \/ Move(x) \/ SetBalance(x) \/ RecordMint(x) \/ RecordMove(x)
           \/ RecordBurn(x) \/ BurnAsset(x)
  <2>1. /\ \E pc \in {"recordMint", "findToSet", "findMoved", "audit", "burn"} : Goto(x, pc)
        /\ UNCHANGED <<audit, ghosts>>
    BY <1>6 DEF Remint, Move, SetBalance, Update, RecordMint, RecordMove, RecordBurn, Record,
       BurnAsset
  <2> QED BY <1>1, <2>1 DEF ghosts, Steps
<1>7. CASE InsertAsset(x)
  BY <1>1, <1>2, <1>7 DEF InsertAsset, ghosts, Steps
<1> QED BY <1>3, <1>5, <1>6, <1>7

LEMMA AuditStep == FlowInv /\ AuditInv /\ [Next]_vars => AuditInv'
<1> SUFFICES ASSUME FlowInv, AuditInv, [Next]_vars PROVE AuditInv'
  OBVIOUS
<1>1. CASE UNCHANGED vars
  BY <1>1 DEF vars, ghosts, AuditInv, PublishedIsAudited, AuditedOrNot, AuditKey, Event
<1>2. ASSUME NEW x \in Executions, \A y \in Executions \ {x} : exec'[y] = exec[y],
             exec'[x].pc # "publish", UNCHANGED <<audit, published, unaudited>>
      PROVE  AuditInv'
  BY <1>2, ElsewhereAudited DEF AuditInv, PublishedIsAudited
<1>3. ASSUME NEW x \in Executions, Deliver(x) \/ SaveNFTs(x)
      PROVE  AuditInv'
  <2>1. PICK q : exec' = [exec EXCEPT ![x] = q] /\ q.pc \in {"contract", "done"}
    <3>1. CASE Deliver(x)
      <4>1. PICK n, k : exec' = [exec EXCEPT ![x] = [New EXCEPT !.pc = "contract", !.log = n,
                                       !.kind = k, !.attempt = 1, !.attempts = Attempts]]
        BY <3>1 DEF Deliver
      <4>2. ASSUME NEW q, q = [New EXCEPT !.pc = "contract", !.log = n,
                                       !.kind = k, !.attempt = 1, !.attempts = Attempts]
            PROVE  q.pc = "contract"
        BY <4>2, NewFits DEF Execution
      <4> QED BY <4>1, <4>2
    <3>2. CASE SaveNFTs(x)
      <4>1. PICK logs \in SUBSET Logs : exec' = [exec EXCEPT ![x] = Begin([New EXCEPT !.todo = logs])]
        BY <3>2 DEF SaveNFTs
      <4>2. [New EXCEPT !.todo = logs] \in Execution
        BY NewFits DEF Execution
      <4> QED BY <4>1, <4>2, BeginFits
    <3> QED BY <1>3, <3>1, <3>2
  <2>2. exec'[x].pc # "publish" /\ \A y \in Executions \ {x} : exec'[y] = exec[y]
    BY <2>1 DEF FlowInv, TypeOK
  <2>3. UNCHANGED <<audit, published, unaudited>>
    BY <1>3 DEF Deliver, SaveNFTs
  <2> QED BY <1>2, <2>2, <2>3
<1>4. ASSUME NEW x \in Executions, FindAudit(x) \/ InsertAudit(x)
      PROVE  AuditInv'
  <2>1. /\ exec'[x].log = exec[x].log /\ exec'[x].kind = exec[x].kind
        /\ \A y \in Executions \ {x} : exec'[y] = exec[y]
        /\ exec'[x].pc = "publish" =>
             \/ ~Audited(exec[x].log, exec[x].kind)
             \/ AuditKey(x) \in audit'
    <3>1. CASE FindAudit(x)
      <4> DEFINE pc == IF Audited(exec[x].log, exec[x].kind) /\ AuditKey(x) \notin audit
                         THEN "insertAudit" ELSE "publish"
      <4>1. Goto(x, pc) /\ pc \in Steps /\ audit' = audit
        BY <3>1 DEF FindAudit, Steps
      <4>2. exec'[x].pc = pc
        BY <4>1, GotoPoints
      <4>3. pc = "publish" => ~Audited(exec[x].log, exec[x].kind) \/ AuditKey(x) \in audit
        OBVIOUS
      <4> HIDE DEF pc
      <4> QED BY <4>1, <4>2, <4>3, GotoPoints
    <3>2. CASE InsertAudit(x)
      <4>1. Goto(x, "publish") /\ "publish" \in Steps /\ AuditKey(x) \in audit'
        BY <3>2 DEF InsertAudit, Steps
      <4> QED BY <4>1, GotoPoints
    <3> QED BY <1>4, <3>1, <3>2
  <2>2. audit \subseteq audit' /\ UNCHANGED <<published, unaudited>>
    BY <1>4 DEF FindAudit, InsertAudit, ghosts
  <2>3. AuditedOrNot(x)'
    BY <2>1 DEF AuditedOrNot, AuditKey, Event
  <2>4. \A y \in Executions : AuditedOrNot(y)'
    BY <2>1, <2>2, <2>3, ElsewhereAudited
  <2> QED BY <2>2, <2>4 DEF AuditInv, PublishedIsAudited
<1>5. ASSUME NEW x \in Executions, Publish(x)
      PROVE  AuditInv'
  <2>1. exec[x].pc = "publish" /\ exec' = [exec EXCEPT ![x] = Begin(exec[x])]
        /\ published' = published \cup {<<exec[x].log, exec[x].kind>>}
        /\ UNCHANGED <<audit, unaudited>>
    BY <1>5 DEF Publish
  <2>2. exec'[x].pc # "publish" /\ \A y \in Executions \ {x} : exec'[y] = exec[y]
    BY <2>1, BeginFits DEF FlowInv, TypeOK
  <2>3. \A y \in Executions : AuditedOrNot(y)'
    BY <2>1, <2>2, ElsewhereAudited
  <2>4. AuditedOrNot(x)
    BY DEF AuditInv
  <2>5. PublishedIsAudited'
    BY <2>1, <2>4 DEF AuditInv, PublishedIsAudited, AuditedOrNot, AuditKey, Event
  <2> QED BY <2>3, <2>5 DEF AuditInv
<1>6. ASSUME NEW x \in Executions, FailExecution(x)
      PROVE  AuditInv'
  <2>0. audit' = audit
    BY <1>6 DEF FailExecution
  <2>1. CASE Retry(x)
    <3>1. /\ exec' = [exec EXCEPT ![x] = IF @.attempt < @.attempts THEN Again(@) ELSE Begin(@)]
          /\ UNCHANGED <<published, unaudited>>
      BY <2>1 DEF Retry
    <3>2. Again(exec[x]).pc = "contract" /\ Begin(exec[x]).pc \in {"contract", "done"}
      BY BeginFits DEF Again, FlowInv, TypeOK, Execution
    <3>3. exec'[x].pc # "publish" /\ \A y \in Executions \ {x} : exec'[y] = exec[y]
      BY <3>1, <3>2 DEF FlowInv, TypeOK
    <3> QED BY <1>2, <2>0, <3>1, <3>3
  <2>2. CASE \E pc \in {"audit", "burn"} : Goto(x, pc) /\ UNCHANGED ghosts
    <3>1. exec'[x].pc # "publish" /\ \A y \in Executions \ {x} : exec'[y] = exec[y]
      BY <2>2, GotoPoints DEF Steps
    <3> QED BY <1>2, <2>0, <2>2, <3>1 DEF ghosts
  <2>3. CASE /\ Goto(x, "publish")
             /\ unaudited' = unaudited \cup {<<exec[x].log, exec[x].kind>>}
             /\ UNCHANGED <<attempted, published>>
    <3>1. /\ exec'[x].log = exec[x].log /\ exec'[x].kind = exec[x].kind
          /\ \A y \in Executions \ {x} : exec'[y] = exec[y]
      BY <2>3, GotoPoints DEF Steps
    <3>2. AuditedOrNot(x)'
      BY <2>3, <3>1 DEF AuditedOrNot
    <3>3. \A y \in Executions : AuditedOrNot(y)'
      BY <2>0, <2>3, <3>1, <3>2, ElsewhereAudited
    <3> QED BY <2>0, <2>3, <3>3 DEF AuditInv, PublishedIsAudited
  <2> QED BY <1>6, <2>1, <2>2, <2>3 DEF FailExecution, Reject
<1>7. ASSUME NEW x \in Executions, Handle(x)
      PROVE  AuditInv'
  <2>1. CASE FindAudit(x) \/ InsertAudit(x) \/ Publish(x)
    BY <1>4, <1>5, <2>1
  <2>2. CASE ~(FindAudit(x) \/ InsertAudit(x) \/ Publish(x))
    <3>1. /\ exec'[x].pc # "publish" /\ UNCHANGED <<audit, published, unaudited>>
          /\ \A y \in Executions \ {x} : exec'[y] = exec[y]
      BY <1>7, <2>2, CallsBeforeAudit DEF Handle
    <3> QED BY <1>2, <3>1
  <2> QED BY <2>1, <2>2
<1>8. ASSUME NEW v \in Visits, BeginVisit(v) \/ Explore(v) \/ FailVisit(v)
      PROVE  AuditInv'
  <2>1. UNCHANGED <<exec, audit, published, unaudited>>
    BY <1>8 DEF BeginVisit, Explore, FailVisit, Detect, CreateContract, GetLatestBlock,
       PublishDiscovered, Refresh, ContractOnly, ghosts
  <2> QED BY <2>1 DEF AuditInv, PublishedIsAudited, AuditedOrNot, AuditKey, Event
<1> QED BY <1>1, <1>3, <1>6, <1>7, <1>8 DEF Next

\* An event EventBridge has accepted is represented in the audit log by the row of
\* its transaction and type, which several events may share, unless one of its audit
\* calls was rejected, however executions race for the row.
THEOREM PublishedEventsAudited == Spec => []PublishedIsAudited
<1>1. Init => AuditInv
  BY DEF Init, AuditInv, PublishedIsAudited, AuditedOrNot, New
<1>2. AuditInv => PublishedIsAudited
  BY DEF AuditInv
<1> QED BY <1>1, <1>2, AuditStep, FlowInit, FlowStep, PTL DEF Spec

\* ----------------------------------------------------- rows follow transfers

\* What the registry sees of the rows.
Held == [t \in Tokens |-> IF asset[t] = Null \/ Multi THEN Null
                          ELSE [owner |-> asset[t].owner, block |-> asset[t].block]]

LEMMA RowIsNotNull == Null \notin Row /\ \A o \in Addresses, k \in Nat : [owner |-> o, block |-> k] # Null
  OBVIOUS

LEMMA MultiHoldsNothing ==
  ASSUME Multi, deployed' = deployed
  PROVE  Held' = Held
<1>1. Multi'
  BY DEF Multi
<1> QED BY <1>1 DEF Held

LEMMA HeldChanges ==
  ASSUME FlowInv, ~Multi, deployed' = deployed, NEW t \in Tokens, NEW r \in Row,
         asset' = [asset EXCEPT ![t] = r]
  PROVE  Held' = [Held EXCEPT ![t] = [owner |-> r.owner, block |-> r.block]]
<1>1. ~Multi'
  BY DEF Multi
<1>2. asset'[t] = r /\ r # Null /\ \A u \in Tokens \ {t} : asset'[u] = asset[u]
  BY RowIsNotNull DEF FlowInv, TypeOK
<1> QED BY <1>1, <1>2 DEF Held

LEMMA HeldGoes ==
  ASSUME FlowInv, ~Multi, deployed' = deployed, NEW t \in Tokens,
         asset' = [asset EXCEPT ![t] = Null]
  PROVE  Held' = [Held EXCEPT ![t] = Null]
<1>1. ~Multi'
  BY DEF Multi
<1>2. asset'[t] = Null /\ \A u \in Tokens \ {t} : asset'[u] = asset[u]
  BY DEF FlowInv, TypeOK
<1> QED BY <1>1, <1>2 DEF Held

\* An execution in a handler that writes the row with the owner and block of its
\* event takes a step of the registry.
LEMMA WritesAreTransfers ==
  ASSUME FlowInv, NEW x \in Executions, deployed' = deployed,
         exec[x].pc \in MintSteps \cup MoveSteps, exec[x].pc \in Steps,
         exec[x].pc \in MoveSteps => asset[Event(x).token] # Null,
         NEW r \in Row, r.owner = Event(x).to, r.block = Event(x).block,
         asset' = [asset EXCEPT ![Event(x).token] = r]
  PROVE  [Registry!Next]_Held
<1> DEFINE t == Event(x).token
<1>1. CASE Multi
  BY <1>1, MultiHoldsNothing
<1>2. CASE ~Multi
  <2>1. Sound(exec[x]) /\ exec[x].log \in Logs /\ t \in Tokens /\ Chain[exec[x].log] = Event(x)
    BY EventFits DEF Event
  <2>2. Held' = [Held EXCEPT ![t] = [owner |-> Event(x).to, block |-> Event(x).block]]
    BY <1>2, <2>1, HeldChanges
  <2>3. PICK n \in Registry!Logs : n = exec[x].log
    BY <2>1 DEF Logs, Registry!Logs
  <2>4. CASE exec[x].pc \in MintSteps
    <3>1. Registry!Mint(n)
      BY <2>1, <2>2, <2>3, <2>4 DEF Registry!Mint, Registry!Mints, Sound, Held
    <3> QED BY <3>1 DEF Registry!Next
  <2>5. CASE exec[x].pc \in MoveSteps
    <3>1. Held[t] # Null
      BY <1>2, <2>1, <2>5, RowIsNotNull DEF Held, FlowInv, TypeOK, Row
    <3>2. Registry!Transfer(n)
      BY <2>1, <2>2, <2>3, <2>5, <3>1 DEF Registry!Transfer, Registry!Mints, Registry!Burns, Sound, Held
    <3> QED BY <3>2 DEF Registry!Next
  <2> QED BY <2>4, <2>5
<1> QED BY <1>1, <1>2

LEMMA InsertIsMint ==
  ASSUME FlowInv, NEW x \in Executions, InsertAsset(x)
  PROVE  [Registry!Next]_Held
<1> DEFINE t == Event(x).token
           r == [id |-> ids + 1, owner |-> Event(x).to, block |-> Event(x).block,
                 balance |-> IF Multi THEN Event(x).amount ELSE 1]
<1>1. exec[x].pc = "insert" /\ exec[x].pc \in Steps /\ deployed' = deployed
  BY DEF InsertAsset, Steps
<1>2. CASE asset[t] # Null
  BY <1>1, <1>2 DEF InsertAsset, rows, Held, Multi
<1>3. CASE asset[t] = Null
  <2>1. asset' = [asset EXCEPT ![t] = r]
    BY <1>3 DEF InsertAsset
  <2>2. r \in Row /\ r.owner = Event(x).to /\ r.block = Event(x).block
    BY <1>1, EventFits DEF Row, FlowInv, TypeOK
  <2> HIDE DEF r
  <2> QED BY <1>1, <2>1, <2>2, WritesAreTransfers DEF MintSteps, MoveSteps
<1> QED BY <1>2, <1>3

LEMMA UpdatesAreTransfers ==
  ASSUME FlowInv, NEW x \in Executions, Remint(x) \/ Move(x) \/ SetBalance(x)
  PROVE  [Registry!Next]_Held
<1> DEFINE t == Event(x).token
<1>1. exec[x].pc \in {"remint", "move", "setBalance"} /\ exec[x].pc \in Steps
      /\ exec[x].pc \in MintSteps \cup MoveSteps /\ deployed' = deployed
  BY DEF Remint, Move, SetBalance, Update, Steps, MintSteps, MoveSteps
<1>2. /\ Sound(exec[x]) /\ asset[t] \in Row \cup {Null} /\ exec[x].row \in Row
      /\ Event(x).amount \in Int /\ Event(x).block \in Nat /\ Event(x).to \in Addresses
  BY <1>1, EventFits DEF Sound, Holding
<1>3. CASE SetBalance(x)
  <2>1. Multi
    BY <1>2, <1>3 DEF SetBalance, Update, Sound
  <2> QED BY <1>1, <2>1, MultiHoldsNothing
<1>4. ASSUME NEW r, Changed(x, r), asset[t] \in Row => /\ r \in Row /\ r.owner = Event(x).to
                                                       /\ r.block = Event(x).block
      PROVE  [Registry!Next]_Held
  <2>1. CASE asset[t] # Null /\ asset[t].id = exec[x].row.id
    <3>1. asset' = [asset EXCEPT ![t] = r]
      BY <1>4, <2>1 DEF Changed
    <3>2. r \in Row /\ r.owner = Event(x).to /\ r.block = Event(x).block
      BY <1>2, <1>4, <2>1
    <3> QED BY <1>1, <2>1, <3>1, <3>2, WritesAreTransfers
  <2>2. CASE ~(asset[t] # Null /\ asset[t].id = exec[x].row.id)
    <3>1. asset' = asset
      BY <1>4, <2>2 DEF Changed
    <3> QED BY <1>1, <3>1 DEF Held, Multi
  <2> QED BY <2>1, <2>2
<1>5. CASE Remint(x)
  <2> DEFINE r == [asset[t] EXCEPT !.owner = Event(x).to, !.block = Event(x).block,
                     !.balance = exec[x].row.balance + (IF Multi THEN Event(x).amount ELSE 0)]
  <2>1. Changed(x, r)
    BY <1>5 DEF Remint, Update, Changed
  <2>2. exec[x].row.balance + (IF Multi THEN Event(x).amount ELSE 0) \in Int
    BY <1>2 DEF Row
  <2>3. asset[t] \in Row => r \in Row /\ r.owner = Event(x).to /\ r.block = Event(x).block
    BY <1>2, <2>2, RowChanges DEF Row
  <2> HIDE DEF r
  <2> QED BY <1>4, <2>1, <2>3
<1>6. CASE Move(x)
  <2> DEFINE r == [asset[t] EXCEPT !.owner = Event(x).to, !.block = Event(x).block]
  <2>1. Changed(x, r)
    BY <1>6 DEF Move, Update, Changed
  <2>2. asset[t] \in Row => r \in Row /\ r.owner = Event(x).to /\ r.block = Event(x).block
    BY <1>2, RowChanges DEF Row
  <2> HIDE DEF r
  <2> QED BY <1>4, <2>1, <2>2
<1> QED BY <1>3, <1>5, <1>6

LEMMA BurnIsBurn ==
  ASSUME FlowInv, NEW x \in Executions, BurnAsset(x)
  PROVE  [Registry!Next]_Held
<1> DEFINE t == Event(x).token
<1>1. exec[x].pc = "burn" /\ exec[x].pc \in Steps /\ deployed' = deployed
  BY DEF BurnAsset, Steps
<1>2. CASE Multi
  BY <1>1, <1>2, MultiHoldsNothing
<1>3. CASE ~Multi
  <2>1. Sound(exec[x]) /\ exec[x].log \in Logs /\ t \in Tokens /\ Chain[exec[x].log] = Event(x)
    BY <1>1, EventFits DEF Event
  <2>2. asset' = asset \/ asset' = [asset EXCEPT ![t] = Null]
    BY <1>3 DEF BurnAsset
  <2>3. CASE asset' = asset
    BY <1>1, <2>3 DEF Held, Multi
  <2>4. CASE asset' = [asset EXCEPT ![t] = Null]
    <3>1. Held' = [Held EXCEPT ![t] = Null]
      BY <1>1, <1>3, <2>1, <2>4, HeldGoes
    <3>2. PICK n \in Registry!Logs : n = exec[x].log
      BY <2>1 DEF Logs, Registry!Logs
    <3>3. Registry!Burn(n)
      BY <1>1, <2>1, <3>1, <3>2 DEF Registry!Burn, Registry!Burns, Sound, BurnSteps, Held
    <3> QED BY <3>3 DEF Registry!Next
  <2> QED BY <2>2, <2>3, <2>4
<1> QED BY <1>2, <1>3

LEMMA RegistryStep == FlowInv /\ [Next]_vars => [Registry!Next]_Held
<1> SUFFICES ASSUME FlowInv, [Next]_vars PROVE [Registry!Next]_Held
  OBVIOUS
<1>1. CASE UNCHANGED <<asset, deployed>>
  BY <1>1 DEF Held, Multi
<1>2. CASE UNCHANGED vars
  BY <1>1, <1>2 DEF vars, rows
<1>3. ASSUME NEW x \in Executions, Deliver(x) \/ SaveNFTs(x) \/ Handle(x) \/ FailExecution(x)
      PROVE  [Registry!Next]_Held
  <2>1. CASE InsertAsset(x) \/ Remint(x) \/ Move(x) \/ SetBalance(x) \/ BurnAsset(x)
    BY <2>1, InsertIsMint, UpdatesAreTransfers, BurnIsBurn
  <2>2. CASE ~(InsertAsset(x) \/ Remint(x) \/ Move(x) \/ SetBalance(x) \/ BurnAsset(x))
    <3>1. UNCHANGED <<asset, deployed>>
      BY <1>3, <2>2 DEF Deliver, SaveNFTs, FailExecution, Handle, FindContract, FindToMint,
         RecordMint, FindToMove, FindToSet, FindMoved, RecordMove, FindToBurn, RecordBurn,
         FindAudit, InsertAudit, Publish, Find, Record, rows
    <3> QED BY <1>1, <3>1
  <2> QED BY <2>1, <2>2
<1>4. ASSUME NEW v \in Visits, BeginVisit(v) \/ Explore(v) \/ FailVisit(v)
      PROVE  [Registry!Next]_Held
  <2>1. UNCHANGED <<asset, deployed>>
    BY <1>4 DEF BeginVisit, Explore, FailVisit, Detect, CreateContract, GetLatestBlock,
       PublishDiscovered, Refresh, ContractOnly, rows
  <2> QED BY <1>1, <2>1
<1> QED BY <1>2, <1>3, <1>4 DEF Next

\* The rows of an ERC721 contract's tokens implement the registry: however many
\* executions overlap, repeat and fail halfway, a step of any of them leaves the
\* row of each token as it was, as one mint or transfer of that token made it,
\* or gone with a burn.
THEOREM RowsImplementRegistry == Spec => RowsFollowTransfers
<1>1. Init => Registry!Init
  BY DEF Init, Registry!Init
<1> QED BY <1>1, RegistryStep, FlowInit, FlowStep, PTL
        DEF Spec, RowsFollowTransfers, Registry!Spec, Held

\* -------------------------------------------------------- balances are backed

\* An attempt owes its token the amount of its event until it has written it.
\* No balance, and no balance read for a write, leaves less than what is owed of
\* what the attempts begun can have given.
Unwritten == {"contract", "findToMint", "insert", "remint",
              "findToMove", "move", "findToSet", "setBalance"}
Reading == {"remint", "recordBurn", "burn"}

Owes(e, t) == IF e.pc \in Unwritten /\ Chain[e.log].token = t THEN Chain[e.log].amount ELSE 0
Owing(t) == [x \in Executions |-> Owes(exec[x], t)]
Owed(t) == SumFunctionOnSet(Owing(t), Executions)
Allowed(t) == SumFunctionOnSet(Given(t), Logs)

BackedInv ==
  \A t \in Tokens :
    /\ Owed(t) <= Allowed(t)
    /\ asset[t] # Null => asset[t].balance + Owed(t) <= Allowed(t)
    /\ \A x \in Executions : exec[x].pc \in Reading /\ Event(x).token = t =>
         exec[x].row.balance + Owed(t) <= Allowed(t)

LEMMA OwesFits ==
  ASSUME NEW e \in Execution, e.pc \in Steps => e.log \in Logs, NEW t \in Tokens
  PROVE  Owes(e, t) \in Nat
<1>1. e.pc \in Unwritten => e.log \in Logs
  BY DEF Unwritten, Steps
<1> QED BY <1>1, ChainFits DEF Owes

LEMMA LogsFinite == IsFiniteSet(Logs) /\ Logs \subseteq Nat
  BY FS_Interval DEF Logs

LEMMA GivenFits ==
  ASSUME NEW a \in Nat, NEW n \in Logs
  PROVE  a * Chain[n].amount \in Nat
<1>1. PICK m \in Nat : m = Chain[n].amount
  BY ChainFits
<1>2. a * m \in Nat
  BY Times
<1> QED BY <1>1, <1>2

LEMMA OneMoreGiven ==
  ASSUME NEW a \in Nat, NEW n \in Logs
  PROVE  (a + 1) * Chain[n].amount = a * Chain[n].amount + Chain[n].amount
<1>1. PICK m \in Nat : m = Chain[n].amount
  BY ChainFits
<1>2. (a + 1) * m = a * m + m
  BY Times
<1> QED BY <1>1, <1>2

\* What is owed changes with the execution that moves.
LEMMA OwedChanges ==
  ASSUME FlowInv, FlowInv', NEW x \in Executions,
         \A y \in Executions \ {x} : exec'[y] = exec[y], NEW t \in Tokens
  PROVE  /\ Owed(t)' = Owed(t) + Owes(exec'[x], t) - Owes(exec[x], t)
         /\ Owed(t) \in Nat /\ Owed(t)' \in Nat
         /\ Owes(exec'[x], t) \in Nat /\ Owes(exec[x], t) \in Nat
<1> PICK f, h : f = Owing(t) /\ h = Owing(t)'
  OBVIOUS
<1>1. \A y \in Executions : f[y] = Owes(exec[y], t) /\ h[y] = Owes(exec'[y], t)
  BY DEF Owing
<1>2. \A y \in Executions : /\ exec[y] \in Execution /\ exec'[y] \in Execution
                            /\ exec[y].pc \in Steps => exec[y].log \in Logs
                            /\ exec'[y].pc \in Steps => exec'[y].log \in Logs
  BY DEF FlowInv, TypeOK, Sound
<1>3. \A y \in Executions : f[y] \in Nat /\ h[y] \in Nat
  BY <1>1, <1>2, OwesFits
<1>4. \A y \in Executions \ {x} : f[y] = h[y]
  BY <1>1
<1>5. SumFunctionOnSet(h, Executions) = SumFunctionOnSet(f, Executions) + h[x] - f[x]
  <2>1. DifferAt(f, h, Executions, x)
    BY <1>3, <1>4 DEF DifferAt
  <2> QED BY <2>1, SumOfChange, ExecutionsAssumption
<1>6. SumFunctionOnSet(h, Executions) \in Nat /\ SumFunctionOnSet(f, Executions) \in Nat
  BY <1>3, SumNat, ExecutionsAssumption
<1> QED BY <1>1, <1>3, <1>5, <1>6 DEF Owed

LEMMA OwedNow ==
  ASSUME FlowInv, NEW t \in Tokens
  PROVE  Owed(t) \in Nat /\ Allowed(t) \in Nat
<1> PICK f, h : f = Owing(t) /\ h = Given(t)
  OBVIOUS
<1>1. \A y \in Executions : exec[y] \in Execution /\ (exec[y].pc \in Steps => exec[y].log \in Logs)
  BY DEF FlowInv, TypeOK, Sound
<1>2. \A y \in Executions : f[y] \in Nat
  BY <1>1, OwesFits DEF Owing
<1>3. \A n \in Logs : attempted[n] \in Nat
  BY DEF FlowInv, TypeOK
<1>4. \A n \in Logs : h[n] \in Nat
  BY <1>3, GivenFits DEF Given
<1> QED BY <1>2, <1>4, SumNat, LogsFinite, ExecutionsAssumption DEF Owed, Allowed

LEMMA AllowedType ==
  ASSUME FlowInv, FlowInv', NEW t \in Tokens
  PROVE  Allowed(t) \in Nat /\ Allowed(t)' \in Nat
<1> PICK f, h : f = Given(t) /\ h = Given(t)'
  OBVIOUS
<1>1. \A n \in Logs : attempted[n] \in Nat /\ attempted'[n] \in Nat
  BY DEF FlowInv, TypeOK
<1>2. \A n \in Logs : f[n] \in Nat /\ h[n] \in Nat
  BY <1>1, GivenFits DEF Given
<1> QED BY <1>2, SumNat, LogsFinite DEF Allowed

\* What is allowed grows with each attempt begun.
LEMMA AllowedGrows ==
  ASSUME FlowInv, FlowInv', NEW n \in Logs, attempted' = [attempted EXCEPT ![n] = @ + 1],
         NEW t \in Tokens
  PROVE  Allowed(t)' = Allowed(t) + (IF Chain[n].token = t THEN Chain[n].amount ELSE 0)
<1> PICK f, h : f = Given(t) /\ h = Given(t)'
  OBVIOUS
<1>1. \A m \in Logs : attempted[m] \in Nat /\ attempted'[m] \in Nat
  BY DEF FlowInv, TypeOK
<1>2. \A m \in Logs : f[m] \in Int /\ h[m] \in Int
  <2>1. ASSUME NEW m \in Logs
        PROVE  attempted[m] * Chain[m].amount \in Int /\ attempted'[m] * Chain[m].amount \in Int
    <3>1. PICK a \in Nat, b \in Nat : a = attempted[m] /\ b = attempted'[m]
      BY <1>1
    <3>2. a * Chain[m].amount \in Int /\ b * Chain[m].amount \in Int
      BY GivenFits
    <3> QED BY <3>1, <3>2
  <2> QED BY <2>1 DEF Given
<1>3. attempted'[n] = attempted[n] + 1 /\ \A m \in Logs \ {n} : attempted'[m] = attempted[m]
  BY DEF FlowInv, TypeOK
<1>4. \A m \in Logs \ {n} : f[m] = h[m]
  BY <1>3 DEF Given
<1>5. h[n] = f[n] + (IF Chain[n].token = t THEN Chain[n].amount ELSE 0)
  <2>1. PICK a \in Nat : a = attempted[n]
    BY <1>1
  <2>2. (a + 1) * Chain[n].amount = a * Chain[n].amount + Chain[n].amount
    BY OneMoreGiven
  <2> QED BY <1>3, <2>1, <2>2 DEF Given
<1>6. SumFunctionOnSet(h, Logs) = SumFunctionOnSet(f, Logs) + h[n] - f[n]
  <2>1. DifferAt(f, h, Logs, n)
    BY <1>2, <1>4 DEF DifferAt
  <2> QED BY <2>1, LogsFinite, SumOfChange
<1>7. SumFunctionOnSet(f, Logs) \in Int /\ Chain[n].amount \in Int
  BY <1>2, LogsFinite, SumType, ChainFits
<1> QED BY <1>2, <1>5, <1>6, <1>7 DEF Allowed

LEMMA AllowedStays ==
  ASSUME attempted' = attempted, NEW t \in Tokens
  PROVE  Allowed(t)' = Allowed(t)
  BY DEF Allowed, Given

\* A step is fine if it adds no more to what is owed than to what is allowed, and
\* what it writes and what it has read are within it.
LEMMA BackedIf ==
  ASSUME FlowInv, FlowInv', BackedInv, NEW x \in Executions,
         \A y \in Executions \ {x} : exec'[y] = exec[y],
         \A t \in Tokens : Owed(t)' - Owed(t) <= Allowed(t)' - Allowed(t),
         \A t \in Tokens : \/ asset'[t] \in {asset[t], Null}
                           \/ asset'[t].balance + Owed(t)' <= Allowed(t)',
         exec'[x].pc \in Reading => 
           \A t \in Tokens : t = Chain[exec'[x].log].token =>
             exec'[x].row.balance + Owed(t)' <= Allowed(t)'
  PROVE  BackedInv'
<1> SUFFICES ASSUME NEW t \in Tokens
             PROVE  (/\ Owed(t) <= Allowed(t)
                     /\ asset[t] # Null => asset[t].balance + Owed(t) <= Allowed(t)
                     /\ \A y \in Executions : exec[y].pc \in Reading /\ Event(y).token = t =>
                          exec[y].row.balance + Owed(t) <= Allowed(t))'
  BY DEF BackedInv
<1>1. /\ Owed(t) \in Int /\ Allowed(t) \in Int /\ Owed(t)' \in Int /\ Allowed(t)' \in Int
      /\ Owed(t)' - Owed(t) <= Allowed(t)' - Allowed(t)
  BY OwedChanges, AllowedType
<1>2. Owed(t) <= Allowed(t)
  BY DEF BackedInv
<1>3. Owed(t)' <= Allowed(t)'
  BY <1>1, <1>2
<1>4. ASSUME asset'[t] # Null PROVE asset'[t].balance + Owed(t)' <= Allowed(t)'
  <2>1. CASE asset'[t] = asset[t]
    <3>1. asset[t].balance \in Int
      BY <1>4, <2>1 DEF FlowInv, TypeOK, Row
    <3>2. asset[t].balance + Owed(t) <= Allowed(t)
      BY <1>4, <2>1 DEF BackedInv
    <3> QED BY <1>1, <2>1, <3>1, <3>2
  <2> QED BY <1>4, <2>1
<1>5. ASSUME NEW y \in Executions, exec'[y].pc \in Reading, Chain[exec'[y].log].token = t
      PROVE  exec'[y].row.balance + Owed(t)' <= Allowed(t)'
  <2>1. CASE y = x
    BY <1>5, <2>1
  <2>2. CASE y # x
    <3>1. exec'[y] = exec[y]
      BY <2>2
    <3>2. exec[y].row.balance \in Int
      BY <1>5, <3>1 DEF FlowInv, Sound, Reading, Holding, Row
    <3>3. exec[y].pc \in Reading /\ Chain[exec[y].log].token = t
      BY <1>5, <3>1
    <3>4. exec[y].row.balance + Owed(t) <= Allowed(t)
      BY <3>3 DEF BackedInv, Event
    <3> QED BY <1>1, <3>1, <3>2, <3>4
  <2> QED BY <2>1, <2>2
<1> QED BY <1>3, <1>4, <1>5 DEF Event

\* No attempt begins: the execution goes on with its log, and owes no more.
GoesOn(x) ==
  /\ attempted' = attempted
  /\ \A y \in Executions \ {x} : exec'[y] = exec[y]
  /\ exec'[x].log = exec[x].log
  /\ exec'[x].pc \in Unwritten => exec[x].pc \in Unwritten

LEMMA OwesNoMore ==
  ASSUME FlowInv, FlowInv', NEW x \in Executions, GoesOn(x), NEW t \in Tokens
  PROVE  /\ Owed(t)' <= Owed(t) /\ Owed(t) \in Nat /\ Owed(t)' \in Nat
         /\ Allowed(t)' = Allowed(t) /\ Allowed(t) \in Nat
         /\ Owed(t)' - Owed(t) <= Allowed(t)' - Allowed(t)
         /\ Owed(t)' = Owed(t) + Owes(exec'[x], t) - Owes(exec[x], t)
<1>1. Owes(exec'[x], t) <= Owes(exec[x], t)
  <2>1. Owes(exec[x], t) \in Nat /\ Owes(exec'[x], t) \in Nat
    BY OwedChanges DEF GoesOn
  <2>2. Owes(exec'[x], t) = 0 \/ Owes(exec'[x], t) = Owes(exec[x], t)
    BY DEF Owes, GoesOn
  <2> QED BY <2>1, <2>2
<1>2. Allowed(t)' = Allowed(t)
  BY AllowedStays DEF GoesOn
<1>3. /\ Owed(t)' = Owed(t) + Owes(exec'[x], t) - Owes(exec[x], t)
      /\ Owed(t) \in Nat /\ Owed(t)' \in Nat
      /\ Owes(exec'[x], t) \in Nat /\ Owes(exec[x], t) \in Nat
  BY OwedChanges DEF GoesOn
<1>4. Allowed(t) \in Nat
  BY AllowedType
<1> QED BY <1>1, <1>2, <1>3, <1>4

\* A step that writes no row keeps the row it has, or has just read it.
LEMMA CallsBacked ==
  ASSUME FlowInv, FlowInv', BackedInv, NEW x \in Executions, GoesOn(x), asset' = asset,
         exec'[x].pc \in Reading =>
           \/ exec[x].pc \in Reading /\ exec'[x].row = exec[x].row
           \/ exec[x].pc \in Steps /\ exec'[x].row = asset[Event(x).token]
  PROVE  BackedInv'
<1>1. ASSUME NEW t \in Tokens, exec'[x].pc \in Reading, t = Chain[exec'[x].log].token
      PROVE  exec'[x].row.balance + Owed(t)' <= Allowed(t)'
  <2>1. exec'[x].row \in Row /\ exec'[x].row.balance \in Int
    BY <1>1 DEF FlowInv, Sound, Reading, Holding, Row
  <2>2. t = Event(x).token
    BY <1>1 DEF GoesOn, Event
  <2>3. exec'[x].row.balance + Owed(t) <= Allowed(t)
    <3>1. CASE exec[x].pc \in Reading /\ exec'[x].row = exec[x].row
      BY <2>2, <3>1 DEF BackedInv
    <3>2. CASE exec'[x].row = asset[Event(x).token]
      BY <2>1, <2>2, <3>2 DEF BackedInv
    <3> QED BY <1>1, <3>1, <3>2
  <2> QED BY <2>1, <2>3, OwesNoMore
<1>2. \A t \in Tokens : asset'[t] = asset[t]
  OBVIOUS
<1>3. \A t \in Tokens : Owed(t)' - Owed(t) <= Allowed(t)' - Allowed(t)
  BY OwesNoMore
<1> QED BY <1>1, <1>2, <1>3, BackedIf DEF GoesOn

\* A step that writes its token's row leaves it with a balance that is allowed.
LEMMA WritesBacked ==
  ASSUME FlowInv, FlowInv', BackedInv, NEW x \in Executions, GoesOn(x),
         exec[x].pc \in Steps, exec'[x].pc \notin Reading,
         \A t \in Tokens \ {Event(x).token} : asset'[t] = asset[t],
         \A t \in Tokens : t = Event(x).token =>
           \/ asset'[t] \in {asset[t], Null}
           \/ asset'[t].balance + Owed(t)' <= Allowed(t)'
  PROVE  BackedInv'
<1>1. \A t \in Tokens : Owed(t)' - Owed(t) <= Allowed(t)' - Allowed(t)
  BY OwesNoMore
<1> QED BY <1>1, BackedIf DEF GoesOn

\* An attempt on a log begins, or the execution ends.
LEMMA BeginsBacked ==
  ASSUME FlowInv, FlowInv', BackedInv, NEW x \in Executions,
         \A y \in Executions \ {x} : exec'[y] = exec[y], asset' = asset,
         exec[x].pc \notin Unwritten, exec'[x].pc \in {"contract", "done"},
         Attempting(exec'[x])
  PROVE  BackedInv'
<1>1. exec'[x].pc \notin Reading
  BY DEF Reading
<1>2. ASSUME NEW t \in Tokens PROVE Owed(t)' - Owed(t) <= Allowed(t)' - Allowed(t)
  <2>1. Owed(t)' = Owed(t) + Owes(exec'[x], t) - 0
    BY OwedChanges DEF Owes
  <2>2. Owed(t) \in Nat /\ Owes(exec'[x], t) \in Nat /\ Allowed(t) \in Nat
    BY OwedChanges, AllowedType
  <2>3. CASE exec'[x].pc = "contract"
    <3>1. PICK n \in Logs : n = exec'[x].log
      BY <2>3 DEF FlowInv, Sound, Steps
    <3>2. attempted' = [attempted EXCEPT ![n] = @ + 1]
      BY <2>3, <3>1 DEF Attempting
    <3>3. Allowed(t)' = Allowed(t) + (IF Chain[n].token = t THEN Chain[n].amount ELSE 0)
      BY <3>2, AllowedGrows
    <3>4. Owes(exec'[x], t) = IF Chain[n].token = t THEN Chain[n].amount ELSE 0
      BY <2>3, <3>1 DEF Owes, Unwritten
    <3> QED BY <2>1, <2>2, <3>3, <3>4
  <2>4. CASE exec'[x].pc = "done"
    <3>1. attempted' = attempted
      BY <2>4 DEF Attempting
    <3>2. Owes(exec'[x], t) = 0
      BY <2>4 DEF Owes, Unwritten
    <3> QED BY <2>1, <2>2, <3>1, <3>2, AllowedStays
  <2> QED BY <2>3, <2>4
<1> QED BY <1>1, <1>2, BackedIf

LEMMA GotoGoesOn ==
  ASSUME FlowInv, NEW x \in Executions, NEW pc \in Steps, Goto(x, pc), attempted' = attempted,
         pc \in Unwritten => exec[x].pc \in Unwritten
  PROVE  /\ GoesOn(x) /\ exec'[x].pc = pc
         /\ exec'[x].row = IF pc = "audit" THEN Null ELSE exec[x].row
  BY GotoPoints DEF GoesOn

LEMMA GotoBacked ==
  ASSUME FlowInv, FlowInv', BackedInv, NEW x \in Executions, NEW pc \in Steps, Goto(x, pc),
         UNCHANGED <<attempted, asset>>,
         pc \in Unwritten => exec[x].pc \in Unwritten,
         pc \in Reading => exec[x].pc \in Reading
  PROVE  BackedInv'
<1>1. /\ GoesOn(x) /\ exec'[x].pc = pc
      /\ exec'[x].row = IF pc = "audit" THEN Null ELSE exec[x].row
  BY GotoGoesOn
<1>2. exec'[x].pc \in Reading => exec[x].pc \in Reading /\ exec'[x].row = exec[x].row
  BY <1>1 DEF Reading
<1> QED BY <1>1, <1>2, CallsBacked

LEMMA FindBacked ==
  ASSUME FlowInv, FlowInv', BackedInv, NEW x \in Executions, NEW pc \in Steps,
         NEW found \in Steps, NEW missing \in Steps, Find(x, pc, found, missing),
         found \in Unwritten => pc \in Unwritten, missing \in Unwritten => pc \in Unwritten
  PROVE  BackedInv'
<1> DEFINE r == asset[Event(x).token]
           after == IF r = Null THEN missing ELSE found
<1>1. exec[x].pc = pc /\ GotoWith(x, after, r) /\ after \in Steps
      /\ UNCHANGED <<asset, attempted>>
  BY DEF Find, rows, ghosts
<1>2. r \in Row \cup {Null}
  BY <1>1, EventFits
<1>3. after \in Unwritten => pc \in Unwritten
  OBVIOUS
<1> HIDE DEF after, r
<1>4. /\ exec'[x].pc = after /\ exec'[x].log = exec[x].log /\ exec'[x].row = r
      /\ \A y \in Executions \ {x} : exec'[y] = exec[y]
  BY <1>1, <1>2, GotoWithPoints
<1>5. GoesOn(x)
  BY <1>1, <1>3, <1>4 DEF GoesOn
<1> QED BY <1>1, <1>4, <1>5, CallsBacked DEF r

LEMMA CallsStayBacked ==
  ASSUME FlowInv, FlowInv', BackedInv, NEW x \in Executions,
         \/ FindContract(x) \/ FindToMint(x) \/ FindToMove(x) \/ FindToSet(x) \/ FindMoved(x)
         \/ FindToBurn(x) \/ RecordMint(x) \/ RecordMove(x) \/ RecordBurn(x)
         \/ FindAudit(x) \/ InsertAudit(x)
  PROVE  BackedInv'
<1> USE DEF Unwritten, Steps
<1>1. CASE FindContract(x)
  <2>1. \E pc \in {"audit", "findToMint", "findToBurn", "findToMove"} : Goto(x, pc)
    BY <1>1, Zenon DEF FindContract
  <2>2. exec[x].pc = "contract" /\ UNCHANGED <<attempted, asset>>
    BY <1>1 DEF FindContract, rows, ghosts
  <2> QED BY <2>1, <2>2, GotoBacked DEF Reading
<1>2. CASE FindToMint(x)
  <2>1. Find(x, "findToMint", "remint", "insert")
    BY <1>2 DEF FindToMint
  <2>2. /\ ("remint" \in Unwritten => "findToMint" \in Unwritten)
        /\ ("insert" \in Unwritten => "findToMint" \in Unwritten)
        /\ "findToMint" \in Steps /\ "remint" \in Steps /\ "insert" \in Steps
    OBVIOUS
  <2> HIDE DEF Unwritten, Steps
  <2> QED BY <2>1, <2>2, FindBacked
<1>3. CASE FindToMove(x) /\ Multi
  <2>1. Find(x, "findToMove", "move", "findToSet")
    BY <1>3 DEF FindToMove
  <2>2. /\ ("move" \in Unwritten => "findToMove" \in Unwritten)
        /\ ("findToSet" \in Unwritten => "findToMove" \in Unwritten)
        /\ "findToMove" \in Steps /\ "move" \in Steps /\ "findToSet" \in Steps
    OBVIOUS
  <2> HIDE DEF Unwritten, Steps
  <2> QED BY <2>1, <2>2, FindBacked
<1>4. CASE FindToMove(x) /\ ~Multi
  <2>1. Find(x, "findToMove", "move", "findMoved")
    BY <1>4 DEF FindToMove
  <2>2. /\ ("move" \in Unwritten => "findToMove" \in Unwritten)
        /\ ("findMoved" \in Unwritten => "findToMove" \in Unwritten)
        /\ "findToMove" \in Steps /\ "move" \in Steps /\ "findMoved" \in Steps
    OBVIOUS
  <2> HIDE DEF Unwritten, Steps
  <2> QED BY <2>1, <2>2, FindBacked
<1>5. CASE FindToSet(x)
  <2>1. Find(x, "findToSet", "setBalance", "findMoved")
    BY <1>5 DEF FindToSet
  <2>2. /\ ("setBalance" \in Unwritten => "findToSet" \in Unwritten)
        /\ ("findMoved" \in Unwritten => "findToSet" \in Unwritten)
        /\ "findToSet" \in Steps /\ "setBalance" \in Steps /\ "findMoved" \in Steps
    OBVIOUS
  <2> HIDE DEF Unwritten, Steps
  <2> QED BY <2>1, <2>2, FindBacked
<1>6. CASE FindMoved(x)
  <2>1. Find(x, "findMoved", "recordMove", "audit")
    BY <1>6 DEF FindMoved
  <2>2. /\ "recordMove" \notin Unwritten /\ "audit" \notin Unwritten
        /\ "findMoved" \in Steps /\ "recordMove" \in Steps /\ "audit" \in Steps
    OBVIOUS
  <2> HIDE DEF Unwritten, Steps
  <2> QED BY <2>1, <2>2, FindBacked
<1>7. CASE FindToBurn(x)
  <2>1. Find(x, "findToBurn", "recordBurn", "audit")
    BY <1>7 DEF FindToBurn
  <2>2. /\ ("recordBurn" \in Unwritten => "findToBurn" \in Unwritten)
        /\ ("audit" \in Unwritten => "findToBurn" \in Unwritten)
        /\ "findToBurn" \in Steps /\ "recordBurn" \in Steps /\ "audit" \in Steps
    OBVIOUS
  <2> HIDE DEF Unwritten, Steps
  <2> QED BY <2>1, <2>2, FindBacked
<1>8. CASE RecordMint(x) \/ RecordMove(x) \/ RecordBurn(x)
  <2>1. /\ (exec[x].pc = "recordBurn" /\ Goto(x, "burn")) \/ Goto(x, "audit")
        /\ UNCHANGED <<attempted, asset>>
    BY <1>8 DEF RecordMint, RecordMove, RecordBurn, Record, ghosts
  <2>2. CASE exec[x].pc = "recordBurn" /\ Goto(x, "burn")
    BY <2>1, <2>2, GotoBacked DEF Reading
  <2>3. CASE Goto(x, "audit")
    BY <2>1, <2>3, GotoBacked DEF Reading
  <2> QED BY <2>1, <2>2, <2>3
<1>9. CASE FindAudit(x) \/ InsertAudit(x)
  <2>1. Goto(x, "publish") \/ Goto(x, "insertAudit")
    BY <1>9 DEF FindAudit, InsertAudit
  <2>2. UNCHANGED <<attempted, asset>>
    BY <1>9 DEF FindAudit, InsertAudit, rows, ghosts
  <2> QED BY <2>1, <2>2, GotoBacked DEF Reading
<1> QED BY <1>1, <1>2, <1>3, <1>4, <1>5, <1>6, <1>7, <1>8, <1>9

LEMMA InsertBacked ==
  ASSUME FlowInv, FlowInv', BackedInv, NEW x \in Executions, InsertAsset(x)
  PROVE  BackedInv'
<1> DEFINE t == Event(x).token
           r == [id |-> ids + 1, owner |-> Event(x).to, block |-> Event(x).block,
                 balance |-> IF Multi THEN Event(x).amount ELSE 1]
<1>1. exec[x].pc = "insert" /\ exec[x].pc \in Steps /\ attempted' = attempted
  BY DEF InsertAsset, Steps, ghosts
<1>2. CASE asset[t] # Null
  <2>1. Goto(x, "audit") /\ asset' = asset
    BY <1>2 DEF InsertAsset, rows
  <2> QED BY <1>1, <2>1, GotoBacked DEF Unwritten, Reading, Steps
<1>3. CASE asset[t] = Null
  <2>1. asset' = [asset EXCEPT ![t] = r] /\ GotoWith(x, "recordMint", r)
    BY <1>3 DEF InsertAsset
  <2>2. /\ t \in Tokens /\ Event(x).amount \in Nat \ {0}
        /\ r \in Row /\ r.balance <= Event(x).amount
    BY <1>1, EventFits DEF Row, FlowInv, TypeOK
  <2> HIDE DEF r
  <2>s. "recordMint" \in Steps
    BY DEF Steps
  <2>3. /\ exec'[x].pc = "recordMint" /\ exec'[x].log = exec[x].log
        /\ \A y \in Executions \ {x} : exec'[y] = exec[y]
    BY <2>1, <2>2, <2>s, GotoWithPoints
  <2>4. GoesOn(x)
    BY <1>1, <2>3 DEF GoesOn, Unwritten
  <2>5. asset'[t] = r /\ \A u \in Tokens \ {t} : asset'[u] = asset[u]
    BY <2>1, <2>2 DEF FlowInv, TypeOK
  <2>6. ASSUME NEW u \in Tokens, u = t PROVE r.balance + Owed(u)' <= Allowed(u)'
    <3>1. Owes(exec[x], u) = Event(x).amount /\ Owes(exec'[x], u) = 0
      BY <1>1, <2>3, <2>6 DEF Owes, Unwritten, Event
    <3>2. Owed(u) <= Allowed(u)
      BY DEF BackedInv
    <3>3. r.balance \in Int
      BY <2>2 DEF Row
    <3>4. /\ Owed(u)' = Owed(u) + Owes(exec'[x], u) - Owes(exec[x], u) /\ Owed(u) \in Nat
          /\ Allowed(u)' = Allowed(u) /\ Allowed(u) \in Nat
      BY <2>4, OwesNoMore
    <3> QED BY <2>2, <3>1, <3>2, <3>3, <3>4
  <2>7. \A u \in Tokens : u = t => asset'[u] = r
    BY <2>5
  <2> QED BY <1>1, <2>3, <2>4, <2>5, <2>6, <2>7, WritesBacked DEF Reading
<1> QED BY <1>2, <1>3

\* An update writes what it owed, or leaves the balance as it was.
LEMMA UpdateBacked ==
  ASSUME FlowInv, FlowInv', BackedInv, NEW x \in Executions, NEW pc \in Steps, Goto(x, pc),
         exec[x].pc \in Unwritten, exec[x].pc \in Steps, pc \notin Reading,
         attempted' = attempted, NEW r, Changed(x, r),
         asset[Event(x).token] \in Row =>
           \/ r.balance = asset[Event(x).token].balance
           \/ /\ pc \notin Unwritten /\ r.balance \in Int
              /\ \A u \in Tokens : u = Event(x).token =>
                   r.balance + Owed(u) <= Allowed(u) + Event(x).amount
  PROVE  BackedInv'
<1> DEFINE t == Event(x).token
<1>1. /\ GoesOn(x) /\ exec'[x].pc = pc
  BY GotoGoesOn
<1>2. /\ t \in Tokens /\ asset[t] \in Row \cup {Null} /\ Event(x).amount \in Nat
  BY EventFits
<1>3. asset' \in [Tokens -> Row \cup {Null}]
  BY DEF FlowInv, TypeOK
<1>4. \A u \in Tokens \ {t} : asset'[u] = asset[u]
  BY DEF Changed, FlowInv, TypeOK
<1>5. asset' = asset \/ (asset[t] # Null /\ asset'[t] = r)
  BY <1>2 DEF Changed, FlowInv, TypeOK
<1>6. ASSUME NEW u \in Tokens, u = t
      PROVE  asset'[u] \in {asset[u], Null} \/ asset'[u].balance + Owed(u)' <= Allowed(u)'
  <2>1. CASE asset' = asset
    BY <2>1
  <2>2. CASE asset[t] # Null /\ asset'[t] = r
    <3>1. /\ Owed(u)' = Owed(u) + Owes(exec'[x], u) - Owes(exec[x], u)
          /\ Owed(u)' <= Owed(u) /\ Owed(u) \in Nat /\ Owed(u)' \in Nat
          /\ Allowed(u)' = Allowed(u) /\ Allowed(u) \in Nat
      BY <1>1, OwesNoMore
    <3>2. CASE r.balance = asset[t].balance
      <4>1. asset[u].balance + Owed(u) <= Allowed(u) /\ asset[u].balance \in Int
        BY <1>2, <1>6, <2>2 DEF BackedInv, Row
      <4> QED BY <1>6, <2>2, <3>1, <3>2, <4>1
    <3>3. CASE /\ pc \notin Unwritten /\ r.balance \in Int
               /\ r.balance + Owed(u) <= Allowed(u) + Event(x).amount
      <4>1. Owes(exec[x], u) = Event(x).amount /\ Owes(exec'[x], u) = 0
        BY <1>1, <1>6, <3>3 DEF Owes, Event
      <4> QED BY <1>2, <1>6, <2>2, <3>1, <3>3, <4>1
    <3> QED BY <1>2, <1>6, <2>2, <3>2, <3>3
  <2> QED BY <1>5, <2>1, <2>2
<1> QED BY <1>1, <1>4, <1>6, WritesBacked

LEMMA UpdatesBacked ==
  ASSUME FlowInv, FlowInv', BackedInv, NEW x \in Executions,
         Remint(x) \/ Move(x) \/ SetBalance(x)
  PROVE  BackedInv'
<1> DEFINE t == Event(x).token
<1>0. exec[x].pc \in {"remint", "move", "setBalance"} /\ exec[x].pc \in Steps
      /\ exec[x].pc \in Holding /\ exec[x].pc \in Unwritten /\ attempted' = attempted
  BY DEF Remint, Move, SetBalance, Update, Steps, Holding, Unwritten, ghosts
<1>1. /\ Sound(exec[x]) /\ exec[x].row \in Row /\ t \in Tokens
      /\ Event(x).amount \in Nat /\ exec[x].row.balance \in Int
  BY <1>0, EventFits DEF Sound, Row
<1>2. CASE Remint(x)
  <2> DEFINE gained == IF Multi THEN Event(x).amount ELSE 0
             r == [asset[t] EXCEPT !.owner = Event(x).to, !.block = Event(x).block,
                     !.balance = exec[x].row.balance + gained]
  <2>1. Changed(x, r) /\ exec[x].pc = "remint" /\ Goto(x, "recordMint")
    BY <1>2 DEF Remint, Update, Changed
  <2>2. gained \in Int /\ gained <= Event(x).amount
    BY <1>1
  <2>3. asset[t] \in Row => r.balance = exec[x].row.balance + gained
    BY DEF Row
  <2>4. ASSUME NEW u \in Tokens, u = t
        PROVE  exec[x].row.balance + gained + Owed(u) <= Allowed(u) + Event(x).amount
    <3>1. exec[x].row.balance + Owed(u) <= Allowed(u)
      BY <2>1, <2>4 DEF BackedInv, Reading
    <3>2. Owed(u) \in Int /\ Allowed(u) \in Int
      BY <2>1, <1>0, GotoGoesOn, OwesNoMore DEF Steps, Unwritten
    <3> QED BY <1>1, <2>2, <3>1, <3>2
  <2>5. "recordMint" \in Steps /\ "recordMint" \notin Reading /\ "recordMint" \notin Unwritten
    BY DEF Steps, Reading, Unwritten
  <2>6. exec[x].row.balance + gained \in Int
    BY <1>1, <2>2
  <2> HIDE DEF r, gained
  <2> QED BY <1>0, <2>1, <2>3, <2>4, <2>5, <2>6, UpdateBacked
<1>3. CASE Move(x)
  <2> DEFINE r == [asset[t] EXCEPT !.owner = Event(x).to, !.block = Event(x).block]
             pc == IF Multi THEN "findToSet" ELSE "findMoved"
  <2>1. Changed(x, r) /\ Goto(x, pc)
    BY <1>3 DEF Move, Update, Changed
  <2>2. asset[t] \in Row => r.balance = asset[t].balance
    BY DEF Row
  <2>3. pc \in Steps /\ pc \notin Reading
    BY DEF Steps, Reading
  <2> HIDE DEF r, pc
  <2> QED BY <1>0, <2>1, <2>2, <2>3, UpdateBacked
<1>4. CASE SetBalance(x)
  <2> DEFINE r == [asset[t] EXCEPT !.balance = Event(x).amount, !.block = Event(x).block]
  <2>1. Changed(x, r) /\ Goto(x, "findMoved")
    BY <1>4 DEF SetBalance, Update, Changed
  <2>2. asset[t] \in Row => r.balance = Event(x).amount
    BY DEF Row
  <2>3. "findMoved" \in Steps /\ "findMoved" \notin Reading /\ "findMoved" \notin Unwritten
    BY DEF Steps, Reading, Unwritten
  <2>4. ASSUME NEW u \in Tokens
        PROVE  Event(x).amount + Owed(u) <= Allowed(u) + Event(x).amount
    <3>1. Owed(u) \in Int /\ Allowed(u) \in Int
      BY <2>1, <2>3, <1>0, GotoGoesOn, OwesNoMore
    <3> QED BY <1>1, <3>1 DEF BackedInv
  <2> HIDE DEF r
  <2> QED BY <1>0, <1>1, <2>1, <2>2, <2>3, <2>4, UpdateBacked
<1> QED BY <1>2, <1>3, <1>4

LEMMA BurnBacked ==
  ASSUME FlowInv, FlowInv', BackedInv, NEW x \in Executions, BurnAsset(x)
  PROVE  BackedInv'
<1> DEFINE t == Event(x).token
           left == exec[x].row.balance - Event(x).amount
<1>1. exec[x].pc = "burn" /\ exec[x].pc \in Steps /\ Goto(x, "audit") /\ attempted' = attempted
  BY DEF BurnAsset, Steps, ghosts
<1>2. /\ t \in Tokens /\ Event(x).amount \in Nat /\ exec[x].row.balance \in Int
  BY <1>1, EventFits DEF Sound, Holding, Row
<1>3. GoesOn(x) /\ exec'[x].pc = "audit"
  BY <1>1, GotoGoesOn DEF Unwritten, Steps
<1>4. \/ asset' = asset
      \/ asset[t] # Null /\ asset' = [asset EXCEPT ![t].balance = left, ![t].block = Event(x).block]
      \/ asset' = [asset EXCEPT ![t] = Null]
  BY DEF BurnAsset
<1>5. \A u \in Tokens \ {t} : asset'[u] = asset[u]
  BY <1>4 DEF FlowInv, TypeOK
<1>6. asset'[t] \in {asset[t], Null} \/ asset'[t].balance = left
  BY <1>2, <1>4 DEF FlowInv, TypeOK, Row
<1>7. ASSUME NEW u \in Tokens, u = t PROVE left + Owed(u)' <= Allowed(u)'
  <2>1. exec[x].row.balance + Owed(u) <= Allowed(u)
    BY <1>1, <1>7 DEF BackedInv, Reading
  <2>2. /\ Owed(u)' <= Owed(u) /\ Owed(u) \in Nat /\ Owed(u)' \in Nat
        /\ Allowed(u)' = Allowed(u) /\ Allowed(u) \in Nat
    BY <1>3, OwesNoMore
  <2> QED BY <1>2, <2>1, <2>2
<1>8. "audit" \notin Reading
  BY DEF Reading
<1> HIDE DEF left
<1> QED BY <1>1, <1>3, <1>5, <1>6, <1>7, <1>8, WritesBacked

LEMMA BeginsStayBacked ==
  ASSUME FlowInv, FlowInv', BackedInv, NEW x \in Executions,
         Deliver(x) \/ SaveNFTs(x) \/ Publish(x)
  PROVE  BackedInv'
<1>1. exec[x].pc \notin Unwritten /\ asset' = asset /\ Attempting(exec'[x])
  BY DEF Deliver, SaveNFTs, Publish, Unwritten, rows
<1>2. PICK q : exec' = [exec EXCEPT ![x] = q] /\ q.pc \in {"contract", "done"}
  <2>1. CASE Deliver(x)
    <3>1. PICK n, k : exec' = [exec EXCEPT ![x] = [New EXCEPT !.pc = "contract", !.log = n,
                                     !.kind = k, !.attempt = 1, !.attempts = Attempts]]
      BY <2>1 DEF Deliver
    <3>2. ASSUME NEW q, q = [New EXCEPT !.pc = "contract", !.log = n,
                                     !.kind = k, !.attempt = 1, !.attempts = Attempts]
          PROVE  q.pc = "contract"
      BY <3>2, NewFits DEF Execution
    <3> QED BY <3>1, <3>2
  <2>2. CASE SaveNFTs(x)
    <3>1. PICK logs \in SUBSET Logs : exec' = [exec EXCEPT ![x] = Begin([New EXCEPT !.todo = logs])]
      BY <2>2 DEF SaveNFTs
    <3>2. [New EXCEPT !.todo = logs] \in Execution
      BY NewFits DEF Execution
    <3> QED BY <3>1, <3>2, BeginFits
  <2>3. CASE Publish(x)
    BY <2>3, BeginFits DEF Publish, FlowInv, TypeOK
  <2> QED BY <2>1, <2>2, <2>3
<1>3. exec'[x].pc \in {"contract", "done"} /\ \A y \in Executions \ {x} : exec'[y] = exec[y]
  BY <1>2 DEF FlowInv, TypeOK
<1> QED BY <1>1, <1>3, BeginsBacked

LEMMA FailuresBacked ==
  ASSUME FlowInv, FlowInv', BackedInv, NEW x \in Executions, FailExecution(x)
  PROVE  BackedInv'
<1>0. asset' = asset
  BY DEF FailExecution, rows
<1>1. CASE Retry(x)
  <2>1. /\ exec' = [exec EXCEPT ![x] = IF @.attempt < @.attempts THEN Again(@) ELSE Begin(@)]
        /\ exec[x].pc = "publish" /\ Attempting(exec'[x])
    BY <1>1 DEF Retry
  <2>2. Again(exec[x]).pc = "contract" /\ Begin(exec[x]).pc \in {"contract", "done"}
    BY BeginFits DEF Again, FlowInv, TypeOK, Execution
  <2>3. exec'[x].pc \in {"contract", "done"} /\ \A y \in Executions \ {x} : exec'[y] = exec[y]
    BY <2>1, <2>2 DEF FlowInv, TypeOK
  <2> QED BY <1>0, <2>1, <2>3, BeginsBacked DEF Unwritten
<1>2. CASE ~Retry(x)
  <2>1. PICK pc \in {"audit", "burn", "publish"} :
          /\ Goto(x, pc) /\ attempted' = attempted
          /\ pc = "burn" => exec[x].pc = "recordBurn"
    BY <1>2 DEF FailExecution, Reject, ghosts
  <2>2. pc \in Steps /\ pc \notin Unwritten /\ (pc \in Reading => exec[x].pc \in Reading)
    BY <2>1 DEF Steps, Unwritten, Reading
  <2> QED BY <1>0, <2>1, <2>2, GotoBacked
<1> QED BY <1>1, <1>2

LEMMA BackedStep == FlowInv /\ FlowInv' /\ BackedInv /\ [Next]_vars => BackedInv'
<1> SUFFICES ASSUME FlowInv, FlowInv', BackedInv, [Next]_vars PROVE BackedInv'
  OBVIOUS
<1>1. CASE UNCHANGED <<asset, exec, attempted>>
  <2>1. \A t \in Tokens : Owed(t)' = Owed(t) /\ Allowed(t)' = Allowed(t)
    BY <1>1, AllowedStays DEF Owed, Owing
  <2>2. \A x \in Executions : Event(x)' = Event(x)
    BY <1>1 DEF Event
  <2> QED BY <1>1, <2>1, <2>2 DEF BackedInv
<1>2. CASE UNCHANGED vars
  BY <1>1, <1>2 DEF vars, rows, ghosts
<1>3. ASSUME NEW x \in Executions, Deliver(x) \/ SaveNFTs(x) \/ Handle(x) \/ FailExecution(x)
      PROVE  BackedInv'
  BY <1>3, BeginsStayBacked, FailuresBacked, CallsStayBacked, InsertBacked, UpdatesBacked,
     BurnBacked DEF Handle
<1>4. ASSUME NEW v \in Visits, BeginVisit(v) \/ Explore(v) \/ FailVisit(v)
      PROVE  BackedInv'
  <2>1. UNCHANGED <<asset, exec, attempted>>
    BY <1>4 DEF BeginVisit, Explore, FailVisit, Detect, CreateContract, GetLatestBlock,
       PublishDiscovered, Refresh, ContractOnly, rows, ghosts
  <2> QED BY <1>1, <2>1
<1> QED BY <1>2, <1>3, <1>4 DEF Next

LEMMA BackedInit == Init => BackedInv
<1> SUFFICES ASSUME Init, NEW t \in Tokens
             PROVE  /\ Owed(t) <= Allowed(t)
                    /\ asset[t] = Null
                    /\ \A x \in Executions : exec[x].pc \notin Reading
  BY DEF BackedInv
<1>1. exec = [x \in Executions |-> New] /\ attempted = [n \in Logs |-> 0]
      /\ asset[t] = Null /\ New.pc = "new"
  BY DEF Init, New
<1>2. \A x \in Executions : exec[x].pc = "new"
  BY <1>1
<1>3. Owed(t) = 0
  <2>1. PICK f : f = Owing(t)
    OBVIOUS
  <2>2. \A x \in Executions : f[x] = 0
    BY <1>2, <2>1 DEF Owing, Owes, Unwritten
  <2> QED BY <2>1, <2>2, SumOfNothing, ExecutionsAssumption DEF Owed
<1>4. Allowed(t) = 0
  <2>1. PICK f : f = Given(t)
    OBVIOUS
  <2>2. \A n \in Logs : f[n] = 0
    <3> TAKE n \in Logs
    <3>1. PICK m \in Nat : m = Chain[n].amount
      BY ChainFits
    <3>2. 0 * m = 0
      OBVIOUS
    <3> QED BY <1>1, <2>1, <3>1, <3>2 DEF Given
  <2> QED BY <2>1, <2>2, SumOfNothing, LogsFinite DEF Allowed
<1> QED BY <1>1, <1>2, <1>3, <1>4 DEF Reading

\* No retry, repeated event or lost update makes more of a token than the mints
\* and transfers whose handling was begun: a balance written from a row that was
\* read before another's write is never above what the attempts begun by then,
\* less those still to be written, can have given.
THEOREM BalancesAreBacked == Spec => []BalanceBacked
<1>1. FlowInv /\ BackedInv => BalanceBacked
  <2> SUFFICES ASSUME FlowInv, BackedInv, NEW t \in Tokens, asset[t] # Null
               PROVE  asset[t].balance <= Allowed(t)
    BY DEF BalanceBacked, Allowed
  <2>1. asset[t].balance + Owed(t) <= Allowed(t) /\ asset[t].balance \in Int
    BY DEF BackedInv, FlowInv, TypeOK, Row
  <2>2. Owed(t) \in Nat /\ Allowed(t) \in Nat
    BY OwedNow
  <2> QED BY <2>1, <2>2
<1>2. FlowInv /\ BackedInv /\ [Next]_vars => (FlowInv /\ BackedInv)'
  BY FlowStep, BackedStep
<1>3. Init => FlowInv /\ BackedInv
  BY FlowInit, BackedInit
<1> QED BY <1>1, <1>2, <1>3, PTL DEF Spec
==============================================================================
