------------------------- MODULE ShardProgram_proofs -------------------------
(***************************************************************************)
(* Theorems about ShardProgram, for any number of wallets, spellings,      *)
(* days, requests and referral operations.                                 *)
(***************************************************************************)
EXTENDS ShardProgram, SumTheorems

\* An execution in flight has an address and a day, and its bonus step a row.
InFlight(q) ==
  /\ q.pc # "idle" => q.addr \in Address /\ q.day \in Days
  /\ q.pc = "earn" => q.own # Null

\* A referral operation has the rows its program counter promises.
OpReady(q) ==
  /\ q.pc \in {"existing", "count", "balance", "insert"} =>
       q.referrer \in Wallets /\ q.referee \in Wallets
  /\ q.pc \in {"find", "threshold", "activate"} => q.referee \in Wallets
  /\ q.pc = "activate" => q.found # Null
  /\ q.pc = "threshold" => q.found # Null
  /\ q.pc = "expire" => \A v \in q.todo : q.rows[v] # Null

TypeInv ==
  /\ TypeOK
  /\ \A r \in Requests : InFlight(req[r])
  /\ \A o \in RefOps : OpReady(op[o])

-----------------------------------------------------------------------------
(* What the amounts are *)

LEMMA ReferrerBonusType ==
  ASSUME NEW n \in Nat
  PROVE  ReferrerBonus(n) \in Nat
BY BonusAssumption DEF ReferrerBonus

LEMMA MultipliedType ==
  ASSUME NEW n \in Nat, NEW b \in BOOLEAN
  PROVE  Multiplied(n, b) \in Nat
BY DEF Multiplied

LEMMA EarnedType ==
  ASSUME NEW q \in Request
  PROVE  Earned(q) \in Shards
BY MultipliedType DEF Earned, Shards, Request

LEMMA AddShardsType ==
  ASSUME NEW s \in Shards, NEW t \in Shards
  PROVE  AddShards(s, t) \in Shards
BY DEF AddShards, Shards

LEMMA TotalType ==
  ASSUME NEW s \in Shards
  PROVE  TotalShards(s) \in Nat
BY DEF TotalShards, Shards

LEMMA NullIsNoRow ==
  Null \notin Address /\ Null \notin Shards /\ Null \notin Referral /\ Null \notin Wallets
BY NullAssumption

LEMMA LowerCaseType ==
  ASSUME NEW a \in Address
  PROVE  LowerCase(a) \in Address /\ a.wallet \in Wallets
BY CasesAssumption DEF LowerCase, Spelled, Address

LEMMA SpelledType ==
  ASSUME NEW w \in Wallets
  PROVE  Spelled(w) \in Address
BY CasesAssumption DEF Spelled, Address

LEMMA ReferralUpdates ==
  ASSUME NEW ref \in Referral, NEW n \in Nat, day \in Nat
  PROVE  /\ Earning(ref, n) \in Referral
         /\ Activated(ref) \in Referral
         /\ Expired(ref) \in Referral
<1>1. Earning(ref, n) \in Referral
  BY DEF Earning, Referral
<1>2. Activated(ref) \in Referral
  <2>1. day + BonusDays \in Nat
    BY BonusAssumption
  <2> QED
    BY <2>1 DEF Activated, Referral
<1>3. Expired(ref) \in Referral
  BY DEF Expired, Referral
<1> QED
  BY <1>1, <1>2, <1>3

LEMMA IdleType == Idle \in Request /\ InFlight(Idle)
BY DEF Idle, Request, InFlight, PC, Recorded, Reading

-----------------------------------------------------------------------------
LEMMA InitType == Init => TypeInv
<1> SUFFICES ASSUME Init PROVE TypeInv
  OBVIOUS
<1> USE DEF Init
<1>1. TablesType
  BY DaysAssumption DEF TablesInit, TablesType, Days
<1>2. CalcType
  BY IdleType DEF CalcInit, CalcType
<1>3. RefType
  BY DEF RefInit, RefType, RefOp, IdleOp, NoRows
<1>4. \A r \in Requests : InFlight(req[r])
  BY IdleType DEF CalcInit
<1>5. \A o \in RefOps : OpReady(op[o])
  BY DEF RefInit, IdleOp, OpReady
<1> QED
  BY <1>1, <1>2, <1>3, <1>4, <1>5 DEF TypeInv, TypeOK

-----------------------------------------------------------------------------
(* Every step of a daily calculation keeps the types *)

\* One request moves on to q, the others stay.
LEMMA RequestMoves ==
  ASSUME TypeInv, NEW r \in Requests, NEW q \in Request, InFlight(q),
         req' = [req EXCEPT ![r] = q]
  PROVE  /\ req' \in [Requests -> Request]
         /\ \A s \in Requests : InFlight(req[s])'
BY DEF TypeInv, TypeOK, CalcType, InFlight

\* A step that only moves one request on.
LEMMA MoveKeepsType ==
  ASSUME TypeInv, NEW r \in Requests, NEW q \in Request, InFlight(q),
         req' = [req EXCEPT ![r] = q],
         UNCHANGED <<tables, stake, dev, credits, op>>
  PROVE  TypeInv'
<1>1. TablesType' /\ RefType' /\ \A o \in RefOps : OpReady(op[o])'
  BY DEF TypeInv, TypeOK, TablesType, RefType, OpReady, tables
<1>2. /\ req' \in [Requests -> Request]
      /\ \A s \in Requests : InFlight(req[s])'
  BY RequestMoves
<1>3. CalcType'
  BY <1>2 DEF TypeInv, TypeOK, CalcType
<1> QED
  BY <1>1, <1>2, <1>3 DEF TypeInv, TypeOK

LEMMA ReadingStepsKeepType ==
  ASSUME TypeInv, NEW r \in Requests, UNCHANGED op,
         \/ Arrive(r) \/ CheckSeason(r) \/ FindExistingHistory(r)
         \/ ReadVaultPositions(r) \/ ReadContributions(r) \/ ReadOwnReferral(r)
         \/ ReadActiveReferrals(r) \/ ReadBalance(r) \/ Respond(r) \/ Fail(r)
  PROVE  TypeInv'
<1> USE DEF TypeInv, TypeOK
<1>0. /\ req[r] \in Request /\ InFlight(req[r])
      /\ req \in [Requests -> Request]
  BY DEF CalcType
<1>1. CASE Arrive(r)
  <2>1. PICK a \in Address :
          req' = [req EXCEPT ![r] = [Idle EXCEPT !.pc = "season", !.addr = a, !.day = day]]
    BY <1>1 DEF Arrive
  <2> DEFINE q == [Idle EXCEPT !.pc = "season", !.addr = a, !.day = day]
  <2>2. day \in Days /\ day \in Nat
    BY DaysAssumption DEF TablesType, Days
  <2>3. q \in Request /\ InFlight(q)
    BY <2>2 DEF Idle, Request, InFlight, PC, Recorded, Reading
  <2> QED
    BY <1>1, <2>1, <2>3, MoveKeepsType DEF Arrive
<1>2. CASE CheckSeason(r)
  <2> DEFINE q == IF season = "active" THEN [req[r] EXCEPT !.pc = "history"] ELSE Idle
  <2>1. req' = [req EXCEPT ![r] = q]
    BY <1>2 DEF CheckSeason
  <2>2. q \in Request /\ InFlight(q)
    BY <1>0, <1>2, IdleType DEF CheckSeason, Request, InFlight, PC, Recorded, Reading
  <2> QED
    BY <1>2, <2>1, <2>2, MoveKeepsType DEF CheckSeason
<1>3. CASE FindExistingHistory(r)
  <2> DEFINE q == IF FindHistory(req[r].addr, req[r].day) = Null
                THEN [req[r] EXCEPT !.pc = "vaults"]
                ELSE [req[r] EXCEPT !.pc = "respond",
                                    !.result = FindHistory(req[r].addr, req[r].day)]
  <2>0. FindHistory(req[r].addr, req[r].day) \in Shards \cup {Null}
    BY <1>0, <1>3, LowerCaseType
    DEF FindExistingHistory, FindHistory, InFlight, TablesType, Keys
  <2>1. req' = [req EXCEPT ![r] = q]
    BY <1>0, <1>3 DEF FindExistingHistory
  <2>2. q \in Request /\ InFlight(q)
    BY <1>0, <1>3, <2>0 DEF FindExistingHistory, Request, InFlight, PC, Recorded, Reading
  <2> QED
    BY <1>3, <2>1, <2>2, MoveKeepsType DEF FindExistingHistory
<1>4. CASE ReadVaultPositions(r)
  <2> DEFINE q == [req[r] EXCEPT !.pc = "contributions",
                               !.staking = stake[req[r].addr.wallet]]
  <2>0. stake[req[r].addr.wallet] \in Nat
    BY <1>0, <1>4, LowerCaseType, YieldAssumption DEF ReadVaultPositions, InFlight, CalcType
  <2>1. req' = [req EXCEPT ![r] = q]
    BY <1>0, <1>4 DEF ReadVaultPositions
  <2>2. q \in Request /\ InFlight(q)
    BY <1>0, <1>4, <2>0 DEF ReadVaultPositions, Request, InFlight, PC, Recorded, Reading
  <2> QED
    BY <1>4, <2>1, <2>2, MoveKeepsType DEF ReadVaultPositions
<1>5. CASE ReadContributions(r)
  <2> DEFINE q == [req[r] EXCEPT !.pc = "ownReferral",
                               !.developer = dev[req[r].addr.wallet][req[r].day]]
  <2>0. dev[req[r].addr.wallet][req[r].day] \in Nat
    BY <1>0, <1>5, LowerCaseType DEF ReadContributions, InFlight, CalcType
  <2>1. req' = [req EXCEPT ![r] = q]
    BY <1>0, <1>5 DEF ReadContributions
  <2>2. q \in Request /\ InFlight(q)
    BY <1>0, <1>5, <2>0 DEF ReadContributions, Request, InFlight, PC, Recorded, Reading
  <2> QED
    BY <1>5, <2>1, <2>2, MoveKeepsType DEF ReadContributions
<1>6. CASE ReadOwnReferral(r)
  <2> DEFINE q == [req[r] EXCEPT !.pc = "activeReferrals",
                  !.own = FindReferral(req[r].addr),
                  !.boosted = /\ FindReferral(req[r].addr) # Null
                              /\ FindReferral(req[r].addr).status = "active"
                              /\ WithinBonusPeriod(FindReferral(req[r].addr))]
  <2>0. FindReferral(req[r].addr) \in Referral \cup {Null}
    BY <1>0, <1>6, LowerCaseType DEF ReadOwnReferral, FindReferral, InFlight, TablesType
  <2>1. req' = [req EXCEPT ![r] = q]
    BY <1>0, <1>6 DEF ReadOwnReferral
  <2>2. q \in Request /\ InFlight(q)
    BY <1>0, <1>6, <2>0 DEF ReadOwnReferral, Request, InFlight, PC, Recorded, Reading
  <2> QED
    BY <1>6, <2>1, <2>2, MoveKeepsType DEF ReadOwnReferral
<1>7. CASE ReadActiveReferrals(r)
  <2> DEFINE q == [req[r] EXCEPT !.pc = "bonuses",
                               !.refs = FindActiveByReferrer(req[r].addr)]
  <2>0. FindActiveByReferrer(req[r].addr) \in SUBSET Wallets
    BY DEF FindActiveByReferrer
  <2>1. req' = [req EXCEPT ![r] = q]
    BY <1>0, <1>7 DEF ReadActiveReferrals
  <2>2. q \in Request /\ InFlight(q)
    BY <1>0, <1>7, <2>0 DEF ReadActiveReferrals, Request, InFlight, PC, Recorded, Reading
  <2> QED
    BY <1>7, <2>1, <2>2, MoveKeepsType DEF ReadActiveReferrals
<1>8. CASE ReadBalance(r)
  <2> DEFINE q == [req[r] EXCEPT !.pc = "credit", !.seen = FindBalance(req[r].addr)]
  <2>0. FindBalance(req[r].addr) \in Shards \cup {Null}
    BY <1>0, <1>8, LowerCaseType DEF ReadBalance, FindBalance, InFlight, TablesType
  <2>1. req' = [req EXCEPT ![r] = q]
    BY <1>0, <1>8 DEF ReadBalance
  <2>2. q \in Request /\ InFlight(q)
    BY <1>0, <1>8, <2>0 DEF ReadBalance, Request, InFlight, PC, Recorded, Reading
  <2> QED
    BY <1>8, <2>1, <2>2, MoveKeepsType DEF ReadBalance
<1>9. CASE Respond(r)
  BY <1>9, IdleType, MoveKeepsType DEF Respond
<1>10. CASE Fail(r)
  BY <1>10, IdleType, MoveKeepsType DEF Fail
<1> QED
  BY <1>1, <1>2, <1>3, <1>4, <1>5, <1>6, <1>7, <1>8, <1>9, <1>10

LEMMA BonusStepKeepsType ==
  ASSUME TypeInv, NEW r \in Requests, UNCHANGED op, AddReferralBonus(r)
  PROVE  TypeInv'
<1>0. /\ req[r] \in Request /\ InFlight(req[r])
      /\ req \in [Requests -> Request]
  BY DEF TypeInv, TypeOK, CalcType
<1>1. PICK w \in req[r].refs :
        LET row == history[<<Spelled(w), req[r].day>>]
            bonus == IF row = Null \/ balance[Spelled(w)] = Null
                     THEN 0 ELSE ReferrerBonus(TotalShards(row))
        IN  req' = [req EXCEPT ![r].refs = @ \ {w}, ![r].bonus = @ + bonus]
  BY DEF AddReferralBonus
<1> DEFINE row == history[<<Spelled(w), req[r].day>>]
           bonus == IF row = Null \/ balance[Spelled(w)] = Null
                    THEN 0 ELSE ReferrerBonus(TotalShards(row))
           q == [req[r] EXCEPT !.refs = @ \ {w}, !.bonus = @ + bonus]
<1>2. w \in Wallets /\ req[r].day \in Days
  BY <1>0, <1>1 DEF AddReferralBonus, Request, InFlight
<1>3. row \in Shards \cup {Null}
  BY <1>2, SpelledType DEF TypeInv, TypeOK, TablesType, Keys
<1>4. bonus \in Nat
  BY <1>3, ReferrerBonusType, TotalType
<1>5. req' = [req EXCEPT ![r].refs = @ \ {w}, ![r].bonus = @ + bonus]
  BY <1>1
<1> HIDE DEF bonus, row
<1>5a. req' = [req EXCEPT ![r] = q]
  BY <1>0, <1>5
<1>6. q \in Request /\ InFlight(q)
  <2>1. req[r].bonus + bonus \in Nat
    BY <1>0, <1>4 DEF Request
  <2>2. req[r].refs \ {w} \in SUBSET Wallets
    BY <1>0 DEF Request
  <2> QED
    BY <1>0, <2>1, <2>2 DEF Request, InFlight
<1> QED
  BY <1>5a, <1>6, MoveKeepsType DEF AddReferralBonus

LEMMA WritingStepsKeepType ==
  ASSUME TypeInv, NEW r \in Requests, UNCHANGED op,
         \/ RecordHistory(r) \/ UpdateBalance(r) \/ CreateBalance(r)
         \/ AddEarnedShards(r)
  PROVE  TypeInv'
<1>0. /\ req[r] \in Request /\ InFlight(req[r])
      /\ req \in [Requests -> Request]
      /\ Earned(req[r]) \in Shards
  BY EarnedType DEF TypeInv, TypeOK, CalcType
<1>00. req[r].pc # "idle" => KeyOf(req[r]) \in Keys
  BY <1>0 DEF InFlight, KeyOf, Keys
<1>01. RefType' /\ \A o \in RefOps : OpReady(op[o])'
  BY DEF TypeInv, TypeOK, RefType, OpReady
<1>1. CASE RecordHistory(r)
  <2>1. CASE history[KeyOf(req[r])] = Null
    <3> DEFINE q == [req[r] EXCEPT !.pc = "balance", !.result = Earned(req[r])]
    <3>1. q \in Request /\ InFlight(q)
      BY <1>0, <1>1 DEF RecordHistory, Request, InFlight, PC, Recorded, Reading
    <3>2. req' = [req EXCEPT ![r] = q]
      BY <1>0, <1>1, <2>1 DEF RecordHistory
    <3>3. /\ req' \in [Requests -> Request]
          /\ \A s \in Requests : InFlight(req[s])'
      BY <3>1, <3>2, RequestMoves
    <3>4. history' \in [Keys -> Shards \cup {Null}]
      BY <1>0, <1>00, <1>1, <2>1 DEF RecordHistory, TypeInv, TypeOK, TablesType
    <3>5. TablesType' /\ CalcType'
      BY <1>1, <3>3, <3>4 DEF RecordHistory, TypeInv, TypeOK, TablesType, CalcType
    <3> QED
      BY <1>01, <3>3, <3>5 DEF TypeInv, TypeOK
  <2>2. CASE history[KeyOf(req[r])] # Null
    BY <1>1, <2>2, IdleType, MoveKeepsType DEF RecordHistory, tables
  <2> QED
    BY <2>1, <2>2
<1>2. ASSUME NEW a \in Address, NEW row \in Shards, Credit(r, a, row),
             req[r].pc = "credit",
             UNCHANGED <<day, season, writing, history, referral, stake, dev>>
      PROVE  TypeInv'
  <2> DEFINE q == [req[r] EXCEPT !.pc =
                     IF req[r].own # Null /\ req[r].bonus > 0 THEN "earn" ELSE "respond"]
  <2>1. q \in Request /\ InFlight(q)
    BY <1>0, <1>2 DEF Request, InFlight, PC, Recorded, Reading
  <2>2. req' = [req EXCEPT ![r] = q]
    BY <1>0, <1>2 DEF Credit
  <2>3. /\ req' \in [Requests -> Request]
        /\ \A s \in Requests : InFlight(req[s])'
    BY <2>1, <2>2, RequestMoves
  <2>4. balance' \in [Address -> Shards \cup {Null}]
    BY <1>2 DEF Credit, TypeInv, TypeOK, TablesType
  <2>5. credits' \in [Keys -> Nat]
    <3>1. \A k \in Keys : credits[k] + 1 \in Nat
      BY DEF TypeInv, TypeOK, CalcType
    <3> QED
      BY <1>2, <1>00, <3>1 DEF Credit, TypeInv, TypeOK, CalcType
  <2>6. TablesType' /\ CalcType'
    BY <1>2, <2>3, <2>4, <2>5 DEF TypeInv, TypeOK, TablesType, CalcType
  <2> QED
    BY <1>01, <2>3, <2>6 DEF TypeInv, TypeOK
<1>3. CASE UpdateBalance(r)
  <2>1. LowerCase(req[r].addr) \in Address
    BY <1>0, <1>3, LowerCaseType DEF UpdateBalance, InFlight
  <2>2. AddShards(req[r].seen, Earned(req[r])) \in Shards
    BY <1>0, <1>3, AddShardsType DEF UpdateBalance, Request
  <2> QED
    BY <1>2, <1>3, <2>1, <2>2 DEF UpdateBalance
<1>4. CASE CreateBalance(r)
  <2>1. req[r].addr \in Address
    BY <1>0, <1>4 DEF CreateBalance, InFlight
  <2>2. CASE balance[req[r].addr] = Null
    BY <1>0, <1>2, <1>4, <2>1, <2>2 DEF CreateBalance
  <2>3. CASE balance[req[r].addr] # Null
    BY <1>4, <2>3, IdleType, MoveKeepsType DEF CreateBalance, tables
  <2> QED
    BY <2>2, <2>3
<1>5. CASE AddEarnedShards(r)
  <2> DEFINE q == [req[r] EXCEPT !.pc = "respond"]
  <2>1. q \in Request /\ InFlight(q)
    BY <1>0, <1>5 DEF AddEarnedShards, Request, InFlight, PC, Recorded, Reading
  <2>2. req' = [req EXCEPT ![r] = q]
    BY <1>0, <1>5 DEF AddEarnedShards
  <2>3. /\ req' \in [Requests -> Request]
        /\ \A s \in Requests : InFlight(req[s])'
    BY <2>1, <2>2, RequestMoves
  <2>4. req[r].own \in Referral /\ req[r].bonus \in Nat /\ day \in Nat
    BY <1>0, <1>5, DaysAssumption
    DEF AddEarnedShards, Request, InFlight, TypeInv, TypeOK, TablesType, Days
  <2>5. Earning(req[r].own, req[r].bonus) \in Referral
    BY <2>4, ReferralUpdates
  <2>6. referral' \in [Wallets -> Referral \cup {Null}]
    BY <1>5, <2>5 DEF AddEarnedShards, TypeInv, TypeOK, TablesType
  <2>7. TablesType' /\ CalcType'
    BY <1>5, <2>3, <2>6 DEF AddEarnedShards, TypeInv, TypeOK, TablesType, CalcType
  <2> QED
    BY <1>01, <2>3, <2>7 DEF TypeInv, TypeOK
<1> QED
  BY <1>1, <1>3, <1>4, <1>5

LEMMA WorldKeepsType ==
  ASSUME TypeInv, World, UNCHANGED op
  PROVE  TypeInv'
<1>0. RefType' /\ \A o \in RefOps : OpReady(op[o])'
  BY DEF TypeInv, TypeOK, RefType, OpReady
<1>1. CASE Midnight
  BY <1>0, <1>1, DaysAssumption
  DEF Midnight, TypeInv, TypeOK, TablesType, CalcType, InFlight, calcVars, Days
<1>2. ASSUME NEW s \in SeasonStatus, LoadSeason(s) \/ WriteSeason(s) \/ DropSeason(s)
      PROVE  TypeInv'
  <2>1. /\ season' \in SeasonStatus /\ writing' \subseteq SeasonStatus
        /\ UNCHANGED <<day, history, balance, referral, calcVars>>
    BY <1>2 DEF LoadSeason, WriteSeason, DropSeason, TypeInv, TypeOK, TablesType
  <2> QED
    BY <1>0, <2>1 DEF TypeInv, TypeOK, TablesType, CalcType, InFlight, calcVars
<1>3. ASSUME NEW w \in Wallets, SyncVaultPositions(w) PROVE TypeInv'
  <2>1. stake' \in [Wallets -> StakeYields]
    BY <1>3 DEF SyncVaultPositions, TypeInv, TypeOK, CalcType
  <2> QED
    BY <1>0, <1>3, <2>1
    DEF SyncVaultPositions, TypeInv, TypeOK, TablesType, CalcType, InFlight, tables
<1>4. ASSUME NEW w \in Wallets, DistributeReward(w) PROVE TypeInv'
  <2>1. dev' \in [Wallets -> [Days -> Nat]]
    <3>1. PICK d \in 1 .. day : dev' = [dev EXCEPT ![w][d] = DevReward]
      BY <1>4 DEF DistributeReward
    <3>2. dev \in [Wallets -> [Days -> Nat]]
      BY DEF TypeInv, TypeOK, CalcType
    <3>3. [dev[w] EXCEPT ![d] = DevReward] \in [Days -> Nat]
      BY <3>2, RewardAssumption
    <3>4. dev' = [dev EXCEPT ![w] = [dev[w] EXCEPT ![d] = DevReward]]
      BY <3>1
    <3> QED
      BY <3>2, <3>3, <3>4
  <2> QED
    BY <1>0, <1>4, <2>1
    DEF DistributeReward, TypeInv, TypeOK, TablesType, CalcType, InFlight, tables
<1> QED
  BY <1>1, <1>2, <1>3, <1>4 DEF World

-----------------------------------------------------------------------------
(* Every step of a referral operation keeps the types *)

LEMMA IdleOpType == IdleOp \in RefOp /\ OpReady(IdleOp)
BY DEF IdleOp, RefOp, NoRows, OpReady

\* One operation moves on to q, and one row of referrals may be written.
LEMMA OperationMoves ==
  ASSUME TypeInv, NEW o \in RefOps, NEW q \in RefOp, OpReady(q),
         op' = [op EXCEPT ![o] = q],
         referral' \in [Wallets -> Referral \cup {Null}],
         UNCHANGED <<day, season, writing, history, balance, calcVars>>
  PROVE  TypeInv'
<1>1. TablesType' /\ CalcType' /\ \A r \in Requests : InFlight(req[r])'
  BY DEF TypeInv, TypeOK, TablesType, CalcType, InFlight, calcVars
<1>2. RefType' /\ \A p \in RefOps : OpReady(op[p])'
  BY DEF TypeInv, TypeOK, RefType, OpReady
<1> QED
  BY <1>1, <1>2 DEF TypeInv, TypeOK

LEMMA OperationMovesOnly ==
  ASSUME TypeInv, NEW o \in RefOps, NEW q \in RefOp, OpReady(q),
         op' = [op EXCEPT ![o] = q],
         UNCHANGED <<tables, calcVars>>
  PROVE  TypeInv'
<1>1. referral' \in [Wallets -> Referral \cup {Null}]
  BY DEF TypeInv, TypeOK, TablesType, tables
<1> QED
  BY <1>1, OperationMoves DEF tables

\* What is left of a batch, whatever became of its row.
LEMMA NextRowType ==
  ASSUME TypeInv, NEW o \in RefOps, NEW todo \in SUBSET Wallets, NextRow(o, todo)
  PROVE  \E q \in RefOp : OpReady(q) /\ op' = [op EXCEPT ![o] = q]
<1>0. op \in [RefOps -> RefOp] /\ op[o] \in RefOp
  BY DEF TypeInv, TypeOK, RefType
<1>1. CASE op[o].batch /\ todo # {}
  <2>1. PICK v \in todo :
          op' = [op EXCEPT ![o].pc = "find", ![o].referee = v,
                           ![o].found = Null, ![o].todo = todo \ {v}]
    BY <1>1 DEF NextRow
  <2> DEFINE q == [op[o] EXCEPT !.pc = "find", !.referee = v,
                                !.found = Null, !.todo = todo \ {v}]
  <2>2. op' = [op EXCEPT ![o] = q]
    BY <1>0, <2>1
  <2>3. v \in Wallets /\ todo \ {v} \in SUBSET Wallets
    OBVIOUS
  <2>4. q \in RefOp /\ OpReady(q)
    BY <1>0, <2>3 DEF RefOp, OpReady
  <2> QED
    BY <2>2, <2>4
<1>2. CASE ~ (op[o].batch /\ todo # {})
  BY <1>2, IdleOpType DEF NextRow, End
<1> QED
  BY <1>1, <1>2

LEMMA StartsKeepType ==
  ASSUME TypeInv, NEW o \in RefOps, UNCHANGED calcVars, RefStart(o)
  PROVE  TypeInv'
<1>1. CASE CreateReferral(o)
  <2>1. PICK referrer \in Wallets, referee \in Wallets :
          Start(o, [IdleOp EXCEPT !.pc = "existing", !.referrer = referrer,
                                  !.referee = referee])
    BY <1>1 DEF CreateReferral
  <2> DEFINE q == [IdleOp EXCEPT !.pc = "existing", !.referrer = referrer,
                                 !.referee = referee]
  <2>2. q \in RefOp /\ OpReady(q)
    BY DEF IdleOp, RefOp, NoRows, OpReady
  <2> QED
    BY <2>1, <2>2, OperationMovesOnly DEF Start
<1>2. CASE ActivateReferral(o)
  <2>1. PICK v \in Wallets : Start(o, [IdleOp EXCEPT !.pc = "find", !.referee = v])
    BY <1>2 DEF ActivateReferral
  <2> DEFINE q == [IdleOp EXCEPT !.pc = "find", !.referee = v]
  <2>2. q \in RefOp /\ OpReady(q)
    BY DEF IdleOp, RefOp, NoRows, OpReady
  <2> QED
    BY <2>1, <2>2, OperationMovesOnly DEF Start
<1>3. CASE CheckAndActivatePending(o)
  <2> DEFINE q == [IdleOp EXCEPT !.pc = "scan", !.batch = TRUE]
  <2>1. q \in RefOp /\ OpReady(q)
    BY DEF IdleOp, RefOp, NoRows, OpReady
  <2> QED
    BY <1>3, <2>1, OperationMovesOnly DEF CheckAndActivatePending, Start
<1>4. CASE ExpireOutdatedBonuses(o)
  <2> DEFINE q == [IdleOp EXCEPT !.pc = "scanExpired"]
  <2>1. q \in RefOp /\ OpReady(q)
    BY DEF IdleOp, RefOp, NoRows, OpReady
  <2> QED
    BY <1>4, <2>1, OperationMovesOnly DEF ExpireOutdatedBonuses, Start
<1> QED
  BY <1>1, <1>2, <1>3, <1>4 DEF RefStart

LEMMA ProceedsKeepType ==
  ASSUME TypeInv, NEW o \in RefOps, UNCHANGED calcVars,
         RefProceed(o) \/ Abandon(o) \/ SkipRow(o)
  PROVE  TypeInv'
<1>0. /\ op \in [RefOps -> RefOp] /\ op[o] \in RefOp /\ OpReady(op[o])
      /\ op[o].todo \in SUBSET Wallets
  BY DEF TypeInv, TypeOK, RefType, RefOp
<1>1. ASSUME UNCHANGED tables, NEW pc \in {"count", "balance", "insert"},
             op[o].pc \in {"existing", "count", "balance"},
             op' = [op EXCEPT ![o].pc = pc]
      PROVE  TypeInv'
  <2> DEFINE q == [op[o] EXCEPT !.pc = pc]
  <2>1. q \in RefOp /\ OpReady(q)
    BY <1>0, <1>1 DEF RefOp, OpReady
  <2>2. op' = [op EXCEPT ![o] = q]
    BY <1>0, <1>1
  <2> QED
    BY <1>1, <2>1, <2>2, OperationMovesOnly
<1>2. ASSUME UNCHANGED tables, End(o) PROVE TypeInv'
  BY <1>2, IdleOpType, OperationMovesOnly DEF End
<1>3. ASSUME UNCHANGED tables, NEW todo \in SUBSET Wallets, NextRow(o, todo)
      PROVE  TypeInv'
  BY <1>3, NextRowType, OperationMovesOnly
<1>4. CASE CheckExisting(o)
  BY <1>1, <1>2, <1>4 DEF CheckExisting
<1>5. CASE CheckCount(o)
  BY <1>1, <1>2, <1>5 DEF CheckCount
<1>6. CASE CheckRefereeBalance(o)
  BY <1>1, <1>2, <1>6 DEF CheckRefereeBalance
<1>7. CASE InsertReferral(o)
  <2>1. op[o].referee \in Wallets /\ op[o].referrer \in Wallets
    BY <1>0, <1>7 DEF InsertReferral, OpReady
  <2>2. NewReferral(op[o].referrer) \in Referral
    BY <2>1 DEF NewReferral, Referral
  <2>3. referral' \in [Wallets -> Referral \cup {Null}]
    BY <1>7, <2>2 DEF InsertReferral, TypeInv, TypeOK, TablesType
  <2> QED
    BY <1>7, <2>3, IdleOpType, OperationMoves DEF InsertReferral, End
<1>8. CASE FindPendingActivations(o)
  <2>1. PendingActivations \in SUBSET Wallets
    BY DEF PendingActivations
  <2> QED
    BY <1>3, <1>8, <2>1 DEF FindPendingActivations
<1>9. CASE FindReferralById(o)
  <2> DEFINE ref == referral[op[o].referee]
             q == [op[o] EXCEPT !.pc = "threshold", !.found = ref]
  <2>1. CASE ref # Null /\ ref.status = "pending"
    <3>1. ref \in Referral
      BY <1>0, <1>9, <2>1
      DEF FindReferralById, OpReady, TypeInv, TypeOK, TablesType
    <3>2. q \in RefOp /\ OpReady(q)
      BY <1>0, <1>9, <2>1, <3>1 DEF FindReferralById, RefOp, OpReady
    <3>3. op' = [op EXCEPT ![o] = q]
      BY <1>0, <1>9, <2>1 DEF FindReferralById
    <3> QED
      BY <1>9, <3>2, <3>3, OperationMovesOnly DEF FindReferralById
  <2>2. CASE ~ (ref # Null /\ ref.status = "pending")
    BY <1>0, <1>3, <1>9, <2>2 DEF FindReferralById
  <2> QED
    BY <2>1, <2>2
<1>10. CASE CheckThreshold(o)
  <2> DEFINE row == balance[Spelled(op[o].referee)]
             q == [op[o] EXCEPT !.pc = "activate"]
  <2>1. CASE row # Null /\ TotalShards(row) >= ActivationThreshold
    <3>1. q \in RefOp /\ OpReady(q)
      BY <1>0, <1>10 DEF CheckThreshold, RefOp, OpReady
    <3>2. op' = [op EXCEPT ![o] = q]
      BY <1>0, <1>10, <2>1 DEF CheckThreshold
    <3> QED
      BY <1>10, <3>1, <3>2, OperationMovesOnly DEF CheckThreshold
  <2>2. CASE ~ (row # Null /\ TotalShards(row) >= ActivationThreshold)
    BY <1>0, <1>3, <1>10, <2>2 DEF CheckThreshold
  <2> QED
    BY <2>1, <2>2
<1>11. CASE WriteActivated(o)
  <2>1. op[o].referee \in Wallets /\ op[o].found \in Referral /\ day \in Nat
    BY <1>0, <1>11, DaysAssumption
    DEF WriteActivated, OpReady, RefOp, TypeInv, TypeOK, TablesType, Days
  <2>2. Activated(op[o].found) \in Referral
    BY <2>1, ReferralUpdates
  <2>3. referral' \in [Wallets -> Referral \cup {Null}]
    BY <1>11, <2>1, <2>2 DEF WriteActivated, TypeInv, TypeOK, TablesType
  <2>4. PICK q \in RefOp : OpReady(q) /\ op' = [op EXCEPT ![o] = q]
    BY <1>0, <1>11, NextRowType DEF WriteActivated
  <2> QED
    BY <1>11, <2>3, <2>4, OperationMoves DEF WriteActivated
<1>12. CASE FindExpiringBonuses(o)
  <2>1. CASE ExpiringBonuses = {}
    BY <1>2, <1>12, <2>1 DEF FindExpiringBonuses
  <2>2. CASE ExpiringBonuses # {}
    <3> DEFINE rows == [v \in Wallets |->
                          IF v \in ExpiringBonuses THEN referral[v] ELSE Null]
               q == [op[o] EXCEPT !.pc = "expire", !.todo = ExpiringBonuses,
                                  !.rows = rows]
    <3>1. ExpiringBonuses \in SUBSET Wallets /\ \A v \in ExpiringBonuses : referral[v] # Null
      BY DEF ExpiringBonuses
    <3>2. rows \in [Wallets -> Referral \cup {Null}]
      BY DEF TypeInv, TypeOK, TablesType
    <3>3. \A v \in ExpiringBonuses : rows[v] # Null
      BY <3>1
    <3>4. op' = [op EXCEPT ![o] = q]
      BY <1>0, <1>12, <2>2 DEF FindExpiringBonuses
    <3> HIDE DEF rows
    <3>5. q \in RefOp /\ OpReady(q)
      BY <1>0, <3>1, <3>2, <3>3 DEF RefOp, OpReady
    <3> QED
      BY <1>12, <3>4, <3>5, OperationMovesOnly DEF FindExpiringBonuses
  <2> QED
    BY <2>1, <2>2
<1>13. CASE WriteExpired(o)
  <2>1. PICK v \in op[o].todo :
          /\ referral' = [referral EXCEPT ![v] = Expired(op[o].rows[v])]
          /\ IF op[o].todo = {v} THEN End(o)
             ELSE op' = [op EXCEPT ![o].todo = @ \ {v}, ![o].rows[v] = Null]
    BY <1>13 DEF WriteExpired
  <2>2. v \in Wallets /\ op[o].rows[v] \in Referral /\ day \in Nat
    BY <1>0, <1>13, <2>1, DaysAssumption
    DEF WriteExpired, OpReady, RefOp, TypeInv, TypeOK, TablesType, Days
  <2>3. Expired(op[o].rows[v]) \in Referral
    BY <2>2, ReferralUpdates
  <2>4. referral' \in [Wallets -> Referral \cup {Null}]
    BY <2>1, <2>2, <2>3 DEF TypeInv, TypeOK, TablesType
  <2>5. CASE op[o].todo = {v}
    BY <1>13, <2>1, <2>4, <2>5, IdleOpType, OperationMoves DEF WriteExpired, End
  <2>6. CASE op[o].todo # {v}
    <3> DEFINE q == [op[o] EXCEPT !.todo = @ \ {v}, !.rows = [@ EXCEPT ![v] = Null]]
    <3>1. [op[o].rows EXCEPT ![v] = Null] \in [Wallets -> Referral \cup {Null}]
      BY <1>0 DEF RefOp
    <3>2. \A u \in op[o].todo \ {v} : [op[o].rows EXCEPT ![v] = Null][u] # Null
      BY <1>0, <1>13 DEF WriteExpired, OpReady, RefOp
    <3>3. op' = [op EXCEPT ![o] = q]
      <4>1. op' = [op EXCEPT ![o].todo = @ \ {v}, ![o].rows[v] = Null]
        BY <2>1, <2>6
      <4>2. op' \in [RefOps -> RefOp] /\ op'[o] = q
        BY <1>0, <4>1 DEF RefOp
      <4> QED
        BY <1>0, <4>1, <4>2
    <3>4. q \in RefOp /\ OpReady(q)
      BY <1>0, <1>13, <3>1, <3>2 DEF WriteExpired, RefOp, OpReady
    <3> QED
      BY <1>13, <2>4, <3>3, <3>4, OperationMoves DEF WriteExpired
  <2> QED
    BY <2>5, <2>6
<1>14. CASE Abandon(o)
  BY <1>2, <1>14 DEF Abandon
<1>15. CASE SkipRow(o)
  BY <1>0, <1>3, <1>15 DEF SkipRow
<1> QED
  BY <1>4, <1>5, <1>6, <1>7, <1>8, <1>9, <1>10, <1>11, <1>12, <1>13, <1>14, <1>15
  DEF RefProceed
-----------------------------------------------------------------------------
\* The type invariant with the program counters' promises is inductive.
LEMMA TypeStep == TypeInv /\ [Next]_vars => TypeInv'
<1> SUFFICES ASSUME TypeInv, [Next]_vars PROVE TypeInv'
  OBVIOUS
<1>1. ASSUME CalcStep, UNCHANGED op PROVE TypeInv'
  <2>1. PICK r \in Requests : Arrive(r) \/ Proceed(r) \/ Fail(r)
    BY <1>1 DEF CalcStep
  <2> QED
    BY <1>1, <2>1, ReadingStepsKeepType, BonusStepKeepsType, WritingStepsKeepType
    DEF Proceed
<1>2. ASSUME World, UNCHANGED op PROVE TypeInv'
  BY <1>2, WorldKeepsType
<1>3. ASSUME RefStep, UNCHANGED calcVars PROVE TypeInv'
  BY <1>3, StartsKeepType, ProceedsKeepType DEF RefStep
<1>4. CASE UNCHANGED vars
  BY <1>4
  DEF vars, tables, calcVars, TypeInv, TypeOK, TablesType, CalcType, RefType,
      InFlight, OpReady
<1> QED
  BY <1>1, <1>2, <1>3, <1>4 DEF Next

\* Every table and every local variable keeps its type, whatever the requests,
\* the referral operations and the failures do.
THEOREM TypeCorrect == Spec => []TypeOK
<1>1. TypeInv => TypeOK
  BY DEF TypeInv
<1> QED
  BY InitType, TypeStep, <1>1, PTL DEF Spec

-----------------------------------------------------------------------------
(* A day is credited at most once.  The unique index lets one request per  *)
(* key past RecordHistory: until it has written the balance it alone holds *)
(* the key, and afterwards the row is there for good.                      *)

Holds(r, k) == req[r].pc \in Recorded /\ KeyOf(req[r]) = k

LedgerInv ==
  /\ \A k \in Keys : credits[k] <= 1 /\ (credits[k] > 0 => history[k] # Null)
  /\ \A r \in Requests, k \in Keys :
       Holds(r, k) => history[k] # Null /\ credits[k] = 0
  /\ \A r, s \in Requests, k \in Keys : Holds(r, k) /\ Holds(s, k) => r = s

LEMMA LedgerInit == Init => LedgerInv
BY DEF Init, TablesInit, CalcInit, Idle, LedgerInv, Holds, Recorded

\* A step that writes neither ledger and gives no request a key.
LEMMA LedgerUntouched ==
  ASSUME LedgerInv, UNCHANGED <<history, credits>>,
         \A r \in Requests, k \in Keys : Holds(r, k)' => Holds(r, k)
  PROVE  LedgerInv'
BY DEF LedgerInv

\* Most steps of a request move it between program counters without a key,
\* or from one with a key to another.
LEMMA MoveKeepsLedger ==
  ASSUME TypeInv, LedgerInv, NEW r \in Requests, NEW q,
         req' = [req EXCEPT ![r] = q],
         \/ q.pc \notin Recorded
         \/ req[r].pc \in Recorded /\ KeyOf(q) = KeyOf(req[r]),
         UNCHANGED <<history, credits>>
  PROVE  LedgerInv'
<1>1. req \in [Requests -> Request]
  BY DEF TypeInv, TypeOK, CalcType
<1>2. \A s \in Requests : req'[s] = IF s = r THEN q ELSE req[s]
  BY <1>1
<1>3. \A s \in Requests, k \in Keys : Holds(s, k)' => Holds(s, k)
  BY <1>2 DEF Holds, KeyOf
<1> QED
  BY <1>3, LedgerUntouched

LEMMA ReadingStepsKeepLedger ==
  ASSUME TypeInv, LedgerInv, NEW r \in Requests,
         \/ Arrive(r) \/ CheckSeason(r) \/ FindExistingHistory(r)
         \/ ReadVaultPositions(r) \/ ReadContributions(r) \/ ReadOwnReferral(r)
         \/ ReadActiveReferrals(r) \/ AddReferralBonus(r) \/ ReadBalance(r)
         \/ AddEarnedShards(r) \/ Respond(r) \/ Fail(r)
  PROVE  LedgerInv'
<1>0. req \in [Requests -> Request] /\ req[r] \in Request
  BY DEF TypeInv, TypeOK, CalcType
<1>1. UNCHANGED <<history, credits>>
  BY DEF Arrive, CheckSeason, FindExistingHistory, ReadVaultPositions,
         ReadContributions, ReadOwnReferral, ReadActiveReferrals,
         AddReferralBonus, ReadBalance, AddEarnedShards, Respond, Fail, tables
<1>2. Idle.pc \notin Recorded
  BY DEF Idle, Recorded
<1>3. CASE ReadBalance(r)
  <2> DEFINE q == [req[r] EXCEPT !.pc = "credit", !.seen = FindBalance(req[r].addr)]
  <2>1. req' = [req EXCEPT ![r] = q]
    BY <1>0, <1>3 DEF ReadBalance
  <2>2. req[r].pc \in Recorded /\ KeyOf(q) = KeyOf(req[r])
    BY <1>0, <1>3 DEF ReadBalance, Recorded, KeyOf, Request
  <2> QED
    BY <1>1, <2>1, <2>2, MoveKeepsLedger
<1>4. CASE Respond(r) \/ Fail(r)
  BY <1>1, <1>2, <1>4, MoveKeepsLedger DEF Respond, Fail
<1>5. CASE ~ ReadBalance(r) /\ ~ (Respond(r) \/ Fail(r))
  <2>1. /\ req' = [req EXCEPT ![r] = req'[r]]
        /\ req'[r].pc \notin Recorded
    <3>1. CASE Arrive(r)
      BY <1>0, <3>1 DEF Arrive, Idle, Recorded
    <3>2. CASE CheckSeason(r)
      BY <1>0, <1>2, <3>2 DEF CheckSeason, Recorded, Request
    <3>3. CASE FindExistingHistory(r)
      BY <1>0, <3>3 DEF FindExistingHistory, Recorded, Request
    <3>4. CASE ReadVaultPositions(r)
      BY <1>0, <3>4 DEF ReadVaultPositions, Recorded, Request
    <3>5. CASE ReadContributions(r)
      BY <1>0, <3>5 DEF ReadContributions, Recorded, Request
    <3>6. CASE ReadOwnReferral(r)
      BY <1>0, <3>6 DEF ReadOwnReferral, Recorded, Request
    <3>7. CASE ReadActiveReferrals(r)
      BY <1>0, <3>7 DEF ReadActiveReferrals, Recorded, Request
    <3>8. CASE AddReferralBonus(r)
      BY <1>0, <3>8 DEF AddReferralBonus, Recorded, Request
    <3>9. CASE AddEarnedShards(r)
      BY <1>0, <3>9 DEF AddEarnedShards, Recorded, Request
    <3> QED
      BY <1>5, <3>1, <3>2, <3>3, <3>4, <3>5, <3>6, <3>7, <3>8, <3>9
  <2> QED
    BY <1>1, <2>1, MoveKeepsLedger
<1> QED
  BY <1>3, <1>4, <1>5

\* The insert gives its request a key that no row, and so no request, had.
LEMMA RecordKeepsLedger ==
  ASSUME TypeInv, LedgerInv, NEW r \in Requests, RecordHistory(r)
  PROVE  LedgerInv'
<1> DEFINE key == KeyOf(req[r])
<1>0. /\ req \in [Requests -> Request] /\ req[r] \in Request
      /\ history \in [Keys -> Shards \cup {Null}] /\ credits \in [Keys -> Nat]
      /\ Earned(req[r]) # Null
  BY EarnedType, NullIsNoRow DEF TypeInv, TypeOK, CalcType, TablesType
<1>1. key \in Keys
  BY DEF RecordHistory, TypeInv, InFlight, KeyOf, Keys
<1>2. CASE history[key] = Null
  <2>1. /\ history' = [history EXCEPT ![key] = Earned(req[r])]
        /\ req' = [req EXCEPT ![r].pc = "balance", ![r].result = Earned(req[r])]
        /\ UNCHANGED credits
    BY <1>2 DEF RecordHistory
  <2>2. credits[key] = 0 /\ \A s \in Requests : ~ Holds(s, key)
    BY <1>0, <1>1, <1>2 DEF LedgerInv
  <2>3. \A s \in Requests, k \in Keys :
          Holds(s, k)' => Holds(s, k) \/ (s = r /\ k = key)
    BY <1>0, <2>1 DEF Holds, KeyOf, Request
  <2>4. \A k \in Keys : history'[k] = IF k = key THEN Earned(req[r]) ELSE history[k]
    BY <1>0, <2>1
  <2> HIDE DEF key
  <2>5. \A k \in Keys : credits'[k] <= 1 /\ (credits'[k] > 0 => history'[k] # Null)
    BY <1>0, <2>1, <2>4 DEF LedgerInv
  <2>6. \A s \in Requests, k \in Keys :
          Holds(s, k)' => history'[k] # Null /\ credits'[k] = 0
    BY <1>0, <2>1, <2>2, <2>3, <2>4 DEF LedgerInv
  <2>7. \A s, t \in Requests, k \in Keys : Holds(s, k)' /\ Holds(t, k)' => s = t
    BY <2>2, <2>3 DEF LedgerInv
  <2> QED
    BY <2>5, <2>6, <2>7 DEF LedgerInv
<1>3. CASE history[key] # Null
  <2>1. req' = [req EXCEPT ![r] = Idle] /\ UNCHANGED <<history, credits>>
    BY <1>3 DEF RecordHistory
  <2>2. Idle.pc \notin Recorded
    BY DEF Idle, Recorded
  <2> QED
    BY <2>1, <2>2, MoveKeepsLedger
<1> QED
  BY <1>2, <1>3

\* The credit spends the key: the request that holds it is the only one.
LEMMA CreditKeepsLedger ==
  ASSUME TypeInv, LedgerInv, NEW r \in Requests, NEW a, NEW row,
         req[r].pc = "credit", Credit(r, a, row), UNCHANGED history
  PROVE  LedgerInv'
<1> DEFINE key == KeyOf(req[r])
<1>0. /\ req \in [Requests -> Request] /\ req[r] \in Request
      /\ credits \in [Keys -> Nat]
  BY DEF TypeInv, TypeOK, CalcType
<1>1. key \in Keys /\ Holds(r, key)
  BY DEF TypeInv, InFlight, KeyOf, Keys, Holds, Recorded
<1>2. credits[key] = 0 /\ history[key] # Null
  BY <1>1 DEF LedgerInv
<1>3. \A k \in Keys : credits'[k] = IF k = key THEN 1 ELSE credits[k]
  BY <1>0, <1>1, <1>2 DEF Credit
<1>4. \A s \in Requests, k \in Keys : Holds(s, k)' => Holds(s, k) /\ s # r
  BY <1>0 DEF Credit, Holds, Recorded, KeyOf
<1> HIDE DEF key
<1>5. \A k \in Keys : credits'[k] <= 1 /\ (credits'[k] > 0 => history'[k] # Null)
  BY <1>2, <1>3 DEF LedgerInv
<1>6. \A s \in Requests, k \in Keys :
        Holds(s, k)' => history'[k] # Null /\ credits'[k] = 0
  BY <1>1, <1>3, <1>4 DEF LedgerInv
<1>7. \A s, t \in Requests, k \in Keys : Holds(s, k)' /\ Holds(t, k)' => s = t
  BY <1>4 DEF LedgerInv
<1> QED
  BY <1>5, <1>6, <1>7 DEF LedgerInv

LEMMA LedgerStep == TypeInv /\ LedgerInv /\ [Next]_vars => LedgerInv'
<1> SUFFICES ASSUME TypeInv, LedgerInv, [Next]_vars PROVE LedgerInv'
  OBVIOUS
<1>1. ASSUME NEW r \in Requests, Arrive(r) \/ Proceed(r) \/ Fail(r)
      PROVE  LedgerInv'
  <2>1. CASE RecordHistory(r)
    BY <2>1, RecordKeepsLedger
  <2>2. CASE UpdateBalance(r)
    BY <2>2, CreditKeepsLedger DEF UpdateBalance
  <2>3. CASE CreateBalance(r)
    <3>1. CASE balance[req[r].addr] = Null
      BY <2>3, <3>1, CreditKeepsLedger DEF CreateBalance
    <3>2. CASE balance[req[r].addr] # Null
      <4>1. Idle.pc \notin Recorded
        BY DEF Idle, Recorded
      <4> QED
        BY <2>3, <3>2, <4>1, MoveKeepsLedger DEF CreateBalance
    <3> QED
      BY <3>1, <3>2
  <2> QED
    BY <1>1, <2>1, <2>2, <2>3, ReadingStepsKeepLedger DEF Proceed
<1>2. CASE UNCHANGED <<history, credits, req>>
  BY <1>2, LedgerUntouched DEF Holds
<1>3. ASSUME World PROVE UNCHANGED <<history, credits, req>>
  BY <1>3 DEF World, Midnight, LoadSeason, WriteSeason, DropSeason, SyncVaultPositions, DistributeReward,
              tables, calcVars
<1>4. ASSUME RefStep PROVE UNCHANGED history
  BY <1>4 DEF RefStep, RefStart, RefProceed, CreateReferral, ActivateReferral,
              CheckAndActivatePending, ExpireOutdatedBonuses, CheckExisting,
              CheckCount, CheckRefereeBalance, InsertReferral,
              FindPendingActivations, FindReferralById, CheckThreshold,
              WriteActivated, FindExpiringBonuses, WriteExpired, Abandon, SkipRow,
              Start, tables
<1> QED
  BY <1>1, <1>2, <1>3, <1>4 DEF Next, CalcStep, vars, tables, calcVars

LEMMA LedgerCorrect == Spec => [](TypeInv /\ LedgerInv)
BY InitType, TypeStep, LedgerInit, LedgerStep, PTL DEF Spec

\* However requests interleave and fail, a day of an address is credited to a
\* balance at most once.
THEOREM DailyCreditOnce == Spec => []CreditedOnce
<1>1. LedgerInv => CreditedOnce
  BY DEF LedgerInv, CreditedOnce
<1> QED
  BY LedgerCorrect, <1>1, PTL

\* No balance is written for a day without a row in shard_earning_history.
THEOREM DailyCreditRecorded == Spec => []CreditIsRecorded
<1>1. LedgerInv => CreditIsRecorded
  BY DEF LedgerInv, CreditIsRecorded
<1> QED
  BY LedgerCorrect, <1>1, PTL

-----------------------------------------------------------------------------
(* A completed season: executions that begin see its status and end, and the *)
(* ledgers stay what they are.                                               *)

Frozen ==
  /\ season = "completed" /\ writing \subseteq {"completed"}
  /\ \A r \in Requests : req[r].pc \in {"idle", "season"}

LEMMA FrozenStep ==
  ASSUME TypeInv, Frozen, [Next]_vars
  PROVE  Frozen' /\ UNCHANGED <<history, credits>>
<1>1. req \in [Requests -> Request]
  BY DEF TypeInv, TypeOK, CalcType
<1>2. SUFFICES /\ season' = "completed" /\ writing' \subseteq {"completed"}
               /\ UNCHANGED <<history, credits>>
               /\ \A r \in Requests : req'[r].pc \in {"idle", "season"}
  BY DEF Frozen
<1>3. ASSUME NEW r \in Requests, Arrive(r) \/ Proceed(r) \/ Fail(r)
      PROVE  /\ UNCHANGED <<season, writing, history, credits>>
             /\ \A s \in Requests : req'[s].pc \in {"idle", "season"}
  <2>1. req[r].pc \in {"idle", "season"} /\ season = "completed"
    BY DEF Frozen
  <2>2. Arrive(r) \/ CheckSeason(r) \/ Fail(r)
    BY <1>3, <2>1 DEF Proceed, FindExistingHistory, ReadVaultPositions, ReadContributions,
        ReadOwnReferral, ReadActiveReferrals, AddReferralBonus, RecordHistory, ReadBalance,
        UpdateBalance, CreateBalance, AddEarnedShards, Respond
  <2>3. UNCHANGED <<season, writing, history, credits>>
    BY <2>2 DEF Arrive, CheckSeason, Fail, tables
  <2>4. PICK q : req' = [req EXCEPT ![r] = q] /\ q.pc \in {"idle", "season"}
    <3>1. CASE Arrive(r)
      <4>1. PICK a : req' = [req EXCEPT ![r] = [Idle EXCEPT !.pc = "season", !.addr = a, !.day = day]]
        BY <3>1 DEF Arrive
      <4>2. [Idle EXCEPT !.pc = "season", !.addr = a, !.day = day].pc = "season"
        BY DEF Idle
      <4> QED BY <4>1, <4>2
    <3>2. CASE CheckSeason(r) \/ Fail(r)
      <4>1. req' = [req EXCEPT ![r] = Idle] /\ Idle.pc = "idle"
        BY <2>1, <3>2 DEF CheckSeason, Fail, Idle
      <4> QED BY <4>1
    <3> QED BY <2>2, <3>1, <3>2
  <2> QED BY <1>1, <2>3, <2>4 DEF Frozen
<1>4. ASSUME World
      PROVE  /\ season' = "completed" /\ writing' \subseteq {"completed"}
             /\ UNCHANGED <<history, credits, req>>
  <2>1. season = "completed" /\ writing \subseteq {"completed"}
    BY DEF Frozen
  <2>2. ASSUME NEW s \in SeasonStatus, LoadSeason(s)
        PROVE  /\ s = "completed" /\ writing' = writing \cup {s}
               /\ UNCHANGED <<season, history, credits, req>>
    BY <2>1, <2>2 DEF LoadSeason, calcVars
  <2>3. ASSUME NEW s \in SeasonStatus, WriteSeason(s) \/ DropSeason(s)
        PROVE  /\ s \in writing /\ writing' \subseteq writing /\ season' \in {season, s}
               /\ UNCHANGED <<history, credits, req>>
    BY <2>3 DEF WriteSeason, DropSeason, calcVars
  <2>4. CASE \E s \in SeasonStatus : LoadSeason(s) \/ WriteSeason(s) \/ DropSeason(s)
    BY <2>1, <2>2, <2>3, <2>4
  <2>5. CASE \/ Midnight
             \/ \E w \in Wallets : SyncVaultPositions(w) \/ DistributeReward(w)
    BY <2>1, <2>5 DEF Midnight, SyncVaultPositions, DistributeReward, tables, calcVars
  <2> QED BY <1>4, <2>4, <2>5 DEF World
<1>5. ASSUME RefStep, UNCHANGED calcVars
      PROVE  UNCHANGED <<season, writing, history, credits, req>>
  BY <1>5 DEF RefStep, RefStart, RefProceed, CreateReferral, ActivateReferral,
              CheckAndActivatePending, ExpireOutdatedBonuses, CheckExisting,
              CheckCount, CheckRefereeBalance, InsertReferral,
              FindPendingActivations, FindReferralById, CheckThreshold,
              WriteActivated, FindExpiringBonuses, WriteExpired, Abandon, SkipRow,
              Start, tables, calcVars
<1>6. CASE UNCHANGED <<season, writing, history, credits, req>>
  BY <1>6 DEF Frozen
<1>7. CASE UNCHANGED vars
  BY <1>6, <1>7 DEF vars, tables, calcVars
<1>8. CASE World
  BY <1>4, <1>8 DEF Frozen
<1> QED BY <1>3, <1>5, <1>6, <1>7, <1>8 DEF Next, CalcStep, Frozen

\* Once a season is completed, no update of it holds another status and no calculation is
\* under way, completion is final: whatever is called from then on, no day of it is recorded
\* or credited.  Before that, the write of an update that read "active" may undo it.
THEOREM CompletedSeasonFrozen == Spec => SeasonFrozen
<1>1. ASSUME NEW k \in Keys
      PROVE  Spec =>
               LET Over == /\ season = "completed" /\ writing \subseteq {"completed"}
                           /\ \A r \in Requests : req[r].pc = "idle"
               IN  /\ [](Over /\ history[k] = Null => [](history[k] = Null))
                   /\ [](Over /\ credits[k] = 0 => [](credits[k] = 0))
  <2> DEFINE Over == /\ season = "completed" /\ writing \subseteq {"completed"}
                     /\ \A r \in Requests : req[r].pc = "idle"
             H == history[k] = Null
             N == credits[k] = 0
  <2>1. Over => Frozen
    BY DEF Frozen
  <2>2. TypeInv /\ Frozen /\ H /\ [Next]_vars => Frozen' /\ H'
    BY FrozenStep
  <2>3. TypeInv /\ Frozen /\ N /\ [Next]_vars => Frozen' /\ N'
    BY FrozenStep
  <2>4. Spec => []TypeInv
    BY InitType, TypeStep, PTL DEF Spec
  <2> HIDE DEF Over, H, N
  <2>5. Spec => [](Over /\ H => []H)
    BY <2>1, <2>2, <2>4, PTL DEF Spec
  <2>6. Spec => [](Over /\ N => []N)
    BY <2>1, <2>3, <2>4, PTL DEF Spec
  <2> QED BY <2>5, <2>6 DEF Over, H, N
<1> QED BY <1>1 DEF SeasonFrozen

-----------------------------------------------------------------------------
(* Sums over the rows of a wallet *)

Rows == [Keys -> Shards \cup {Null}]
BalanceRows == [Address -> Shards \cup {Null}]

\* What a table of histories gives a wallet in a category, and how much of it counts as
\* credited; what its balances hold, and what those hold whose spelling is not lower case.
Earnings(h, w, c) == SumFunctionOnSet([k \in KeysOf(w) |-> Column(h[k], c)], KeysOf(w))
Counted(h, n, k, c) == IF n[k] > 0 THEN Column(h[k], c) ELSE 0
Credited(h, n, w, c) == SumFunctionOnSet([k \in KeysOf(w) |-> Counted(h, n, k, c)], KeysOf(w))
Held(b, w, c) == SumFunctionOnSet([a \in AddressesOf(w) |-> Column(b[a], c)], AddressesOf(w))
Others(w) == AddressesOf(w) \ {Spelled(w)}
HeldByOthers(b, w, c) == SumFunctionOnSet([a \in AddressesOf(w) |-> Column(b[a], c)], Others(w))

LEMMA AddressFinite == IsFiniteSet(Address) /\ IsFiniteSet(Keys)
<1> DEFINE f == [p \in Wallets \X Cases |-> [wallet |-> p[1], case |-> p[2]]]
<1>1. IsFiniteSet(Wallets \X Cases)
  BY AddressAssumption, FS_Product
<1>2. f \in Surjection(Wallets \X Cases, Address)
  <2>1. \A p \in Wallets \X Cases : f[p] \in Address
    BY DEF Address
  <2>2. ASSUME NEW a \in Address PROVE \E p \in Wallets \X Cases : f[p] = a
    <3>1. <<a.wallet, a.case>> \in Wallets \X Cases
      BY DEF Address
    <3>2. f[<<a.wallet, a.case>>] = a
      BY <3>1 DEF Address
    <3> QED BY <3>1, <3>2
  <2> QED BY <2>1, <2>2 DEF Surjection
<1>3. IsFiniteSet(Address)
  BY <1>1, <1>2, FS_Surjection
<1>4. IsFiniteSet(Days)
  BY DaysAssumption, FS_Interval DEF Days
<1> QED BY <1>3, <1>4, FS_Product DEF Keys

LEMMA RowsFinite ==
  ASSUME NEW w \in Wallets
  PROVE  /\ IsFiniteSet(KeysOf(w)) /\ KeysOf(w) \subseteq Keys
         /\ IsFiniteSet(AddressesOf(w)) /\ AddressesOf(w) \subseteq Address
         /\ IsFiniteSet(Others(w))
         /\ Spelled(w) \in AddressesOf(w)
<1>1. KeysOf(w) \in SUBSET Keys /\ AddressesOf(w) \in SUBSET Address
  BY DEF KeysOf, AddressesOf
<1>2. Others(w) \in SUBSET Address /\ Spelled(w) \in AddressesOf(w)
  BY <1>1, SpelledType DEF Others, AddressesOf, Spelled
<1> QED BY <1>1, <1>2, AddressFinite, FS_Subset

LEMMA CategoriesAre == Categories = {"staking", "developer", "referral"}
BY DEF Categories, NoShards

LEMMA ColumnType ==
  ASSUME NEW row \in Shards \cup {Null}, NEW c \in Categories
  PROVE  Column(row, c) \in Nat /\ (row # Null => Column(row, c) = row[c])
BY CategoriesAre DEF Column, Shards

LEMMA SumsType ==
  ASSUME NEW h \in Rows, NEW n \in [Keys -> Nat], NEW b \in BalanceRows, NEW w \in Wallets, NEW c \in Categories
  PROVE  /\ Earnings(h, w, c) \in Nat /\ Credited(h, n, w, c) \in Nat
         /\ Held(b, w, c) \in Nat /\ HeldByOthers(b, w, c) \in Nat
<1>1. /\ \A k \in KeysOf(w) : Column(h[k], c) \in Nat /\ Counted(h, n, k, c) \in Nat
      /\ \A a \in AddressesOf(w) : Column(b[a], c) \in Nat
  BY RowsFinite, ColumnType DEF Rows, BalanceRows, Counted
<1>2. Earnings(h, w, c) \in Nat
  BY <1>1, RowsFinite, SumNat DEF Earnings
<1>3. Credited(h, n, w, c) \in Nat
  BY <1>1, RowsFinite, SumNat DEF Credited
<1>4. Held(b, w, c) \in Nat
  BY <1>1, RowsFinite, SumNat DEF Held
<1>5. HeldByOthers(b, w, c) \in Nat
  <2> DEFINE f == [a \in AddressesOf(w) |-> Column(b[a], c)]
  <2>1. \A a \in Others(w) : f[a] \in Nat
    BY <1>1 DEF Others
  <2> HIDE DEF f
  <2>2. SumFunctionOnSet(f, Others(w)) \in Nat
    BY <2>1, RowsFinite, SumNat
  <2> QED BY <2>2 DEF f, HeldByOthers
<1> QED BY <1>2, <1>3, <1>4, <1>5

LEMMA TablesExist == (\E h : h \in Rows) /\ (\E n : n \in [Keys -> Nat]) /\ (\E b : b \in BalanceRows)
<1>1. [k \in Keys |-> Null] \in Rows /\ [k \in Keys |-> 0] \in [Keys -> Nat]
      /\ [a \in Address |-> Null] \in BalanceRows
  BY DEF Rows, BalanceRows
<1> QED BY <1>1

\* The row in lower case, and the others.
LEMMA HeldParts ==
  ASSUME NEW b \in BalanceRows, NEW w \in Wallets, NEW c \in Categories
  PROVE  Held(b, w, c) = Column(b[Spelled(w)], c) + HeldByOthers(b, w, c)
<1> DEFINE f == [a \in AddressesOf(w) |-> Column(b[a], c)]
<1>1. \A a \in AddressesOf(w) : f[a] \in Int
  BY RowsFinite, ColumnType DEF BalanceRows
<1>2. f[Spelled(w)] = Column(b[Spelled(w)], c)
  BY RowsFinite
<1> HIDE DEF f
<1>3. SumFunctionOnSet(f, AddressesOf(w)) = f[Spelled(w)] + SumFunctionOnSet(f, AddressesOf(w) \ {Spelled(w)})
  BY <1>1, RowsFinite, SumOfOneMore
<1> QED BY <1>2, <1>3 DEF f, Held, HeldByOthers, Others

\* Rows that are only added.
LEMMA EarningsGrow ==
  ASSUME NEW h \in Rows, NEW g \in Rows, \A k \in Keys : h[k] # Null => g[k] = h[k],
         NEW w \in Wallets, NEW c \in Categories
  PROVE  Earnings(h, w, c) <= Earnings(g, w, c)
<1> DEFINE f1 == [k \in KeysOf(w) |-> Column(h[k], c)]
           f2 == [k \in KeysOf(w) |-> Column(g[k], c)]
<1>1. \A k \in KeysOf(w) : f1[k] \in Int /\ f2[k] \in Int /\ f1[k] <= f2[k]
  <2>1. TAKE k \in KeysOf(w)
  <2>2. k \in Keys /\ h[k] \in Shards \cup {Null} /\ g[k] \in Shards \cup {Null}
    BY RowsFinite DEF Rows
  <2>3. Column(h[k], c) \in Nat /\ Column(g[k], c) \in Nat
    BY <2>2, ColumnType
  <2>4. h[k] = Null => Column(h[k], c) = 0
    BY DEF Column
  <2> QED BY <2>2, <2>3, <2>4
<1> HIDE DEF f1, f2
<1>2. SumFunctionOnSet(f1, KeysOf(w)) <= SumFunctionOnSet(f2, KeysOf(w))
  BY <1>1, RowsFinite, SumIncreases
<1> QED BY <1>2 DEF f1, f2, Earnings

\* A day that is recorded.
LEMMA EarningsRecord ==
  ASSUME NEW h \in Rows, NEW g \in Rows, NEW k \in Keys, h[k] = Null,
         \A i \in Keys : i # k => g[i] = h[i],
         NEW w \in Wallets, NEW c \in Categories, k[1].wallet = w
  PROVE  Earnings(g, w, c) = Earnings(h, w, c) + Column(g[k], c)
<1> DEFINE f1 == [i \in KeysOf(w) |-> Column(h[i], c)]
           f2 == [i \in KeysOf(w) |-> Column(g[i], c)]
<1>1. k \in KeysOf(w)
  BY DEF KeysOf
<1>2. \A i \in KeysOf(w) : f1[i] \in Int /\ f2[i] \in Int /\ (i # k => f1[i] = f2[i])
  BY RowsFinite, ColumnType DEF Rows
<1>3. f1[k] = 0 /\ f2[k] = Column(g[k], c)
  BY <1>1 DEF Column
<1> HIDE DEF f1, f2
<1>4. DifferAt(f1, f2, KeysOf(w), k)
  BY <1>2 DEF DifferAt
<1>5. SumFunctionOnSet(f2, KeysOf(w)) = SumFunctionOnSet(f1, KeysOf(w)) + f2[k] - f1[k]
  BY <1>1, <1>4, RowsFinite, SumOfChange
<1>6. SumFunctionOnSet(f1, KeysOf(w)) \in Int /\ f2[k] \in Int
  BY <1>1, <1>2, RowsFinite, SumType
<1>7. SumFunctionOnSet(f2, KeysOf(w)) = SumFunctionOnSet(f1, KeysOf(w)) + Column(g[k], c)
  BY <1>3, <1>5, <1>6
<1> QED BY <1>7 DEF f1, f2, Earnings

\* What counts as credited: no more than what is recorded, all of it once every row counts,
\* and nothing else while only rows that do not count are recorded.
LEMMA CreditedBounded ==
  ASSUME NEW h \in Rows, NEW n \in [Keys -> Nat], NEW w \in Wallets, NEW c \in Categories
  PROVE  /\ Credited(h, n, w, c) <= Earnings(h, w, c)
         /\ (\A k \in KeysOf(w) : h[k] # Null => n[k] > 0) => Credited(h, n, w, c) = Earnings(h, w, c)
<1> DEFINE f1 == [k \in KeysOf(w) |-> Counted(h, n, k, c)]
           f2 == [k \in KeysOf(w) |-> Column(h[k], c)]
<1>1. \A k \in KeysOf(w) : f1[k] \in Int /\ f2[k] \in Int /\ f1[k] <= f2[k]
  BY RowsFinite, ColumnType DEF Rows, Counted
<1>2. ASSUME \A k \in KeysOf(w) : h[k] # Null => n[k] > 0 PROVE \A k \in KeysOf(w) : f2[k] <= f1[k]
  BY <1>1, <1>2 DEF Counted, Column
<1> HIDE DEF f1, f2
<1>3. SumFunctionOnSet(f1, KeysOf(w)) <= SumFunctionOnSet(f2, KeysOf(w))
  BY <1>1, RowsFinite, SumIncreases
<1>4. ASSUME \A k \in KeysOf(w) : h[k] # Null => n[k] > 0
      PROVE  SumFunctionOnSet(f2, KeysOf(w)) <= SumFunctionOnSet(f1, KeysOf(w))
  BY <1>1, <1>2, <1>4, RowsFinite, SumIncreases
<1>5. SumFunctionOnSet(f1, KeysOf(w)) \in Int /\ SumFunctionOnSet(f2, KeysOf(w)) \in Int
  BY <1>1, RowsFinite, SumType
<1> QED BY <1>3, <1>4, <1>5 DEF f1, f2, Credited, Earnings

LEMMA CreditedUncounted ==
  ASSUME NEW h \in Rows, NEW g \in Rows, NEW n \in [Keys -> Nat], NEW k \in Keys, n[k] = 0,
         \A i \in Keys : i # k => g[i] = h[i], NEW w \in Wallets, NEW c \in Categories
  PROVE  Credited(g, n, w, c) = Credited(h, n, w, c)
<1>1. \A i \in KeysOf(w) : Counted(g, n, i, c) = Counted(h, n, i, c)
  BY RowsFinite DEF Counted
<1> QED BY <1>1 DEF Credited

LEMMA CreditedOnceMore ==
  ASSUME NEW h \in Rows, NEW n \in [Keys -> Nat], NEW m \in [Keys -> Nat], NEW k \in Keys,
         n[k] = 0, m[k] > 0, \A i \in Keys : i # k => m[i] = n[i],
         NEW w \in Wallets, NEW c \in Categories
  PROVE  Credited(h, m, w, c) = Credited(h, n, w, c) + (IF k[1].wallet = w THEN Column(h[k], c) ELSE 0)
<1> DEFINE f1 == [i \in KeysOf(w) |-> Counted(h, n, i, c)]
           f2 == [i \in KeysOf(w) |-> Counted(h, m, i, c)]
<1>1. \A i \in KeysOf(w) : f1[i] \in Int /\ f2[i] \in Int /\ (i # k => f1[i] = f2[i])
  BY RowsFinite, ColumnType DEF Rows, Counted
<1>2. CASE k[1].wallet = w
  <2>1. k \in KeysOf(w)
    BY <1>2 DEF KeysOf
  <2>2. f1[k] = 0 /\ f2[k] = Column(h[k], c)
    BY <2>1 DEF Counted
  <2> HIDE DEF f1, f2
  <2>3. DifferAt(f1, f2, KeysOf(w), k)
    BY <1>1 DEF DifferAt
  <2>4. SumFunctionOnSet(f2, KeysOf(w)) = SumFunctionOnSet(f1, KeysOf(w)) + f2[k] - f1[k]
    BY <2>1, <2>3, RowsFinite, SumOfChange
  <2>5. SumFunctionOnSet(f1, KeysOf(w)) \in Int /\ f2[k] \in Int
    BY <1>1, <2>1, RowsFinite, SumType
  <2>6. SumFunctionOnSet(f2, KeysOf(w)) = SumFunctionOnSet(f1, KeysOf(w)) + Column(h[k], c)
    BY <2>2, <2>4, <2>5
  <2> QED BY <1>2, <2>6 DEF f1, f2, Credited
<1>3. CASE k[1].wallet # w
  <2>1. \A i \in KeysOf(w) : f1[i] = f2[i]
    BY <1>1, <1>3 DEF KeysOf
  <2>2. f1 = f2
    BY <2>1
  <2>3. Credited(h, n, w, c) \in Int
    BY SumsType, TablesExist
  <2> QED BY <1>3, <2>2, <2>3 DEF Credited
<1> QED BY <1>2, <1>3

\* A balance that is written.
LEMMA HeldWritten ==
  ASSUME NEW b \in BalanceRows, NEW d \in BalanceRows, NEW a \in Address,
         \A x \in Address : x # a => d[x] = b[x], NEW w \in Wallets, NEW c \in Categories
  PROVE  /\ a.wallet # w => Held(d, w, c) = Held(b, w, c) /\ HeldByOthers(d, w, c) = HeldByOthers(b, w, c)
         /\ a = Spelled(w) => HeldByOthers(d, w, c) = HeldByOthers(b, w, c)
         /\ a.wallet = w => Held(d, w, c) = Held(b, w, c) + Column(d[a], c) - Column(b[a], c)
         /\ a.wallet = w /\ b[a] = Null => HeldByOthers(d, w, c) <= HeldByOthers(b, w, c) + Column(d[a], c)
<1> DEFINE f1 == [x \in AddressesOf(w) |-> Column(b[x], c)]
           f2 == [x \in AddressesOf(w) |-> Column(d[x], c)]
<1>1. \A x \in AddressesOf(w) : /\ f1[x] = Column(b[x], c) /\ f2[x] = Column(d[x], c)
                                /\ f1[x] \in Nat /\ f2[x] \in Nat /\ (x # a => f1[x] = f2[x])
  BY RowsFinite, ColumnType DEF BalanceRows
<1> HIDE DEF f1, f2
<1>2. /\ SumFunctionOnSet(f1, AddressesOf(w)) = Held(b, w, c) /\ SumFunctionOnSet(f2, AddressesOf(w)) = Held(d, w, c)
      /\ SumFunctionOnSet(f1, Others(w)) = HeldByOthers(b, w, c)
      /\ SumFunctionOnSet(f2, Others(w)) = HeldByOthers(d, w, c)
  BY DEF f1, f2, Held, HeldByOthers
<1>3. Others(w) \subseteq AddressesOf(w) /\ Spelled(w) \notin Others(w)
  BY DEF Others
<1>4. /\ Held(b, w, c) \in Nat /\ HeldByOthers(b, w, c) \in Nat
      /\ Held(d, w, c) \in Nat /\ HeldByOthers(d, w, c) \in Nat
  BY SumsType, TablesExist
<1>5. ASSUME NEW S \in SUBSET AddressesOf(w), IsFiniteSet(S), a \notin S
      PROVE  SumFunctionOnSet(f2, S) = SumFunctionOnSet(f1, S)
  <2>1. \A x \in S : f1[x] \in Int /\ f2[x] \in Int /\ f1[x] <= f2[x] /\ f2[x] <= f1[x]
    BY <1>1, <1>5
  <2>2. SumFunctionOnSet(f2, S) <= SumFunctionOnSet(f1, S) /\ SumFunctionOnSet(f1, S) <= SumFunctionOnSet(f2, S)
    BY <1>5, <2>1, SumIncreases
  <2>3. SumFunctionOnSet(f1, S) \in Int /\ SumFunctionOnSet(f2, S) \in Int
    BY <1>5, <2>1, SumType
  <2> QED BY <2>2, <2>3
<1>6. ASSUME NEW S \in SUBSET AddressesOf(w), IsFiniteSet(S), a \in S
      PROVE  SumFunctionOnSet(f2, S) = SumFunctionOnSet(f1, S) + f2[a] - f1[a]
  <2>1. DifferAt(f1, f2, S, a)
    BY <1>1, <1>6 DEF DifferAt
  <2> QED BY <1>6, <2>1, SumOfChange
<1>7. CASE a.wallet # w
  <2>1. a \notin AddressesOf(w)
    BY <1>7 DEF AddressesOf
  <2> QED BY <1>2, <1>3, <1>5, <1>7, <2>1, RowsFinite DEF Spelled
<1>8. CASE a.wallet = w
  <2>1. a \in AddressesOf(w)
    BY <1>8 DEF AddressesOf
  <2>2. Held(d, w, c) = Held(b, w, c) + Column(d[a], c) - Column(b[a], c)
    BY <1>1, <1>2, <1>6, <2>1, RowsFinite
  <2>3. a = Spelled(w) => HeldByOthers(d, w, c) = HeldByOthers(b, w, c)
    BY <1>2, <1>3, <1>5, RowsFinite
  <2>4. ASSUME b[a] = Null PROVE HeldByOthers(d, w, c) <= HeldByOthers(b, w, c) + Column(d[a], c)
    <3>1. Column(b[a], c) = 0 /\ Column(d[a], c) \in Nat
      BY <1>1, <2>1, <2>4 DEF Column
    <3>2. CASE a \in Others(w)
      <4>1. HeldByOthers(d, w, c) = HeldByOthers(b, w, c) + Column(d[a], c) - Column(b[a], c)
        BY <1>1, <1>2, <1>3, <1>6, <2>1, <3>2, RowsFinite
      <4> QED BY <1>4, <3>1, <4>1
    <3>3. CASE a \notin Others(w)
      <4>1. HeldByOthers(d, w, c) = HeldByOthers(b, w, c)
        BY <1>2, <1>3, <1>5, <3>3, RowsFinite
      <4> QED BY <1>4, <3>1, <4>1
    <3> QED BY <3>2, <3>3
  <2> QED BY <1>8, <2>2, <2>3, <2>4
<1> QED BY <1>7, <1>8

-----------------------------------------------------------------------------
(* Balances are backed by recorded days.  An execution that holds a balance it has *)
(* read may write it back later: what it would then write, together with the rows  *)
(* of other spellings, is no more than the days credited by now.                   *)

RecordedInv ==
  \A r \in Requests : req[r].pc \in Recorded => history[KeyOf(req[r])] = Earned(req[r])

BackedBy(b, h, n, w, c) == Held(b, w, c) <= Credited(h, n, w, c)
SeenBacked(q, b, h, n, w, c) ==
  q.pc = "credit" /\ q.seen # Null /\ q.addr.wallet = w =>
    q.seen[c] + HeldByOthers(b, w, c) <= Credited(h, n, w, c)

BackedInv ==
  \A w \in Wallets, c \in Categories :
    /\ BackedBy(balance, history, credits, w, c)
    /\ \A r \in Requests : SeenBacked(req[r], balance, history, credits, w, c)

LEMMA LedgerTypes ==
  ASSUME TypeInv
  PROVE  /\ req \in [Requests -> Request] /\ history \in Rows /\ balance \in BalanceRows
         /\ credits \in [Keys -> Nat]
         /\ \A r \in Requests : /\ req[r] \in Request /\ Earned(req[r]) \in Shards
                                /\ req[r].pc # "idle" => /\ KeyOf(req[r]) \in Keys
                                                         /\ KeyOf(req[r])[1].wallet = req[r].addr.wallet
                                                         /\ req[r].addr \in Address
<1>1. /\ req \in [Requests -> Request] /\ history \in Rows /\ balance \in BalanceRows
      /\ credits \in [Keys -> Nat]
  BY DEF TypeInv, TypeOK, CalcType, TablesType, Rows, BalanceRows
<1>2. ASSUME NEW r \in Requests
      PROVE  /\ req[r] \in Request /\ Earned(req[r]) \in Shards
             /\ req[r].pc # "idle" => /\ KeyOf(req[r]) \in Keys
                                      /\ KeyOf(req[r])[1].wallet = req[r].addr.wallet
                                      /\ req[r].addr \in Address
  <2>1. req[r] \in Request /\ InFlight(req[r])
    BY <1>1 DEF TypeInv
  <2>2. Earned(req[r]) \in Shards
    BY <2>1, EarnedType
  <2>3. req[r].pc # "idle" => req[r].addr \in Address /\ KeyOf(req[r]) \in Keys
    BY <2>1 DEF InFlight, KeyOf, Keys
  <2>4. KeyOf(req[r])[1].wallet = req[r].addr.wallet
    BY DEF KeyOf
  <2> QED BY <2>1, <2>2, <2>3, <2>4
<1> QED BY <1>1, <1>2

LEMMA BackedInit == Init => RecordedInv /\ BackedInv
<1>1. SUFFICES ASSUME Init PROVE RecordedInv /\ BackedInv
  OBVIOUS
<1>2. \A r \in Requests : req[r].pc = "idle"
  BY <1>1 DEF Init, CalcInit, Idle
<1>3. ASSUME NEW w \in Wallets, NEW c \in Categories
      PROVE  BackedBy(balance, history, credits, w, c)
  <2> DEFINE f == [a \in AddressesOf(w) |-> Column(balance[a], c)]
  <2>1. \A a \in AddressesOf(w) : f[a] = 0
    BY <1>1, RowsFinite DEF Init, TablesInit, Column
  <2> HIDE DEF f
  <2>2. SumFunctionOnSet(f, AddressesOf(w)) = 0
    BY <2>1, RowsFinite, SumOfNothing
  <2>3. TypeInv
    BY <1>1, InitType
  <2>4. Credited(history, credits, w, c) \in Nat
    BY <2>3, LedgerTypes, SumsType
  <2> QED BY <2>2, <2>4 DEF f, Held, BackedBy
<1> QED BY <1>2, <1>3 DEF RecordedInv, BackedInv, SeenBacked, Recorded

\* A step that leaves the ledgers alone and only moves one request.
LEMMA MoveKeepsBacked ==
  ASSUME TypeInv, RecordedInv, BackedInv, NEW r \in Requests, NEW q, req' = [req EXCEPT ![r] = q],
         UNCHANGED <<history, balance, credits>>,
         q.pc \in Recorded => /\ req[r].pc \in Recorded
                              /\ KeyOf(q) = KeyOf(req[r]) /\ Earned(q) = Earned(req[r]),
         \A w \in Wallets, c \in Categories : SeenBacked(q, balance, history, credits, w, c)
  PROVE  RecordedInv' /\ BackedInv'
<1>1. \A s \in Requests : req'[s] = IF s = r THEN q ELSE req[s]
  BY LedgerTypes
<1>2. RecordedInv'
  BY <1>1 DEF RecordedInv
<1>3. \A w \in Wallets, c \in Categories :
        /\ BackedBy(balance', history', credits', w, c)
        /\ \A s \in Requests : SeenBacked(req'[s], balance', history', credits', w, c)
  BY <1>1 DEF BackedInv
<1> QED BY <1>2, <1>3 DEF BackedInv

LEMMA ReadBalanceKeepsBacked ==
  ASSUME TypeInv, RecordedInv, BackedInv, NEW r \in Requests, ReadBalance(r)
  PROVE  RecordedInv' /\ BackedInv'
<1>1. /\ req \in [Requests -> Request] /\ req[r] \in Request /\ req[r].pc = "balance"
      /\ req[r].addr \in Address
      /\ history \in Rows /\ balance \in BalanceRows /\ credits \in [Keys -> Nat]
  BY LedgerTypes DEF ReadBalance
<1>2. PICK q : /\ q = [req[r] EXCEPT !.pc = "credit", !.seen = FindBalance(req[r].addr)]
               /\ req' = [req EXCEPT ![r] = q]
  BY <1>1 DEF ReadBalance
<1>3. /\ q.pc = "credit" /\ q.addr = req[r].addr /\ q.day = req[r].day /\ q.seen = FindBalance(req[r].addr)
      /\ q.staking = req[r].staking /\ q.developer = req[r].developer
      /\ q.bonus = req[r].bonus /\ q.boosted = req[r].boosted
  BY <1>1, <1>2 DEF Request
<1>4. ASSUME NEW w \in Wallets, NEW c \in Categories PROVE SeenBacked(q, balance, history, credits, w, c)
  <2>1. SUFFICES ASSUME q.seen # Null, q.addr.wallet = w
                 PROVE  q.seen[c] + HeldByOthers(balance, w, c) <= Credited(history, credits, w, c)
    BY DEF SeenBacked
  <2>2. q.seen = balance[Spelled(w)]
    BY <1>3, <2>1 DEF FindBalance, LowerCase
  <2>3. q.seen[c] = Column(balance[Spelled(w)], c)
    BY <2>1, <2>2 DEF Column
  <2>4. BackedBy(balance, history, credits, w, c)
    BY DEF BackedInv
  <2> QED BY <1>1, <2>3, <2>4, HeldParts DEF BackedBy
<1>5. KeyOf(q) = KeyOf(req[r]) /\ Earned(q) = Earned(req[r])
  BY <1>3 DEF KeyOf, Earned
<1>6. UNCHANGED <<history, balance, credits>> /\ req[r].pc \in Recorded
  BY <1>1 DEF ReadBalance, tables, Recorded
<1> QED BY <1>2, <1>4, <1>5, <1>6, MoveKeepsBacked

LEMMA RecordKeepsBacked ==
  ASSUME TypeInv, TypeInv', LedgerInv, RecordedInv, BackedInv, NEW r \in Requests, RecordHistory(r)
  PROVE  RecordedInv' /\ BackedInv'
<1>1. /\ req \in [Requests -> Request] /\ req[r] \in Request
      /\ history \in Rows /\ history' \in Rows /\ balance \in BalanceRows /\ credits \in [Keys -> Nat]
      /\ req[r].pc = "bonuses" /\ KeyOf(req[r]) \in Keys
  BY LedgerTypes DEF RecordHistory, TypeInv, TypeOK, TablesType, Rows
<1>2. PICK key \in Keys : key = KeyOf(req[r])
  BY <1>1
<1>3. CASE history[key] = Null
  <2>1. PICK q : /\ q = [req[r] EXCEPT !.pc = "balance", !.result = Earned(req[r])]
                 /\ req' = [req EXCEPT ![r] = q]
    BY <1>1, <1>2, <1>3 DEF RecordHistory
  <2>2. /\ history' = [history EXCEPT ![key] = Earned(req[r])] /\ UNCHANGED <<balance, credits>>
    BY <1>2, <1>3 DEF RecordHistory
  <2>3. /\ q.pc = "balance" /\ q.addr = req[r].addr /\ q.day = req[r].day
        /\ q.staking = req[r].staking /\ q.developer = req[r].developer
        /\ q.bonus = req[r].bonus /\ q.boosted = req[r].boosted
    BY <1>1, <2>1 DEF Request
  <2>4. KeyOf(q) = key /\ Earned(q) = Earned(req[r])
    BY <1>2, <2>3 DEF KeyOf, Earned
  <2>5. \A s \in Requests : req'[s] = IF s = r THEN q ELSE req[s]
    BY <1>1, <2>1
  <2>6. \A k \in Keys : history'[k] = IF k = key THEN Earned(req[r]) ELSE history[k]
    BY <1>1, <2>2 DEF Rows
  <2>7. credits[key] = 0 /\ \A s \in Requests : ~ Holds(s, key)
    BY <1>1, <1>3 DEF LedgerInv
  <2>8. RecordedInv'
    <3>1. ASSUME NEW s \in Requests, req'[s].pc \in Recorded
          PROVE  history'[KeyOf(req'[s])] = Earned(req'[s])
      <4>1. CASE s = r
        BY <2>4, <2>5, <2>6, <4>1
      <4>2. CASE s # r
        <5>1. req'[s] = req[s] /\ KeyOf(req[s]) \in Keys
          BY <2>5, <3>1, <4>2, LedgerTypes DEF Recorded
        <5>2. KeyOf(req[s]) # key
          BY <2>7, <3>1, <5>1 DEF Holds
        <5> QED BY <2>6, <3>1, <5>1, <5>2 DEF RecordedInv
      <4> QED BY <4>1, <4>2
    <3> QED BY <3>1 DEF RecordedInv
  <2>9. ASSUME NEW w \in Wallets, NEW c \in Categories
        PROVE  /\ BackedBy(balance', history', credits', w, c)
               /\ \A s \in Requests : SeenBacked(req'[s], balance', history', credits', w, c)
    <3>1. Credited(history', credits, w, c) = Credited(history, credits, w, c)
      BY <1>1, <2>6, <2>7, CreditedUncounted
    <3>2. BackedBy(balance, history, credits, w, c) /\ \A s \in Requests : SeenBacked(req[s], balance, history, credits, w, c)
      BY DEF BackedInv
    <3> QED BY <2>2, <2>3, <2>5, <3>1, <3>2 DEF BackedBy, SeenBacked
  <2> QED BY <2>8, <2>9 DEF BackedInv
<1>4. CASE history[key] # Null
  <2>1. req' = [req EXCEPT ![r] = Idle] /\ UNCHANGED <<history, balance, credits>>
    BY <1>2, <1>4 DEF RecordHistory
  <2>2. Idle.pc = "idle"
    BY DEF Idle
  <2> QED BY <2>1, <2>2, MoveKeepsBacked DEF Recorded, SeenBacked
<1> QED BY <1>3, <1>4

\* A balance is written: over the one seen, or where there was none.
LEMMA CreditKeepsBacked ==
  ASSUME TypeInv, TypeInv', LedgerInv, RecordedInv, BackedInv, NEW r \in Requests,
         NEW a \in Address, NEW row \in Shards,
         req[r].pc = "credit", Credit(r, a, row), UNCHANGED history, a.wallet = req[r].addr.wallet,
         \/ a = Spelled(a.wallet) /\ req[r].seen # Null /\ row = AddShards(req[r].seen, Earned(req[r]))
         \/ balance[a] = Null /\ row = Earned(req[r])
  PROVE  RecordedInv' /\ BackedInv'
<1>1. /\ req \in [Requests -> Request] /\ req[r] \in Request
      /\ history \in Rows /\ balance \in BalanceRows /\ credits \in [Keys -> Nat]
      /\ KeyOf(req[r]) \in Keys /\ KeyOf(req[r])[1].wallet = a.wallet
  BY LedgerTypes
<1>2. PICK key \in Keys, earned \in Shards : key = KeyOf(req[r]) /\ earned = Earned(req[r])
  BY <1>1, LedgerTypes
<1>3. balance' \in BalanceRows /\ credits' \in [Keys -> Nat]
  BY DEF TypeInv, TypeOK, TablesType, CalcType, BalanceRows
<1>4. history[key] = earned /\ credits[key] = 0
  BY <1>1, <1>2 DEF RecordedInv, LedgerInv, Holds, Recorded
<1>5. /\ \A x \in Address : balance'[x] = IF x = a THEN row ELSE balance[x]
      /\ \A k \in Keys : credits'[k] = IF k = key THEN 1 ELSE credits[k]
  BY <1>1, <1>2, <1>4 DEF Credit, BalanceRows
<1>6. PICK q : /\ q = [req[r] EXCEPT !.pc = IF req[r].own # Null /\ req[r].bonus > 0 THEN "earn" ELSE "respond"]
               /\ req' = [req EXCEPT ![r] = q]
  BY <1>1 DEF Credit
<1>7. q.pc \in {"earn", "respond"}
  BY <1>1, <1>6 DEF Request
<1>8. \A s \in Requests : req'[s] = IF s = r THEN q ELSE req[s]
  BY <1>1, <1>6
<1>9. RecordedInv'
  BY <1>7, <1>8 DEF RecordedInv, Recorded
<1>10. ASSUME NEW w \in Wallets, NEW c \in Categories
       PROVE  /\ BackedBy(balance', history', credits', w, c)
              /\ \A s \in Requests : SeenBacked(req'[s], balance', history', credits', w, c)
  <2>1. PICK held, others, credited, held2, others2, credited2 \in Nat :
          /\ held = Held(balance, w, c) /\ others = HeldByOthers(balance, w, c)
          /\ held2 = Held(balance', w, c) /\ others2 = HeldByOthers(balance', w, c)
          /\ credited = Credited(history, credits, w, c) /\ credited2 = Credited(history', credits', w, c)
    BY <1>1, <1>3, SumsType
  <2>2. /\ held <= credited
        /\ \A s \in Requests : req[s].pc = "credit" /\ req[s].seen # Null /\ req[s].addr.wallet = w =>
             req[s].seen[c] + others <= credited
    BY <2>1 DEF BackedInv, BackedBy, SeenBacked
  <2>3. credited2 = credited + (IF a.wallet = w THEN Column(earned, c) ELSE 0)
    <3>1. Credited(history, credits', w, c) =
            Credited(history, credits, w, c) + (IF key[1].wallet = w THEN Column(history[key], c) ELSE 0)
      BY <1>1, <1>3, <1>4, <1>5, CreditedOnceMore
    <3> QED BY <1>1, <1>2, <1>4, <2>1, <3>1
  <2>4. Column(earned, c) = earned[c] /\ earned[c] \in Nat /\ Column(row, c) = row[c] /\ row[c] \in Nat
    BY ColumnType, NullIsNoRow
  <2>5. /\ a.wallet # w => held2 = held /\ others2 = others
        /\ a = Spelled(w) => others2 = others
        /\ a.wallet = w => held2 = held + Column(row, c) - Column(balance[a], c)
        /\ a.wallet = w /\ balance[a] = Null => others2 <= others + Column(row, c)
    <3>1. balance'[a] = row /\ \A x \in Address : x # a => balance'[x] = balance[x]
      BY <1>5
    <3> QED BY <1>1, <1>3, <2>1, <3>1, HeldWritten
  <2>6. held2 = Column(balance'[Spelled(w)], c) + others2
    BY <1>3, <2>1, HeldParts
  <2>7. held2 <= credited2 /\ others2 <= others + (credited2 - credited)
    <3>1. CASE a.wallet # w
      BY <2>2, <2>3, <2>5, <3>1
    <3>2. CASE a.wallet = w /\ a = Spelled(w) /\ req[r].seen # Null /\ row = AddShards(req[r].seen, earned)
      <4>1. balance'[Spelled(w)] = row
        BY <1>5, <3>2
      <4>2. req[r].seen \in Shards
        BY <1>1, <3>2 DEF Request
      <4>3. row[c] = req[r].seen[c] + earned[c] /\ req[r].seen[c] \in Nat
        BY <3>2, <4>2, CategoriesAre DEF AddShards, Shards
      <4>4. req[r].seen[c] + others <= credited
        BY <2>2, <3>2
      <4> QED BY <2>3, <2>4, <2>5, <2>6, <3>2, <4>1, <4>3, <4>4
    <3>3. CASE a.wallet = w /\ balance[a] = Null /\ row = earned
      <4>1. Column(balance[a], c) = 0
        BY <3>3 DEF Column
      <4> QED BY <2>2, <2>3, <2>4, <2>5, <3>3, <4>1
    <3> QED BY <1>2, <3>1, <3>2, <3>3
  <2>8. ASSUME NEW s \in Requests, req'[s].pc = "credit", req'[s].seen # Null, req'[s].addr.wallet = w
        PROVE  req'[s].seen[c] + others2 <= credited2
    <3>1. s # r /\ req'[s] = req[s]
      BY <1>7, <1>8, <2>8
    <3>2. req[s].seen \in Shards
      BY <1>1, <2>8, <3>1 DEF Request
    <3>3. req[s].seen[c] \in Nat
      BY <3>2, CategoriesAre DEF Shards
    <3>4. req[s].seen[c] + others <= credited
      BY <2>2, <2>8, <3>1
    <3> QED BY <2>7, <3>1, <3>3, <3>4
  <2> QED BY <2>1, <2>7, <2>8 DEF BackedBy, SeenBacked
<1> QED BY <1>9, <1>10 DEF BackedInv

\* A step of a request that neither records nor credits a day leaves it without one, or
\* between its reading of the balance and its writing.
LEMMA PlainSteps ==
  ASSUME TypeInv, NEW r \in Requests,
         \/ Arrive(r) \/ CheckSeason(r) \/ FindExistingHistory(r)
         \/ ReadVaultPositions(r) \/ ReadContributions(r) \/ ReadOwnReferral(r)
         \/ ReadActiveReferrals(r) \/ AddReferralBonus(r)
         \/ AddEarnedShards(r) \/ Respond(r) \/ Fail(r)
  PROVE  /\ UNCHANGED <<history, balance, credits>>
         /\ \E q : req' = [req EXCEPT ![r] = q] /\ q.pc \notin Recorded
         /\ Fail(r) \/ req[r].pc \notin Recorded
<1>0. req \in [Requests -> Request] /\ req[r] \in Request
  BY DEF TypeInv, TypeOK, CalcType
<1>1. UNCHANGED <<history, balance, credits>>
  BY DEF Arrive, CheckSeason, FindExistingHistory, ReadVaultPositions,
         ReadContributions, ReadOwnReferral, ReadActiveReferrals,
         AddReferralBonus, AddEarnedShards, Respond, Fail, tables
<1>2. Idle.pc \notin Recorded
  BY DEF Idle, Recorded
<1>3. Fail(r) \/ req[r].pc \notin Recorded
  BY DEF Arrive, CheckSeason, FindExistingHistory, ReadVaultPositions,
         ReadContributions, ReadOwnReferral, ReadActiveReferrals,
         AddReferralBonus, AddEarnedShards, Respond, Recorded
<1>4. req' = [req EXCEPT ![r] = req'[r]] /\ req'[r].pc \notin Recorded
  <2>1. CASE Arrive(r)
    BY <1>0, <2>1 DEF Arrive, Idle, Recorded
  <2>2. CASE CheckSeason(r)
    BY <1>0, <1>2, <2>2 DEF CheckSeason, Recorded, Request
  <2>3. CASE FindExistingHistory(r)
    BY <1>0, <2>3 DEF FindExistingHistory, Recorded, Request
  <2>4. CASE ReadVaultPositions(r)
    BY <1>0, <2>4 DEF ReadVaultPositions, Recorded, Request
  <2>5. CASE ReadContributions(r)
    BY <1>0, <2>5 DEF ReadContributions, Recorded, Request
  <2>6. CASE ReadOwnReferral(r)
    <3>1. PICK ref, b : req' = [req EXCEPT ![r].pc = "activeReferrals", ![r].own = ref, ![r].boosted = b]
      BY <2>6 DEF ReadOwnReferral
    <3>2. req'[r].pc = "activeReferrals"
      BY <1>0, <3>1 DEF Request
    <3> QED BY <1>0, <3>1, <3>2 DEF Recorded
  <2>7. CASE ReadActiveReferrals(r)
    BY <1>0, <2>7 DEF ReadActiveReferrals, Recorded, Request
  <2>8. CASE AddReferralBonus(r)
    BY <1>0, <2>8 DEF AddReferralBonus, Recorded, Request
  <2>9. CASE AddEarnedShards(r)
    BY <1>0, <2>9 DEF AddEarnedShards, Recorded, Request
  <2>10. CASE Respond(r) \/ Fail(r)
    BY <1>0, <1>2, <2>10 DEF Respond, Fail
  <2> QED BY <2>1, <2>2, <2>3, <2>4, <2>5, <2>6, <2>7, <2>8, <2>9, <2>10
<1> QED BY <1>1, <1>3, <1>4

\* The others write no ledger.
LEMMA OtherSteps ==
  ASSUME World \/ (RefStep /\ UNCHANGED calcVars) \/ UNCHANGED vars
  PROVE  UNCHANGED <<history, balance, credits, req>>
BY DEF World, Midnight, LoadSeason, WriteSeason, DropSeason, SyncVaultPositions, DistributeReward,
       RefStep, RefStart, RefProceed, CreateReferral, ActivateReferral,
       CheckAndActivatePending, ExpireOutdatedBonuses, CheckExisting,
       CheckCount, CheckRefereeBalance, InsertReferral,
       FindPendingActivations, FindReferralById, CheckThreshold,
       WriteActivated, FindExpiringBonuses, WriteExpired, Abandon, SkipRow,
       Start, vars, tables, calcVars

LEMMA UpdateWrites ==
  ASSUME TypeInv, NEW r \in Requests, UpdateBalance(r)
  PROVE  \E a \in Address, row \in Shards :
           /\ req[r].pc = "credit" /\ Credit(r, a, row) /\ UNCHANGED history
           /\ a.wallet = req[r].addr.wallet /\ a = Spelled(a.wallet)
           /\ req[r].seen # Null /\ row = AddShards(req[r].seen, Earned(req[r]))
<1>1. req[r].addr \in Address /\ req[r] \in Request /\ Earned(req[r]) \in Shards
  BY LedgerTypes DEF UpdateBalance
<1>2. PICK a, row : a = LowerCase(req[r].addr) /\ row = AddShards(req[r].seen, Earned(req[r]))
  OBVIOUS
<1>3. /\ req[r].pc = "credit" /\ req[r].seen # Null /\ Credit(r, a, row) /\ UNCHANGED history
  BY <1>2 DEF UpdateBalance
<1>4. a \in Address /\ a.wallet = req[r].addr.wallet /\ a = Spelled(a.wallet)
  BY <1>1, <1>2, LowerCaseType DEF LowerCase, Spelled
<1>5. row \in Shards
  BY <1>1, <1>2, <1>3, AddShardsType DEF Request
<1> QED BY <1>2, <1>3, <1>4, <1>5

LEMMA CreateWrites ==
  ASSUME TypeInv, NEW r \in Requests, CreateBalance(r), balance[req[r].addr] = Null
  PROVE  \E a \in Address, row \in Shards :
           /\ req[r].pc = "credit" /\ Credit(r, a, row) /\ UNCHANGED history
           /\ a = req[r].addr /\ req[r].seen = Null /\ balance[a] = Null /\ row = Earned(req[r])
<1>1. req[r].addr \in Address /\ Earned(req[r]) \in Shards
  BY LedgerTypes DEF CreateBalance
<1>2. PICK a, row : a = req[r].addr /\ row = Earned(req[r])
  OBVIOUS
<1>3. req[r].pc = "credit" /\ Credit(r, a, row) /\ UNCHANGED history /\ req[r].seen = Null
  BY <1>2 DEF CreateBalance
<1> QED BY <1>1, <1>2, <1>3

LEMMA BackedStep ==
  ASSUME TypeInv, TypeInv', LedgerInv, RecordedInv, BackedInv, [Next]_vars
  PROVE  RecordedInv' /\ BackedInv'
<1>1. ASSUME NEW r \in Requests, Arrive(r) \/ Proceed(r) \/ Fail(r)
      PROVE  RecordedInv' /\ BackedInv'
  <2>1. CASE RecordHistory(r)
    BY <2>1, RecordKeepsBacked
  <2>2. CASE ReadBalance(r)
    BY <2>2, ReadBalanceKeepsBacked
  <2>3. CASE UpdateBalance(r)
    BY <2>3, UpdateWrites, CreditKeepsBacked
  <2>4. CASE CreateBalance(r) /\ balance[req[r].addr] = Null
    BY <2>4, CreateWrites, CreditKeepsBacked
  <2>5. CASE CreateBalance(r) /\ balance[req[r].addr] # Null
    <3>1. req' = [req EXCEPT ![r] = Idle] /\ UNCHANGED <<history, balance, credits>>
      BY <2>5 DEF CreateBalance
    <3>2. Idle.pc = "idle"
      BY DEF Idle
    <3> QED BY <3>1, <3>2, MoveKeepsBacked DEF Recorded, SeenBacked
  <2>6. CASE ~ (RecordHistory(r) \/ ReadBalance(r) \/ UpdateBalance(r) \/ CreateBalance(r))
    <3>1. PICK q : /\ req' = [req EXCEPT ![r] = q] /\ q.pc \notin Recorded
                   /\ UNCHANGED <<history, balance, credits>>
      BY <1>1, <2>6, PlainSteps DEF Proceed
    <3> QED BY <3>1, MoveKeepsBacked DEF Recorded, SeenBacked
  <2> QED BY <2>1, <2>2, <2>3, <2>4, <2>5, <2>6
<1>2. CASE UNCHANGED <<history, balance, credits, req>>
  BY <1>2 DEF RecordedInv, BackedInv, BackedBy, SeenBacked, KeyOf, Earned, Multiplied
<1>3. CASE CalcStep
  BY <1>1, <1>3 DEF CalcStep
<1>4. CASE World \/ (RefStep /\ UNCHANGED calcVars) \/ UNCHANGED vars
  <2>1. UNCHANGED <<history, balance, credits, req>>
    BY <1>4, OtherSteps
  <2> QED BY <1>2, <2>1
<1> QED BY <1>3, <1>4 DEF Next

LEMMA BackedAlways == Spec => [](TypeInv /\ LedgerInv /\ RecordedInv /\ BackedInv)
<1>1. Init => TypeInv /\ LedgerInv /\ RecordedInv /\ BackedInv
  BY InitType, LedgerInit, BackedInit
<1>2. TypeInv /\ LedgerInv /\ RecordedInv /\ BackedInv /\ [Next]_vars
        => (TypeInv /\ LedgerInv /\ RecordedInv /\ BackedInv)'
  BY TypeStep, LedgerStep, BackedStep
<1> QED BY <1>1, <1>2, PTL DEF Spec

LEMMA SumsMeant ==
  /\ \A w \in Wallets, c \in Categories :
       EarnedBy(w, c) = Earnings(history, w, c) /\ BalanceOf(w, c) = Held(balance, w, c)
BY DEF EarnedBy, Earnings, BalanceOf, Held

LEMMA HeldEarned ==
  ASSUME TypeInv, BackedInv, NEW w \in Wallets, NEW c \in Categories
  PROVE  Held(balance, w, c) <= Earnings(history, w, c)
<1>1. history \in Rows /\ balance \in BalanceRows /\ credits \in [Keys -> Nat]
  BY LedgerTypes
<1>2. /\ Held(balance, w, c) \in Nat /\ Credited(history, credits, w, c) \in Nat
      /\ Earnings(history, w, c) \in Nat
  BY <1>1, SumsType
<1>3. Held(balance, w, c) <= Credited(history, credits, w, c)
  BY DEF BackedInv, BackedBy
<1>4. Credited(history, credits, w, c) <= Earnings(history, w, c)
  BY <1>1, CreditedBounded
<1> QED BY <1>2, <1>3, <1>4

\* However many calculations overlap, repeat, fail and overwrite each other's balances,
\* and however addresses are spelled, the balances of a wallet hold no more than its days
\* earned.
THEOREM BalancesBacked == Spec => []BalanceBacked
<1>1. TypeInv /\ BackedInv => BalanceBacked
  BY HeldEarned, SumsMeant DEF BalanceBacked
<1> QED BY <1>1, BackedAlways, PTL

-----------------------------------------------------------------------------
(* One calculation at a time, of addresses in lower case, that does not fail, beside any  *)
(* number of referral operations that may: nothing is lost either.                        *)

OneAtATime ==
  /\ Cases = {"lower"} /\ Requests \cap Failing = {}
  /\ \A r, s \in Requests : r = s

Counting(b, h, n, w, c) == Held(b, w, c) = Credited(h, n, w, c)

CreditedInv ==
  /\ \A w \in Wallets, c \in Categories : Counting(balance, history, credits, w, c)
  /\ \A k \in Keys : history[k] # Null /\ credits[k] = 0 => \E r \in Requests : Holds(r, k)
  /\ \A r \in Requests : req[r].pc = "credit" => req[r].seen = balance[req[r].addr]

LEMMA LowerCaseOnly ==
  ASSUME OneAtATime, NEW a \in Address
  PROVE  a = Spelled(a.wallet) /\ LowerCase(a) = a
BY DEF OneAtATime, Address, Spelled, LowerCase

LEMMA CreditedInit == Init => CreditedInv
<1>1. SUFFICES ASSUME Init PROVE CreditedInv
  OBVIOUS
<1>2. TypeInv
  BY <1>1, InitType
<1>3. ASSUME NEW w \in Wallets, NEW c \in Categories
      PROVE  Counting(balance, history, credits, w, c)
  <2> DEFINE f == [a \in AddressesOf(w) |-> Column(balance[a], c)]
             g == [k \in KeysOf(w) |-> Counted(history, credits, k, c)]
  <2>1. \A a \in AddressesOf(w) : f[a] = 0
    BY <1>1, RowsFinite DEF Init, TablesInit, Column
  <2>2. \A k \in KeysOf(w) : g[k] = 0
    BY <1>1, RowsFinite DEF Init, CalcInit, Counted
  <2> HIDE DEF f, g
  <2>3. SumFunctionOnSet(f, AddressesOf(w)) = 0 /\ SumFunctionOnSet(g, KeysOf(w)) = 0
    BY <2>1, <2>2, RowsFinite, SumOfNothing
  <2> QED BY <2>3 DEF f, g, Held, Credited, Counting
<1>4. /\ \A k \in Keys : history[k] = Null
      /\ \A r \in Requests : req[r].pc = "idle"
  BY <1>1 DEF Init, TablesInit, CalcInit, Idle
<1> QED BY <1>3, <1>4 DEF CreditedInv

\* A step that only moves a request, and no request that holds a day away from it.
LEMMA MoveKeepsCredited ==
  ASSUME TypeInv, CreditedInv, NEW r \in Requests, NEW q, req' = [req EXCEPT ![r] = q],
         UNCHANGED <<history, balance, credits>>,
         req[r].pc \in Recorded => q.pc \in Recorded /\ KeyOf(q) = KeyOf(req[r]),
         q.pc = "credit" => q.seen = balance[q.addr]
  PROVE  CreditedInv'
<1>1. \A s \in Requests : req'[s] = IF s = r THEN q ELSE req[s]
  BY LedgerTypes
<1>2. \A s \in Requests, k \in Keys : Holds(s, k) => Holds(s, k)'
  BY <1>1 DEF Holds, KeyOf
<1>3. \A w \in Wallets, c \in Categories : Counting(balance', history', credits', w, c)
  BY DEF CreditedInv
<1>4. \A k \in Keys : history'[k] # Null /\ credits'[k] = 0 => \E s \in Requests : Holds(s, k)'
  BY <1>2 DEF CreditedInv
<1>5. \A s \in Requests : req'[s].pc = "credit" => req'[s].seen = balance'[req'[s].addr]
  BY <1>1 DEF CreditedInv
<1> QED BY <1>3, <1>4, <1>5 DEF CreditedInv

LEMMA RecordKeepsCredited ==
  ASSUME TypeInv, TypeInv', LedgerInv, CreditedInv, NEW r \in Requests, RecordHistory(r)
  PROVE  CreditedInv'
<1>1. /\ req \in [Requests -> Request] /\ req[r] \in Request
      /\ history \in Rows /\ history' \in Rows /\ balance \in BalanceRows /\ credits \in [Keys -> Nat]
      /\ req[r].pc = "bonuses" /\ KeyOf(req[r]) \in Keys
  BY LedgerTypes DEF RecordHistory, TypeInv, TypeOK, TablesType, Rows
<1>2. PICK key \in Keys : key = KeyOf(req[r])
  BY <1>1
<1>3. CASE history[key] = Null
  <2>1. PICK q : /\ q = [req[r] EXCEPT !.pc = "balance", !.result = Earned(req[r])]
                 /\ req' = [req EXCEPT ![r] = q]
    BY <1>1, <1>2, <1>3 DEF RecordHistory
  <2>2. /\ history' = [history EXCEPT ![key] = Earned(req[r])] /\ UNCHANGED <<balance, credits>>
    BY <1>2, <1>3 DEF RecordHistory
  <2>3. q.pc = "balance" /\ KeyOf(q) = key
    BY <1>1, <1>2, <2>1 DEF Request, KeyOf
  <2>4. \A s \in Requests : req'[s] = IF s = r THEN q ELSE req[s]
    BY <1>1, <2>1
  <2>5. \A k \in Keys : history'[k] = IF k = key THEN Earned(req[r]) ELSE history[k]
    BY <1>1, <2>2 DEF Rows
  <2>6. credits[key] = 0
    BY <1>1, <1>3 DEF LedgerInv
  <2>7. ASSUME NEW w \in Wallets, NEW c \in Categories PROVE Counting(balance', history', credits', w, c)
    <3>1. Credited(history', credits, w, c) = Credited(history, credits, w, c)
      BY <1>1, <2>5, <2>6, CreditedUncounted
    <3> QED BY <2>2, <3>1 DEF Counting, CreditedInv
  <2>8. \A s \in Requests, k \in Keys : Holds(s, k) => Holds(s, k)'
    BY <1>1, <2>4 DEF Holds, KeyOf, Recorded
  <2>9. Holds(r, key)'
    BY <2>3, <2>4 DEF Holds, KeyOf, Recorded
  <2>10. \A k \in Keys : history'[k] # Null /\ credits'[k] = 0 => \E s \in Requests : Holds(s, k)'
    BY <2>2, <2>5, <2>8, <2>9 DEF CreditedInv
  <2>11. \A s \in Requests : req'[s].pc = "credit" => req'[s].seen = balance'[req'[s].addr]
    BY <2>2, <2>3, <2>4 DEF CreditedInv
  <2> QED BY <2>7, <2>10, <2>11 DEF CreditedInv
<1>4. CASE history[key] # Null
  <2>1. req' = [req EXCEPT ![r] = Idle] /\ UNCHANGED <<history, balance, credits>>
    BY <1>2, <1>4 DEF RecordHistory
  <2>2. Idle.pc = "idle" /\ req[r].pc \notin Recorded
    BY <1>1 DEF Idle, Recorded
  <2> QED BY <2>1, <2>2, MoveKeepsCredited
<1> QED BY <1>3, <1>4

LEMMA CreditKeepsCredited ==
  ASSUME OneAtATime, TypeInv, TypeInv', LedgerInv, RecordedInv, CreditedInv, NEW r \in Requests,
         NEW a \in Address, NEW row \in Shards,
         req[r].pc = "credit", Credit(r, a, row), UNCHANGED history, a = req[r].addr,
         \/ req[r].seen # Null /\ row = AddShards(req[r].seen, Earned(req[r]))
         \/ balance[a] = Null /\ row = Earned(req[r])
  PROVE  CreditedInv'
<1>1. /\ req \in [Requests -> Request] /\ req[r] \in Request
      /\ history \in Rows /\ balance \in BalanceRows /\ credits \in [Keys -> Nat]
      /\ KeyOf(req[r]) \in Keys /\ KeyOf(req[r])[1].wallet = a.wallet
      /\ req[r].seen = balance[a]
  BY LedgerTypes DEF CreditedInv
<1>2. PICK key \in Keys, earned \in Shards : key = KeyOf(req[r]) /\ earned = Earned(req[r])
  BY <1>1, LedgerTypes
<1>3. balance' \in BalanceRows /\ credits' \in [Keys -> Nat]
  BY DEF TypeInv, TypeOK, TablesType, CalcType, BalanceRows
<1>4. history[key] = earned /\ credits[key] = 0
  BY <1>1, <1>2 DEF RecordedInv, LedgerInv, Holds, Recorded
<1>5. /\ \A x \in Address : balance'[x] = IF x = a THEN row ELSE balance[x]
      /\ \A k \in Keys : credits'[k] = IF k = key THEN 1 ELSE credits[k]
  BY <1>1, <1>2, <1>4 DEF Credit, BalanceRows
<1>6. req'[r].pc # "credit" /\ \A s \in Requests : s = r
  BY <1>1 DEF Credit, OneAtATime
<1>7. ASSUME NEW w \in Wallets, NEW c \in Categories PROVE Counting(balance', history', credits', w, c)
  <2>1. PICK held, credited, held2, credited2 \in Nat :
          /\ held = Held(balance, w, c) /\ held2 = Held(balance', w, c)
          /\ credited = Credited(history, credits, w, c) /\ credited2 = Credited(history', credits', w, c)
    BY <1>1, <1>3, SumsType
  <2>2. held = credited
    BY <2>1 DEF CreditedInv, Counting
  <2>3. credited2 = credited + (IF a.wallet = w THEN Column(earned, c) ELSE 0)
    <3>1. Credited(history, credits', w, c) =
            Credited(history, credits, w, c) + (IF key[1].wallet = w THEN Column(history[key], c) ELSE 0)
      BY <1>1, <1>3, <1>4, <1>5, CreditedOnceMore
    <3> QED BY <1>1, <1>2, <1>4, <2>1, <3>1
  <2>4. Column(earned, c) = earned[c] /\ earned[c] \in Nat /\ Column(row, c) = row[c] /\ row[c] \in Nat
    BY ColumnType, NullIsNoRow
  <2>5. /\ a.wallet # w => held2 = held
        /\ a.wallet = w => held2 = held + Column(row, c) - Column(balance[a], c)
    <3>1. balance'[a] = row /\ \A x \in Address : x # a => balance'[x] = balance[x]
      BY <1>5
    <3> QED BY <1>1, <1>3, <2>1, <3>1, HeldWritten
  <2>6. row[c] = Column(balance[a], c) + earned[c] /\ Column(balance[a], c) \in Nat
    <3>1. Column(balance[a], c) \in Nat
      BY <1>1, ColumnType DEF BalanceRows
    <3>2. CASE balance[a] = Null /\ row = earned
      BY <2>4, <3>2 DEF Column
    <3>3. CASE req[r].seen # Null /\ row = AddShards(req[r].seen, earned)
      <4>1. balance[a] \in Shards /\ Column(balance[a], c) = balance[a][c]
        BY <1>1, <3>3 DEF BalanceRows, Column
      <4>2. row[c] = balance[a][c] + earned[c]
        BY <1>1, <3>3, <4>1, CategoriesAre DEF AddShards, Shards
      <4> QED BY <3>1, <4>1, <4>2
    <3> QED BY <1>2, <3>1, <3>2, <3>3
  <2> QED BY <2>1, <2>2, <2>3, <2>4, <2>5, <2>6 DEF Counting
<1>8. \A k \in Keys : history'[k] # Null /\ credits'[k] = 0 => \E s \in Requests : Holds(s, k)'
  <2>1. ASSUME NEW k \in Keys, history'[k] # Null, credits'[k] = 0 PROVE FALSE
    <3>1. k # key /\ history[k] # Null /\ credits[k] = 0
      BY <1>5, <2>1
    <3>2. Holds(r, k)
      BY <1>6, <3>1 DEF CreditedInv
    <3> QED BY <1>2, <3>1, <3>2 DEF Holds
  <2> QED BY <2>1
<1>9. \A s \in Requests : req'[s].pc = "credit" => req'[s].seen = balance'[req'[s].addr]
  BY <1>6
<1> QED BY <1>7, <1>8, <1>9 DEF CreditedInv

LEMMA CreditedStep ==
  ASSUME OneAtATime, TypeInv, TypeInv', LedgerInv, RecordedInv, CreditedInv, [Next]_vars
  PROVE  CreditedInv'
<1>1. ASSUME NEW r \in Requests, Arrive(r) \/ Proceed(r) \/ Fail(r)
      PROVE  CreditedInv'
  <2>0. req \in [Requests -> Request] /\ req[r] \in Request
    BY LedgerTypes
  <2>1. CASE RecordHistory(r)
    BY <2>1, RecordKeepsCredited
  <2>2. CASE ReadBalance(r)
    <3>1. PICK q : /\ q = [req[r] EXCEPT !.pc = "credit", !.seen = FindBalance(req[r].addr)]
                   /\ req' = [req EXCEPT ![r] = q]
      BY <2>0, <2>2 DEF ReadBalance
    <3>2. q.pc = "credit" /\ q.addr = req[r].addr /\ q.day = req[r].day /\ q.seen = FindBalance(req[r].addr)
      BY <2>0, <3>1 DEF Request
    <3>3. req[r].addr \in Address /\ UNCHANGED <<history, balance, credits>>
      BY <2>2, LedgerTypes DEF ReadBalance, tables
    <3>4. q.seen = balance[q.addr]
      BY <3>2, <3>3, LowerCaseOnly DEF FindBalance
    <3>5. q.pc \in Recorded /\ KeyOf(q) = KeyOf(req[r])
      BY <3>2 DEF Recorded, KeyOf
    <3> QED BY <3>1, <3>3, <3>4, <3>5, MoveKeepsCredited
  <2>3. CASE UpdateBalance(r)
    <3>1. PICK a \in Address, row \in Shards :
           /\ req[r].pc = "credit" /\ Credit(r, a, row) /\ UNCHANGED history
           /\ a.wallet = req[r].addr.wallet /\ a = Spelled(a.wallet)
           /\ req[r].seen # Null /\ row = AddShards(req[r].seen, Earned(req[r]))
      BY <2>3, UpdateWrites
    <3>2. req[r].addr \in Address
      BY <3>1, LedgerTypes
    <3>3. a = req[r].addr
      BY <3>1, <3>2, LowerCaseOnly
    <3> QED BY <3>1, <3>3, CreditKeepsCredited
  <2>4. CASE CreateBalance(r)
    <3>1. balance[req[r].addr] = Null
      BY <2>4 DEF CreateBalance, CreditedInv
    <3> QED BY <2>4, <3>1, CreateWrites, CreditKeepsCredited
  <2>5. CASE ~ (RecordHistory(r) \/ ReadBalance(r) \/ UpdateBalance(r) \/ CreateBalance(r))
    <3>1. /\ UNCHANGED <<history, balance, credits>>
          /\ \E q : req' = [req EXCEPT ![r] = q] /\ q.pc \notin Recorded
          /\ Fail(r) \/ req[r].pc \notin Recorded
      BY <1>1, <2>5, PlainSteps DEF Proceed
    <3>2. ~ Fail(r)
      BY DEF Fail, OneAtATime
    <3>3. PICK q : req' = [req EXCEPT ![r] = q] /\ q.pc \notin Recorded
      BY <3>1
    <3> QED BY <3>1, <3>2, <3>3, MoveKeepsCredited DEF Recorded
  <2> QED BY <2>1, <2>2, <2>3, <2>4, <2>5
<1>2. CASE UNCHANGED <<history, balance, credits, req>>
  BY <1>2 DEF CreditedInv, Counting, Holds, KeyOf
<1>3. CASE CalcStep
  BY <1>1, <1>3 DEF CalcStep
<1>4. CASE World \/ (RefStep /\ UNCHANGED calcVars) \/ UNCHANGED vars
  <2>1. UNCHANGED <<history, balance, credits, req>>
    BY <1>4, OtherSteps
  <2> QED BY <1>2, <2>1
<1> QED BY <1>3, <1>4 DEF Next

\* While calculations run one after the other, in lower case and without failures, a wallet
\* with none between its two writes has in its balances exactly what its days earned, for
\* any number of wallets, days and referral operations beside them.
THEOREM NothingLostAlone == OneAtATime => (Spec => []AllCredited)
<1>1. SUFFICES ASSUME OneAtATime PROVE Spec => []AllCredited
  OBVIOUS
<1>2. CreditedInv /\ TypeInv /\ LedgerInv /\ RecordedInv /\ [Next]_vars /\ TypeInv' => CreditedInv'
  BY <1>1, CreditedStep
<1>3. TypeInv /\ CreditedInv => AllCredited
  <2>1. SUFFICES ASSUME TypeInv, CreditedInv, NEW w \in Wallets, ~ Crediting(w), NEW c \in Categories
                 PROVE  BalanceOf(w, c) = EarnedBy(w, c)
    BY DEF AllCredited
  <2>2. history \in Rows /\ credits \in [Keys -> Nat]
    BY <2>1, LedgerTypes
  <2>3. ASSUME NEW k \in KeysOf(w), history[k] # Null PROVE credits[k] > 0
    <3>1. k \in Keys /\ k[1].wallet = w
      BY DEF KeysOf
    <3>2. ASSUME credits[k] = 0 PROVE FALSE
      <4>1. PICK r \in Requests : Holds(r, k)
        BY <2>1, <2>3, <3>1, <3>2 DEF CreditedInv
      <4> QED BY <2>1, <3>1, <4>1 DEF Holds, KeyOf, Crediting
    <3> QED BY <2>2, <3>1, <3>2
  <2>4. Credited(history, credits, w, c) = Earnings(history, w, c)
    BY <2>2, <2>3, CreditedBounded
  <2> QED BY <2>1, <2>4, SumsMeant DEF CreditedInv, Counting
<1>4. Spec => []CreditedInv
  <2>1. Init => CreditedInv
    BY CreditedInit
  <2> QED BY <1>2, <2>1, BackedAlways, TypeStep, PTL DEF Spec
<1> QED BY <1>3, <1>4, BackedAlways, PTL

-----------------------------------------------------------------------------
(* Referral rows are written whole, from rows read earlier.  What makes those stale writes *)
(* harmless is a property of every copy of a row an execution holds, which only grows      *)
(* truer with time: its referrer is still the row's, its shards are covered by what the    *)
(* referee's days record, and once it is not pending those days reach the threshold.       *)

ReferralRows == [Wallets -> Referral \cup {Null}]

Reached(h, v) ==
  Earnings(h, v, "staking") + Earnings(h, v, "developer") + Earnings(h, v, "referral")
    >= ActivationThreshold

Sound(ref, t, h, v) ==
  /\ t[v] # Null /\ t[v].referrer = ref.referrer
  /\ ref.earned <= Earnings(h, v, "referral")
  /\ (ref.status # "pending" => Reached(h, v))

SoundRows(t, h) == \A v \in Wallets : t[v] # Null => Sound(t[v], t, h, v)

SoundRequest(q, t, h) ==
  q.pc # "idle" /\ q.own # Null =>
    /\ Sound(q.own, t, h, q.addr.wallet)
    /\ (q.pc \in {"balance", "credit", "earn"} =>
          q.own.earned + q.bonus <= Earnings(h, q.addr.wallet, "referral"))

SoundOp(q, t, h) ==
  /\ (q.pc \in {"threshold", "activate"} => Sound(q.found, t, h, q.referee))
  /\ (q.pc = "activate" => Reached(h, q.referee))
  /\ (q.pc = "expire" => \A v \in q.todo : Sound(q.rows[v], t, h, v) /\ q.rows[v].status # "pending")

SoundInv ==
  /\ SoundRows(referral, history)
  /\ \A r \in Requests : SoundRequest(req[r], referral, history)
  /\ \A o \in RefOps : SoundOp(op[o], referral, history)

\* Rows of both tables are only added, and a referral keeps its referrer.
Grown(h, g, t, u) ==
  /\ \A k \in Keys : h[k] # Null => g[k] = h[k]
  /\ \A v \in Wallets : t[v] # Null => u[v] # Null /\ u[v].referrer = t[v].referrer

LEMMA ReachedMeant ==
  ASSUME NEW h \in Rows, NEW v \in Wallets
  PROVE  SumFunctionOnSet([c \in Categories |-> Earnings(h, v, c)], Categories) >= ActivationThreshold
           <=> Reached(h, v)
<1> DEFINE f == [c \in Categories |-> Earnings(h, v, c)]
<1>1. \A c \in Categories : f[c] \in Int
  BY SumsType, TablesExist
<1>2. /\ f["staking"] = Earnings(h, v, "staking") /\ f["developer"] = Earnings(h, v, "developer")
      /\ f["referral"] = Earnings(h, v, "referral")
  BY CategoriesAre
<1> HIDE DEF f
<1>3. IsFiniteSet({"referral"}) /\ IsFiniteSet({"developer", "referral"}) /\ IsFiniteSet({"staking", "developer", "referral"})
  <2>1. IsFiniteSet({"referral"}) /\ IsFiniteSet({"developer"}) /\ IsFiniteSet({"staking"})
    BY FS_Singleton
  <2>2. IsFiniteSet({"developer"} \cup {"referral"})
    BY <2>1, FS_Union
  <2>3. {"developer", "referral"} = {"developer"} \cup {"referral"}
    OBVIOUS
  <2>4. IsFiniteSet({"staking"} \cup {"developer", "referral"})
    BY <2>1, <2>2, <2>3, FS_Union
  <2>5. {"staking", "developer", "referral"} = {"staking"} \cup {"developer", "referral"}
    OBVIOUS
  <2> QED BY <2>1, <2>2, <2>3, <2>4, <2>5
<1>4. \A c \in {"staking", "developer", "referral"} : f[c] \in Int
  BY <1>1, CategoriesAre
<1>5. SumFunctionOnSet(f, {"staking", "developer", "referral"}) = f["staking"] + SumFunctionOnSet(f, {"developer", "referral"})
  <2>1. {"staking", "developer", "referral"} \ {"staking"} = {"developer", "referral"}
    OBVIOUS
  <2> QED BY <1>3, <1>4, <2>1, SumOfOneMore
<1>6. SumFunctionOnSet(f, {"developer", "referral"}) = f["developer"] + SumFunctionOnSet(f, {"referral"})
  <2>1. {"developer", "referral"} \ {"developer"} = {"referral"}
    OBVIOUS
  <2> QED BY <1>3, <1>4, <2>1, SumOfOneMore
<1>7. SumFunctionOnSet(f, {"referral"}) = f["referral"] + SumFunctionOnSet(f, {})
  <2>1. {"referral"} \ {"referral"} = {}
    OBVIOUS
  <2> QED BY <1>3, <1>4, <2>1, SumOfOneMore
<1>8. SumFunctionOnSet(f, Categories) = f["staking"] + (f["developer"] + (f["referral"] + 0))
  BY <1>5, <1>6, <1>7, SumEmpty, CategoriesAre
<1>9. f["staking"] \in Int /\ f["developer"] \in Int /\ f["referral"] \in Int
  BY <1>4
<1>10. SumFunctionOnSet(f, Categories) =
         Earnings(h, v, "staking") + Earnings(h, v, "developer") + Earnings(h, v, "referral")
  BY <1>2, <1>8, <1>9
<1> QED BY <1>10 DEF f, Reached

LEMMA ReachedGrows ==
  ASSUME NEW h \in Rows, NEW g \in Rows, \A k \in Keys : h[k] # Null => g[k] = h[k],
         NEW v \in Wallets, Reached(h, v)
  PROVE  Reached(g, v)
<1>1. \A c \in Categories : /\ Earnings(h, v, c) <= Earnings(g, v, c)
                            /\ Earnings(h, v, c) \in Nat /\ Earnings(g, v, c) \in Nat
  BY EarningsGrow, SumsType, TablesExist
<1>2. PICK s1, s2, d1, d2, r1, r2 \in Nat :
        /\ s1 = Earnings(h, v, "staking") /\ s2 = Earnings(g, v, "staking") /\ s1 <= s2
        /\ d1 = Earnings(h, v, "developer") /\ d2 = Earnings(g, v, "developer") /\ d1 <= d2
        /\ r1 = Earnings(h, v, "referral") /\ r2 = Earnings(g, v, "referral") /\ r1 <= r2
  BY <1>1, CategoriesAre
<1> QED BY <1>2, ThresholdAssumption DEF Reached

LEMMA SoundGrows ==
  ASSUME NEW h \in Rows, NEW g \in Rows, NEW t, NEW u, Grown(h, g, t, u),
         NEW v \in Wallets, NEW ref \in Referral, Sound(ref, t, h, v)
  PROVE  Sound(ref, u, g, v)
<1>1. \A c \in Categories : /\ Earnings(h, v, c) <= Earnings(g, v, c)
                            /\ Earnings(h, v, c) \in Nat /\ Earnings(g, v, c) \in Nat
  BY EarningsGrow, SumsType, TablesExist DEF Grown
<1>2. ref.earned \in Nat /\ ActivationThreshold \in Nat
  BY ThresholdAssumption DEF Referral
<1>3. ref.earned <= Earnings(g, v, "referral")
  BY <1>1, <1>2, CategoriesAre DEF Sound
<1>4. Reached(h, v) => Reached(g, v)
  BY ReachedGrows DEF Grown
<1>5. u[v] # Null /\ u[v].referrer = ref.referrer
  BY DEF Grown, Sound
<1> QED BY <1>3, <1>4, <1>5 DEF Sound

LEMMA SoundInit == Init => SoundInv
BY DEF Init, TablesInit, CalcInit, RefInit, Idle, IdleOp, SoundInv, SoundRows, SoundRequest, SoundOp

LEMMA ReferralTypes ==
  ASSUME TypeInv
  PROVE  /\ referral \in ReferralRows /\ op \in [RefOps -> RefOp]
         /\ \A o \in RefOps : OpReady(op[o]) /\ op[o] \in RefOp
BY DEF TypeInv, TypeOK, TablesType, RefType, ReferralRows

\* What the executions that do not move know stays sound while the tables grow.
LEMMA OthersStaySound ==
  ASSUME TypeInv, TypeInv', SoundInv, Grown(history, history', referral, referral')
  PROVE  /\ \A r \in Requests : req'[r] = req[r] => SoundRequest(req'[r], referral', history')
         /\ \A o \in RefOps : op'[o] = op[o] => SoundOp(op'[o], referral', history')
<1>1. history \in Rows /\ history' \in Rows
  BY DEF TypeInv, TypeOK, TablesType, Rows
<1>2. ASSUME NEW r \in Requests, req'[r] = req[r] PROVE SoundRequest(req'[r], referral', history')
  <2>1. SUFFICES ASSUME req[r].pc # "idle", req[r].own # Null
                 PROVE  /\ Sound(req[r].own, referral', history', req[r].addr.wallet)
                        /\ (req[r].pc \in {"balance", "credit", "earn"} =>
                              req[r].own.earned + req[r].bonus <= Earnings(history', req[r].addr.wallet, "referral"))
    BY <1>2 DEF SoundRequest
  <2>2. req[r].own \in Referral /\ req[r].bonus \in Nat /\ req[r].addr.wallet \in Wallets
    BY <2>1, LedgerTypes, LowerCaseType DEF Request
  <2>3. req[r].own.earned \in Nat
    BY <2>2 DEF Referral
  <2>4. SoundRequest(req[r], referral, history)
    BY DEF SoundInv
  <2>5. Sound(req[r].own, referral', history', req[r].addr.wallet)
    BY <1>1, <2>1, <2>2, <2>4, SoundGrows DEF SoundRequest
  <2>6. /\ Earnings(history, req[r].addr.wallet, "referral") <= Earnings(history', req[r].addr.wallet, "referral")
        /\ Earnings(history, req[r].addr.wallet, "referral") \in Nat /\ Earnings(history', req[r].addr.wallet, "referral") \in Nat
    BY <1>1, <2>2, EarningsGrow, SumsType, TablesExist, CategoriesAre DEF Grown
  <2> QED BY <2>1, <2>2, <2>3, <2>4, <2>5, <2>6 DEF SoundRequest
<1>3. ASSUME NEW o \in RefOps, op'[o] = op[o] PROVE SoundOp(op'[o], referral', history')
  <2>1. SoundOp(op[o], referral, history) /\ OpReady(op[o]) /\ op[o] \in RefOp
    BY ReferralTypes DEF SoundInv
  <2>2. \A v \in Wallets : Reached(history, v) => Reached(history', v)
    BY <1>1, ReachedGrows DEF Grown
  <2>3. CASE op[o].pc \in {"threshold", "activate"}
    <3>1. op[o].found \in Referral /\ op[o].referee \in Wallets
      BY <2>1, <2>3 DEF OpReady, RefOp
    <3>2. Sound(op[o].found, referral, history, op[o].referee)
      BY <2>1, <2>3 DEF SoundOp
    <3>3. Sound(op[o].found, referral', history', op[o].referee)
      BY <1>1, <3>1, <3>2, SoundGrows
    <3> QED BY <1>3, <2>1, <2>2, <2>3, <3>1, <3>3 DEF SoundOp
  <2>4. CASE op[o].pc = "expire"
    <3>1. ASSUME NEW v \in op[o].todo PROVE Sound(op[o].rows[v], referral', history', v) /\ op[o].rows[v].status # "pending"
      <4>1. v \in Wallets /\ op[o].rows[v] \in Referral
        BY <2>1, <2>4 DEF OpReady, RefOp
      <4>2. Sound(op[o].rows[v], referral, history, v) /\ op[o].rows[v].status # "pending"
        BY <2>1, <2>4 DEF SoundOp
      <4> QED BY <1>1, <4>1, <4>2, SoundGrows
    <3> QED BY <1>3, <2>4, <3>1 DEF SoundOp
  <2> QED BY <1>3, <2>3, <2>4 DEF SoundOp
<1> QED BY <1>2, <1>3

LEMMA RowsStaySound ==
  ASSUME TypeInv, TypeInv', SoundInv, Grown(history, history', referral, referral'), UNCHANGED referral
  PROVE  SoundRows(referral', history')
<1>1. history \in Rows /\ history' \in Rows /\ referral \in ReferralRows
  BY ReferralTypes DEF TypeInv, TypeOK, TablesType, Rows
<1>2. ASSUME NEW v \in Wallets, referral[v] # Null PROVE Sound(referral[v], referral', history', v)
  <2>1. referral[v] \in Referral
    BY <1>1, <1>2 DEF ReferralRows
  <2>2. Sound(referral[v], referral, history, v)
    BY <1>2 DEF SoundInv, SoundRows
  <2> QED BY <1>1, <2>1, <2>2, SoundGrows
<1> QED BY <1>2 DEF SoundRows

\* A row that is written.
LEMMA RowWritten ==
  ASSUME TypeInv, TypeInv', SoundInv, NEW v \in Wallets, NEW row \in Referral,
         referral' = [referral EXCEPT ![v] = row], UNCHANGED history,
         referral[v] = Null \/ row.referrer = referral[v].referrer,
         row.earned <= Earnings(history, v, "referral"),
         row.status # "pending" => Reached(history, v)
  PROVE  Grown(history, history', referral, referral') /\ SoundRows(referral', history')
<1>1. history \in Rows /\ referral \in ReferralRows /\ history' = history
  BY ReferralTypes DEF TypeInv, TypeOK, TablesType, Rows
<1>2. \A x \in Wallets : referral'[x] = IF x = v THEN row ELSE referral[x]
  BY <1>1 DEF ReferralRows
<1>3. row # Null
  BY NullIsNoRow
<1>4. Grown(history, history', referral, referral')
  BY <1>1, <1>2, <1>3 DEF Grown
<1>5. ASSUME NEW x \in Wallets, referral'[x] # Null PROVE Sound(referral'[x], referral', history', x)
  <2>1. CASE x = v
    BY <1>1, <1>2, <1>3, <2>1 DEF Sound
  <2>2. CASE x # v
    <3>1. referral'[x] = referral[x] /\ referral[x] \in Referral
      BY <1>1, <1>2, <1>5, <2>2 DEF ReferralRows
    <3>2. Sound(referral[x], referral, history, x)
      BY <1>5, <3>1 DEF SoundInv, SoundRows
    <3> QED BY <1>1, <1>4, <3>1, <3>2, SoundGrows
  <2> QED BY <2>1, <2>2
<1> QED BY <1>4, <1>5 DEF SoundRows

LEMMA RequestMovesSoundly ==
  ASSUME TypeInv, TypeInv', SoundInv, NEW r \in Requests, NEW q, req' = [req EXCEPT ![r] = q], UNCHANGED op,
         Grown(history, history', referral, referral'), SoundRows(referral', history'),
         SoundRequest(q, referral', history')
  PROVE  SoundInv'
<1>1. \A s \in Requests : req'[s] = IF s = r THEN q ELSE req[s]
  BY LedgerTypes
<1>2. \A s \in Requests : SoundRequest(req'[s], referral', history')
  BY <1>1, OthersStaySound
<1>3. \A o \in RefOps : SoundOp(op'[o], referral', history')
  BY OthersStaySound
<1> QED BY <1>2, <1>3 DEF SoundInv

LEMMA OpMovesSoundly ==
  ASSUME TypeInv, TypeInv', SoundInv, NEW o \in RefOps, NEW q, op' = [op EXCEPT ![o] = q], UNCHANGED req,
         Grown(history, history', referral, referral'), SoundRows(referral', history'),
         SoundOp(q, referral', history')
  PROVE  SoundInv'
<1>1. \A p \in RefOps : op'[p] = IF p = o THEN q ELSE op[p]
  BY ReferralTypes
<1>2. \A p \in RefOps : SoundOp(op'[p], referral', history')
  BY <1>1, OthersStaySound
<1>3. \A r \in Requests : SoundRequest(req'[r], referral', history')
  BY OthersStaySound
<1> QED BY <1>2, <1>3 DEF SoundInv

\* A request that moves on with the row it has read, if any.
LEMMA CarrySoundly ==
  ASSUME TypeInv, TypeInv', SoundInv, NEW r \in Requests, NEW q, req' = [req EXCEPT ![r] = q],
         UNCHANGED <<op, history, referral>>,
         \/ q.pc = "idle" \/ q.own = Null
         \/ /\ req[r].pc # "idle" /\ q.own = req[r].own /\ q.addr = req[r].addr
            /\ q.bonus = req[r].bonus /\ req[r].pc \in {"balance", "credit", "earn"}
         \/ /\ req[r].pc # "idle" /\ q.own = req[r].own /\ q.addr = req[r].addr
            /\ q.pc \notin {"balance", "credit", "earn"}
  PROVE  SoundInv'
<1>1. Grown(history, history', referral, referral')
  BY DEF Grown
<1>2. SoundRows(referral', history')
  BY <1>1, RowsStaySound
<1>3. SoundRequest(req[r], referral, history)
  BY DEF SoundInv
<1>4. SoundRequest(q, referral', history')
  BY <1>3 DEF SoundRequest
<1> QED BY <1>1, <1>2, <1>4, RequestMovesSoundly

LEMMA CarryingSteps ==
  ASSUME TypeInv, TypeInv', SoundInv, NEW r \in Requests, UNCHANGED op,
         \/ Arrive(r) \/ CheckSeason(r) \/ FindExistingHistory(r)
         \/ ReadVaultPositions(r) \/ ReadContributions(r) \/ ReadActiveReferrals(r)
         \/ AddReferralBonus(r) \/ ReadBalance(r) \/ UpdateBalance(r) \/ CreateBalance(r)
         \/ Respond(r) \/ Fail(r)
  PROVE  SoundInv'
<1>0. req \in [Requests -> Request] /\ req[r] \in Request
  BY LedgerTypes
<1>1. UNCHANGED <<op, history, referral>>
  BY DEF Arrive, CheckSeason, FindExistingHistory, ReadVaultPositions, ReadContributions,
         ReadActiveReferrals, AddReferralBonus, ReadBalance, UpdateBalance, CreateBalance,
         Respond, Fail, tables
<1>2. ASSUME NEW q, req' = [req EXCEPT ![r] = q], req[r].pc # "idle",
             q.own = req[r].own, q.addr = req[r].addr,
             \/ q.bonus = req[r].bonus /\ req[r].pc \in {"balance", "credit", "earn"}
             \/ q.pc \notin {"balance", "credit", "earn"}
      PROVE  SoundInv'
  BY <1>1, <1>2, CarrySoundly
<1>3. ASSUME NEW q, req' = [req EXCEPT ![r] = q], q.pc = "idle" \/ q.own = Null PROVE SoundInv'
  BY <1>1, <1>3, CarrySoundly
<1>4. CASE Arrive(r)
  <2>1. PICK a : req' = [req EXCEPT ![r] = [Idle EXCEPT !.pc = "season", !.addr = a, !.day = day]]
    BY <1>4 DEF Arrive
  <2>2. [Idle EXCEPT !.pc = "season", !.addr = a, !.day = day].own = Null
    BY DEF Idle
  <2> QED BY <1>3, <2>1, <2>2
<1>5. ASSUME req' = [req EXCEPT ![r] = Idle] PROVE SoundInv'
  BY <1>3, <1>5 DEF Idle
<1>6. CASE Respond(r) \/ Fail(r)
  BY <1>5, <1>6 DEF Respond, Fail
<1>7. CASE CheckSeason(r)
  <2>1. CASE season = "active"
    <3>1. PICK q : q = [req[r] EXCEPT !.pc = "history"] /\ req' = [req EXCEPT ![r] = q]
      BY <1>0, <1>7, <2>1 DEF CheckSeason
    <3>2. q.own = req[r].own /\ q.addr = req[r].addr /\ q.pc = "history" /\ req[r].pc = "season"
      BY <1>0, <1>7, <3>1 DEF Request, CheckSeason
    <3> QED BY <1>2, <3>1, <3>2
  <2>2. CASE season # "active"
    BY <1>0, <1>5, <1>7, <2>2 DEF CheckSeason
  <2> QED BY <2>1, <2>2
<1>8. CASE FindExistingHistory(r)
  <2>1. PICK row : row = FindHistory(req[r].addr, req[r].day)
    OBVIOUS
  <2>2. req[r].pc = "history"
    BY <1>8 DEF FindExistingHistory
  <2>3. CASE row = Null
    <3>1. PICK q : q = [req[r] EXCEPT !.pc = "vaults"] /\ req' = [req EXCEPT ![r] = q]
      BY <1>0, <1>8, <2>1, <2>3 DEF FindExistingHistory
    <3>2. q.own = req[r].own /\ q.addr = req[r].addr /\ q.pc = "vaults"
      BY <1>0, <2>2, <3>1 DEF Request
    <3> QED BY <1>2, <2>2, <3>1, <3>2
  <2>4. CASE row # Null
    <3>1. PICK q : q = [req[r] EXCEPT !.pc = "respond", !.result = row] /\ req' = [req EXCEPT ![r] = q]
      BY <1>0, <1>8, <2>1, <2>4 DEF FindExistingHistory
    <3>2. q.own = req[r].own /\ q.addr = req[r].addr /\ q.pc = "respond"
      BY <1>0, <2>2, <3>1 DEF Request
    <3> QED BY <1>2, <2>2, <3>1, <3>2
  <2> QED BY <2>3, <2>4
<1>9. CASE ReadVaultPositions(r)
  <2>1. PICK q : /\ q = [req[r] EXCEPT !.pc = "contributions", !.staking = stake[req[r].addr.wallet]]
                 /\ req' = [req EXCEPT ![r] = q]
    BY <1>0, <1>9 DEF ReadVaultPositions
  <2>2. q.own = req[r].own /\ q.addr = req[r].addr /\ q.pc = "contributions" /\ req[r].pc = "vaults"
    BY <1>0, <1>9, <2>1 DEF Request, ReadVaultPositions
  <2> QED BY <1>2, <2>1, <2>2
<1>10. CASE ReadContributions(r)
  <2>1. PICK q : /\ q = [req[r] EXCEPT !.pc = "ownReferral", !.developer = dev[req[r].addr.wallet][req[r].day]]
                 /\ req' = [req EXCEPT ![r] = q]
    BY <1>0, <1>10 DEF ReadContributions
  <2>2. q.own = req[r].own /\ q.addr = req[r].addr /\ q.pc = "ownReferral" /\ req[r].pc = "contributions"
    BY <1>0, <1>10, <2>1 DEF Request, ReadContributions
  <2> QED BY <1>2, <2>1, <2>2
<1>11. CASE ReadActiveReferrals(r)
  <2>1. PICK q : /\ q = [req[r] EXCEPT !.pc = "bonuses", !.refs = FindActiveByReferrer(req[r].addr)]
                 /\ req' = [req EXCEPT ![r] = q]
    BY <1>0, <1>11 DEF ReadActiveReferrals
  <2>2. q.own = req[r].own /\ q.addr = req[r].addr /\ q.pc = "bonuses" /\ req[r].pc = "activeReferrals"
    BY <1>0, <1>11, <2>1 DEF Request, ReadActiveReferrals
  <2> QED BY <1>2, <2>1, <2>2
<1>12. CASE AddReferralBonus(r)
  <2>1. PICK w, n, q : /\ q = [req[r] EXCEPT !.refs = @ \ {w}, !.bonus = @ + n]
                       /\ req' = [req EXCEPT ![r] = q]
    BY <1>0, <1>12 DEF AddReferralBonus
  <2>2. q.own = req[r].own /\ q.addr = req[r].addr /\ q.pc = "bonuses" /\ req[r].pc = "bonuses"
    BY <1>0, <1>12, <2>1 DEF Request, AddReferralBonus
  <2> QED BY <1>2, <2>1, <2>2
<1>13. CASE ReadBalance(r)
  <2>1. PICK q : /\ q = [req[r] EXCEPT !.pc = "credit", !.seen = FindBalance(req[r].addr)]
                 /\ req' = [req EXCEPT ![r] = q]
    BY <1>0, <1>13 DEF ReadBalance
  <2>2. q.own = req[r].own /\ q.addr = req[r].addr /\ q.bonus = req[r].bonus /\ req[r].pc = "balance"
    BY <1>0, <1>13, <2>1 DEF Request, ReadBalance
  <2> QED BY <1>2, <2>1, <2>2
<1>14. ASSUME NEW a, NEW row, Credit(r, a, row), req[r].pc = "credit" PROVE SoundInv'
  <2>1. PICK q : /\ q = [req[r] EXCEPT !.pc = IF req[r].own # Null /\ req[r].bonus > 0 THEN "earn" ELSE "respond"]
                 /\ req' = [req EXCEPT ![r] = q]
    BY <1>0, <1>14 DEF Credit
  <2>2. q.own = req[r].own /\ q.addr = req[r].addr /\ q.bonus = req[r].bonus
    BY <1>0, <2>1 DEF Request
  <2> QED BY <1>2, <1>14, <2>1, <2>2
<1>15. CASE UpdateBalance(r) \/ CreateBalance(r)
  BY <1>5, <1>14, <1>15 DEF UpdateBalance, CreateBalance
<1> QED BY <1>4, <1>6, <1>7, <1>8, <1>9, <1>10, <1>11, <1>12, <1>13, <1>15

LEMMA ReadOwnSoundly ==
  ASSUME TypeInv, TypeInv', SoundInv, NEW r \in Requests, UNCHANGED op, ReadOwnReferral(r)
  PROVE  SoundInv'
<1>1. /\ req \in [Requests -> Request] /\ req[r] \in Request /\ req[r].addr.wallet \in Wallets
  BY LedgerTypes, LowerCaseType DEF ReadOwnReferral
<1>2. PICK ref, b : /\ ref = referral[req[r].addr.wallet]
                    /\ req' = [req EXCEPT ![r].pc = "activeReferrals", ![r].own = ref, ![r].boosted = b]
  BY DEF ReadOwnReferral, FindReferral
<1>3. PICK q : /\ q = [req[r] EXCEPT !.pc = "activeReferrals", !.own = ref, !.boosted = b]
               /\ req' = [req EXCEPT ![r] = q]
  BY <1>1, <1>2
<1>4. q.pc = "activeReferrals" /\ q.own = ref /\ q.addr = req[r].addr
  BY <1>1, <1>3 DEF Request
<1>5. UNCHANGED <<history, referral>>
  BY DEF ReadOwnReferral, tables
<1>6. Grown(history, history', referral, referral')
  BY <1>5 DEF Grown
<1>7. SoundRows(referral', history')
  BY <1>5, <1>6, RowsStaySound
<1>8. SoundRequest(q, referral', history')
  BY <1>1, <1>2, <1>4, <1>5, <1>7 DEF SoundRequest, SoundRows
<1> QED BY <1>3, <1>6, <1>7, <1>8, RequestMovesSoundly

\* The day is recorded with the bonus, which the referral row is then given.
LEMMA RecordSoundly ==
  ASSUME TypeInv, TypeInv', SoundInv, NEW r \in Requests, UNCHANGED op, RecordHistory(r)
  PROVE  SoundInv'
<1>1. /\ req \in [Requests -> Request] /\ req[r] \in Request /\ Earned(req[r]) \in Shards
      /\ history \in Rows /\ history' \in Rows
      /\ req[r].pc = "bonuses" /\ KeyOf(req[r]) \in Keys
      /\ KeyOf(req[r])[1].wallet = req[r].addr.wallet /\ req[r].addr.wallet \in Wallets
      /\ UNCHANGED referral
  BY LedgerTypes, LowerCaseType DEF RecordHistory, TypeInv, TypeOK, TablesType, Rows
<1>2. PICK key \in Keys, w \in Wallets : key = KeyOf(req[r]) /\ w = req[r].addr.wallet
  BY <1>1
<1>3. CASE history[key] = Null
  <2>1. PICK q : /\ q = [req[r] EXCEPT !.pc = "balance", !.result = Earned(req[r])]
                 /\ req' = [req EXCEPT ![r] = q]
    BY <1>1, <1>2, <1>3 DEF RecordHistory
  <2>2. history' = [history EXCEPT ![key] = Earned(req[r])]
    BY <1>2, <1>3 DEF RecordHistory
  <2>3. /\ q.pc = "balance" /\ q.addr = req[r].addr /\ q.own = req[r].own
        /\ q.bonus = req[r].bonus /\ q.bonus \in Nat
    BY <1>1, <2>1 DEF Request
  <2>4. \A k \in Keys : history'[k] = IF k = key THEN Earned(req[r]) ELSE history[k]
    BY <1>1, <2>2 DEF Rows
  <2>5. Grown(history, history', referral, referral')
    BY <1>1, <1>3, <2>4 DEF Grown
  <2>6. SoundRows(referral', history')
    BY <1>1, <2>5, RowsStaySound
  <2>7. Earnings(history', w, "referral") = Earnings(history, w, "referral") + q.bonus
    <3>1. Earnings(history', w, "referral") = Earnings(history, w, "referral") + Column(history'[key], "referral")
      BY <1>1, <1>2, <1>3, <2>4, EarningsRecord, CategoriesAre
    <3>2. Column(history'[key], "referral") = q.bonus
      BY <1>1, <2>3, <2>4, NullIsNoRow DEF Column, Earned
    <3> QED BY <3>1, <3>2
  <2>8. ASSUME q.own # Null
        PROVE  Sound(q.own, referral', history', w) /\ q.own.earned + q.bonus <= Earnings(history', w, "referral")
    <3>1. Sound(q.own, referral, history, w)
      BY <1>1, <1>2, <2>3, <2>8 DEF SoundInv, SoundRequest
    <3>2. q.own \in Referral /\ q.own.earned \in Nat
      BY <1>1, <2>3, <2>8 DEF Request, Referral
    <3>3. Sound(q.own, referral', history', w)
      BY <1>1, <2>5, <3>1, <3>2, SoundGrows
    <3>4. Earnings(history, w, "referral") \in Nat /\ q.own.earned <= Earnings(history, w, "referral")
      BY <1>1, <3>1, SumsType, TablesExist, CategoriesAre DEF Sound
    <3> QED BY <2>3, <2>7, <3>2, <3>3, <3>4
  <2>9. SoundRequest(q, referral', history')
    BY <1>2, <2>3, <2>8 DEF SoundRequest
  <2> QED BY <2>1, <2>5, <2>6, <2>9, RequestMovesSoundly
<1>4. CASE history[key] # Null
  <2>1. req' = [req EXCEPT ![r] = Idle] /\ UNCHANGED history
    BY <1>2, <1>4 DEF RecordHistory
  <2>2. Idle.pc = "idle"
    BY DEF Idle
  <2> QED BY <1>1, <2>1, <2>2, CarrySoundly
<1> QED BY <1>3, <1>4

LEMMA EarnSoundly ==
  ASSUME TypeInv, TypeInv', SoundInv, NEW r \in Requests, UNCHANGED op, AddEarnedShards(r)
  PROVE  SoundInv'
<1>1. /\ req \in [Requests -> Request] /\ req[r] \in Request /\ req[r].pc = "earn" /\ req[r].own # Null
      /\ req[r].addr.wallet \in Wallets /\ UNCHANGED history
  BY LedgerTypes, LowerCaseType DEF AddEarnedShards, TypeInv, InFlight
<1>2. PICK w \in Wallets, own \in Referral, n \in Nat : w = req[r].addr.wallet /\ own = req[r].own /\ n = req[r].bonus
  BY <1>1 DEF Request
<1>3. PICK row : row = Earning(own, n)
  OBVIOUS
<1>4. row \in Referral /\ row.earned = own.earned + n /\ row.referrer = own.referrer /\ row.status = own.status
  BY <1>2, <1>3 DEF Earning, Referral
<1>5. referral' = [referral EXCEPT ![w] = row]
  BY <1>2, <1>3 DEF AddEarnedShards
<1>6. Sound(own, referral, history, w) /\ own.earned + n <= Earnings(history, w, "referral")
  BY <1>1, <1>2 DEF SoundInv, SoundRequest
<1>7. Grown(history, history', referral, referral') /\ SoundRows(referral', history')
  BY <1>1, <1>4, <1>5, <1>6, RowWritten DEF Sound
<1>8. PICK q : q = [req[r] EXCEPT !.pc = "respond"] /\ req' = [req EXCEPT ![r] = q]
  BY <1>1 DEF AddEarnedShards
<1>9. q.pc = "respond" /\ q.own = own /\ q.addr.wallet = w
  BY <1>1, <1>2, <1>8 DEF Request
<1>10. Sound(own, referral', history', w)
  <2>1. history \in Rows /\ history' \in Rows
    BY DEF TypeInv, TypeOK, TablesType, Rows
  <2> QED BY <1>6, <1>7, <2>1, SoundGrows
<1> QED BY <1>7, <1>8, <1>9, <1>10, RequestMovesSoundly DEF SoundRequest

-----------------------------------------------------------------------------
(* The referral operations *)

\* An operation that moves on without a row it means to write.
LEMMA CarryOpSoundly ==
  ASSUME TypeInv, TypeInv', SoundInv, NEW o \in RefOps, NEW q, op' = [op EXCEPT ![o] = q],
         UNCHANGED <<req, history, referral>>, q.pc \notin {"threshold", "activate", "expire"}
  PROVE  SoundInv'
<1>1. Grown(history, history', referral, referral')
  BY DEF Grown
<1>2. SoundRows(referral', history')
  BY <1>1, RowsStaySound
<1>3. SoundOp(q, referral', history')
  BY DEF SoundOp
<1> QED BY <1>1, <1>2, <1>3, OpMovesSoundly

LEMMA NextRowTurns ==
  ASSUME TypeInv, NEW o \in RefOps, NEW todo, NextRow(o, todo)
  PROVE  \E q : op' = [op EXCEPT ![o] = q] /\ q.pc \in {"idle", "find"}
<1>1. op \in [RefOps -> RefOp] /\ op[o] \in RefOp
  BY ReferralTypes
<1>2. CASE End(o)
  <2>1. op' = [op EXCEPT ![o] = IdleOp]
    BY <1>2 DEF End
  <2>2. IdleOp.pc = "idle"
    BY DEF IdleOp
  <2> QED BY <2>1, <2>2
<1>3. CASE ~ End(o)
  <2>1. PICK v \in todo : op' = [op EXCEPT ![o].pc = "find", ![o].referee = v,
                                           ![o].found = Null, ![o].todo = todo \ {v}]
    BY <1>3 DEF NextRow
  <2>2. PICK q : /\ q = [op[o] EXCEPT !.pc = "find", !.referee = v, !.found = Null, !.todo = todo \ {v}]
                 /\ op' = [op EXCEPT ![o] = q]
    BY <1>1, <2>1
  <2>3. q.pc = "find"
    BY <1>1, <2>2 DEF RefOp
  <2> QED BY <2>2, <2>3
<1> QED BY <1>2, <1>3

LEMMA CarryingOps ==
  ASSUME TypeInv, TypeInv', SoundInv, NEW o \in RefOps, UNCHANGED req,
         \/ RefStart(o) \/ CheckExisting(o) \/ CheckCount(o) \/ CheckRefereeBalance(o)
         \/ FindPendingActivations(o) \/ Abandon(o) \/ SkipRow(o)
  PROVE  SoundInv'
<1>0. op \in [RefOps -> RefOp] /\ op[o] \in RefOp
  BY ReferralTypes
<1>1. UNCHANGED <<req, history, referral>>
  BY DEF RefStart, CreateReferral, ActivateReferral, CheckAndActivatePending, ExpireOutdatedBonuses, Start,
         CheckExisting, CheckCount, CheckRefereeBalance, FindPendingActivations, Abandon, SkipRow, tables
<1>2. ASSUME End(o) PROVE SoundInv'
  <2>1. op' = [op EXCEPT ![o] = IdleOp] /\ IdleOp.pc = "idle"
    BY <1>2 DEF End, IdleOp
  <2> QED BY <1>1, <2>1, CarryOpSoundly
<1>3. ASSUME NEW todo, NextRow(o, todo) PROVE SoundInv'
  BY <1>1, <1>3, NextRowTurns, CarryOpSoundly
<1>4. CASE FindPendingActivations(o) \/ SkipRow(o)
  BY <1>3, <1>4 DEF FindPendingActivations, SkipRow
<1>5. CASE Abandon(o)
  BY <1>2, <1>5 DEF Abandon
<1>6. CASE RefStart(o)
  <2>1. ASSUME NEW q, Start(o, q), q.pc \in {"existing", "find", "scan", "scanExpired"} PROVE SoundInv'
    BY <1>1, <2>1, CarryOpSoundly DEF Start
  <2>2. CASE CreateReferral(o)
    <3>1. PICK v, w : Start(o, [IdleOp EXCEPT !.pc = "existing", !.referrer = v, !.referee = w])
      BY <2>2 DEF CreateReferral
    <3>2. [IdleOp EXCEPT !.pc = "existing", !.referrer = v, !.referee = w].pc = "existing"
      BY DEF IdleOp
    <3> QED BY <2>1, <3>1, <3>2
  <2>3. CASE ActivateReferral(o)
    <3>1. PICK v : Start(o, [IdleOp EXCEPT !.pc = "find", !.referee = v])
      BY <2>3 DEF ActivateReferral
    <3>2. [IdleOp EXCEPT !.pc = "find", !.referee = v].pc = "find"
      BY DEF IdleOp
    <3> QED BY <2>1, <3>1, <3>2
  <2>4. CASE CheckAndActivatePending(o)
    <3>1. [IdleOp EXCEPT !.pc = "scan", !.batch = TRUE].pc = "scan"
      BY DEF IdleOp
    <3> QED BY <2>1, <2>4, <3>1 DEF CheckAndActivatePending
  <2>5. CASE ExpireOutdatedBonuses(o)
    <3>1. [IdleOp EXCEPT !.pc = "scanExpired"].pc = "scanExpired"
      BY DEF IdleOp
    <3> QED BY <2>1, <2>5, <3>1 DEF ExpireOutdatedBonuses
  <2> QED BY <1>6, <2>2, <2>3, <2>4, <2>5 DEF RefStart
<1>7. ASSUME NEW pc \in {"count", "balance", "insert"}, op' = [op EXCEPT ![o].pc = pc] PROVE SoundInv'
  <2>1. PICK q : q = [op[o] EXCEPT !.pc = pc] /\ op' = [op EXCEPT ![o] = q]
    BY <1>0, <1>7
  <2>2. q.pc = pc
    BY <1>0, <2>1 DEF RefOp
  <2> QED BY <1>1, <1>7, <2>1, <2>2, CarryOpSoundly
<1>8. CASE CheckExisting(o) \/ CheckCount(o) \/ CheckRefereeBalance(o)
  BY <1>2, <1>7, <1>8 DEF CheckExisting, CheckCount, CheckRefereeBalance
<1> QED BY <1>4, <1>5, <1>6, <1>8

\* A balance that reaches the threshold is the referee's own days.
LEMMA BalanceReaches ==
  ASSUME TypeInv, BackedInv, NEW v \in Wallets, balance[Spelled(v)] # Null,
         TotalShards(balance[Spelled(v)]) >= ActivationThreshold
  PROVE  Reached(history, v)
<1>1. history \in Rows /\ balance \in BalanceRows /\ Spelled(v) \in Address
  BY LedgerTypes, SpelledType
<1>2. PICK row \in Shards : row = balance[Spelled(v)]
  BY <1>1 DEF BalanceRows
<1>3. ASSUME NEW c \in Categories
      PROVE  row[c] <= Earnings(history, v, c) /\ row[c] \in Nat /\ Earnings(history, v, c) \in Nat
  <2>1. Column(row, c) = row[c] /\ row[c] \in Nat
    BY ColumnType, NullIsNoRow
  <2>2. Held(balance, v, c) = row[c] + HeldByOthers(balance, v, c)
    BY <1>1, <1>2, <2>1, HeldParts
  <2>3. /\ Held(balance, v, c) \in Nat /\ HeldByOthers(balance, v, c) \in Nat
        /\ Earnings(history, v, c) \in Nat
    BY <1>1, SumsType, TablesExist
  <2>4. Held(balance, v, c) <= Earnings(history, v, c)
    BY HeldEarned
  <2> QED BY <2>1, <2>2, <2>3, <2>4
<1>4. PICK s1, s2, d1, d2, r1, r2 \in Nat :
        /\ s1 = row.staking /\ s2 = Earnings(history, v, "staking") /\ s1 <= s2
        /\ d1 = row.developer /\ d2 = Earnings(history, v, "developer") /\ d1 <= d2
        /\ r1 = row.referral /\ r2 = Earnings(history, v, "referral") /\ r1 <= r2
  BY <1>3, CategoriesAre
<1>5. s1 + d1 + r1 >= ActivationThreshold
  BY <1>2, <1>4 DEF TotalShards
<1> QED BY <1>4, <1>5, ThresholdAssumption DEF Reached

LEMMA InsertSoundly ==
  ASSUME TypeInv, TypeInv', SoundInv, NEW o \in RefOps, UNCHANGED req, InsertReferral(o)
  PROVE  SoundInv'
<1>1. /\ op[o].referee \in Wallets /\ op[o].referrer \in Wallets
      /\ history \in Rows /\ UNCHANGED history /\ op' = [op EXCEPT ![o] = IdleOp]
  BY ReferralTypes, LedgerTypes DEF OpReady, InsertReferral, End
<1>2. PICK v \in Wallets : v = op[o].referee
  BY <1>1
<1>3. IdleOp.pc = "idle"
  BY DEF IdleOp
<1>4. CASE referral[v] # Null
  <2>1. UNCHANGED referral
    BY <1>2, <1>4 DEF InsertReferral
  <2> QED BY <1>1, <1>3, <2>1, CarryOpSoundly
<1>5. CASE referral[v] = Null
  <2>1. PICK row : row = NewReferral(op[o].referrer)
    OBVIOUS
  <2>2. row \in Referral /\ row.earned = 0 /\ row.status = "pending"
    BY <1>1, <2>1 DEF NewReferral, Referral
  <2>3. referral' = [referral EXCEPT ![v] = row]
    BY <1>2, <1>5, <2>1 DEF InsertReferral
  <2>4. Earnings(history, v, "referral") \in Nat
    BY <1>1, SumsType, TablesExist, CategoriesAre
  <2>5. row.earned <= Earnings(history, v, "referral")
    BY <2>2, <2>4
  <2>6. Grown(history, history', referral, referral') /\ SoundRows(referral', history')
    BY <1>1, <1>5, <2>2, <2>3, <2>5, RowWritten
  <2> QED BY <1>1, <1>3, <2>6, OpMovesSoundly DEF SoundOp
<1> QED BY <1>4, <1>5

LEMMA FindSoundly ==
  ASSUME TypeInv, TypeInv', SoundInv, NEW o \in RefOps, UNCHANGED req, FindReferralById(o)
  PROVE  SoundInv'
<1>1. /\ op \in [RefOps -> RefOp] /\ op[o] \in RefOp /\ op[o].referee \in Wallets
      /\ UNCHANGED <<req, history, referral>>
  BY ReferralTypes DEF OpReady, FindReferralById, tables
<1>2. PICK v \in Wallets : v = op[o].referee
  BY <1>1
<1>3. CASE referral[v] # Null /\ referral[v].status = "pending"
  <2>1. PICK ref : ref = referral[v]
    OBVIOUS
  <2>2. op' = [op EXCEPT ![o].pc = "threshold", ![o].found = ref]
    BY <1>2, <1>3, <2>1 DEF FindReferralById
  <2>3. PICK q : q = [op[o] EXCEPT !.pc = "threshold", !.found = ref] /\ op' = [op EXCEPT ![o] = q]
    BY <1>1, <2>2
  <2>4. q.pc = "threshold" /\ q.found = ref /\ q.referee = v
    BY <1>1, <1>2, <2>3 DEF RefOp
  <2>5. Grown(history, history', referral, referral')
    BY <1>1 DEF Grown
  <2>6. SoundRows(referral', history')
    BY <1>1, <2>5, RowsStaySound
  <2>7. SoundOp(q, referral', history')
    BY <1>1, <1>3, <2>1, <2>4, <2>6 DEF SoundOp, SoundRows
  <2> QED BY <2>3, <2>5, <2>6, <2>7, OpMovesSoundly
<1>4. CASE ~ (referral[v] # Null /\ referral[v].status = "pending")
  <2>1. NextRow(o, op[o].todo)
    BY <1>2, <1>4 DEF FindReferralById
  <2> QED BY <1>1, <2>1, NextRowTurns, CarryOpSoundly
<1> QED BY <1>3, <1>4

LEMMA ThresholdSoundly ==
  ASSUME TypeInv, TypeInv', BackedInv, SoundInv, NEW o \in RefOps, UNCHANGED req, CheckThreshold(o)
  PROVE  SoundInv'
<1>1. /\ op \in [RefOps -> RefOp] /\ op[o] \in RefOp /\ op[o].referee \in Wallets
      /\ op[o].pc = "threshold" /\ UNCHANGED <<req, history, referral>>
  BY ReferralTypes DEF OpReady, CheckThreshold, tables
<1>2. PICK v \in Wallets : v = op[o].referee
  BY <1>1
<1>3. CASE balance[Spelled(v)] # Null /\ TotalShards(balance[Spelled(v)]) >= ActivationThreshold
  <2>1. PICK q : q = [op[o] EXCEPT !.pc = "activate"] /\ op' = [op EXCEPT ![o] = q]
    BY <1>1, <1>2, <1>3 DEF CheckThreshold
  <2>2. q.pc = "activate" /\ q.found = op[o].found /\ q.referee = op[o].referee
    BY <1>1, <2>1 DEF RefOp
  <2>3. Grown(history, history', referral, referral')
    BY <1>1 DEF Grown
  <2>4. SoundRows(referral', history')
    BY <1>1, <2>3, RowsStaySound
  <2>5. Reached(history, v)
    BY <1>3, BalanceReaches
  <2>6. SoundOp(op[o], referral, history)
    BY DEF SoundInv
  <2>7. SoundOp(q, referral', history')
    BY <1>1, <1>2, <2>2, <2>5, <2>6 DEF SoundOp
  <2> QED BY <2>1, <2>3, <2>4, <2>7, OpMovesSoundly
<1>4. CASE ~ (balance[Spelled(v)] # Null /\ TotalShards(balance[Spelled(v)]) >= ActivationThreshold)
  <2>1. NextRow(o, op[o].todo)
    BY <1>2, <1>4 DEF CheckThreshold
  <2> QED BY <1>1, <2>1, NextRowTurns, CarryOpSoundly
<1> QED BY <1>3, <1>4

LEMMA ActivateSoundly ==
  ASSUME TypeInv, TypeInv', SoundInv, NEW o \in RefOps, UNCHANGED req, WriteActivated(o)
  PROVE  SoundInv'
<1>1. /\ op[o].referee \in Wallets /\ op[o].found \in Referral /\ op[o].pc = "activate" /\ UNCHANGED history
  BY ReferralTypes DEF OpReady, RefOp, WriteActivated
<1>2. PICK v \in Wallets, found \in Referral : v = op[o].referee /\ found = op[o].found
  BY <1>1
<1>3. Sound(found, referral, history, v) /\ Reached(history, v)
  BY <1>1, <1>2 DEF SoundInv, SoundOp
<1>4. PICK row : row = Activated(found)
  OBVIOUS
<1>5. row.earned = found.earned /\ row.referrer = found.referrer
  BY <1>2, <1>4 DEF Activated, Referral
<1>6. row \in Referral
  <2>1. day \in Nat
    BY DaysAssumption DEF TypeInv, TypeOK, TablesType, Days
  <2> QED BY <1>2, <1>4, <2>1, ReferralUpdates
<1>7. referral' = [referral EXCEPT ![v] = row]
  BY <1>2, <1>4 DEF WriteActivated
<1>8. Grown(history, history', referral, referral') /\ SoundRows(referral', history')
  BY <1>1, <1>3, <1>5, <1>6, <1>7, RowWritten DEF Sound
<1>9. PICK q : op' = [op EXCEPT ![o] = q] /\ q.pc \in {"idle", "find"}
  BY NextRowTurns DEF WriteActivated
<1> QED BY <1>8, <1>9, OpMovesSoundly DEF SoundOp

LEMMA ScanSoundly ==
  ASSUME TypeInv, TypeInv', SoundInv, NEW o \in RefOps, UNCHANGED req, FindExpiringBonuses(o)
  PROVE  SoundInv'
<1>1. /\ op \in [RefOps -> RefOp] /\ op[o] \in RefOp /\ UNCHANGED <<req, history, referral>>
  BY ReferralTypes DEF FindExpiringBonuses, tables
<1>2. CASE ExpiringBonuses = {}
  <2>1. op' = [op EXCEPT ![o] = IdleOp] /\ IdleOp.pc = "idle"
    BY <1>2 DEF FindExpiringBonuses, End, IdleOp
  <2> QED BY <1>1, <2>1, CarryOpSoundly
<1>3. CASE ExpiringBonuses # {}
  <2>1. PICK rows : rows = [v \in Wallets |-> IF v \in ExpiringBonuses THEN referral[v] ELSE Null]
    OBVIOUS
  <2>2. op' = [op EXCEPT ![o].pc = "expire", ![o].todo = ExpiringBonuses, ![o].rows = rows]
    BY <1>3, <2>1 DEF FindExpiringBonuses
  <2>3. PICK q : /\ q = [op[o] EXCEPT !.pc = "expire", !.todo = ExpiringBonuses, !.rows = rows]
                 /\ op' = [op EXCEPT ![o] = q]
    BY <1>1, <2>2
  <2>4. q.pc = "expire" /\ q.todo = ExpiringBonuses /\ q.rows = rows
    BY <1>1, <2>3 DEF RefOp
  <2>5. Grown(history, history', referral, referral')
    BY <1>1 DEF Grown
  <2>6. SoundRows(referral', history')
    BY <1>1, <2>5, RowsStaySound
  <2>7. \A v \in ExpiringBonuses : /\ v \in Wallets /\ referral[v] # Null /\ referral[v].status # "pending"
                                   /\ rows[v] = referral[v]
    BY <2>1 DEF ExpiringBonuses
  <2>8. SoundOp(q, referral', history')
    BY <1>1, <2>4, <2>6, <2>7 DEF SoundOp, SoundRows
  <2> QED BY <2>3, <2>5, <2>6, <2>8, OpMovesSoundly
<1> QED BY <1>2, <1>3

LEMMA ExpireSoundly ==
  ASSUME TypeInv, TypeInv', SoundInv, NEW o \in RefOps, UNCHANGED req, WriteExpired(o)
  PROVE  SoundInv'
<1>1. /\ op \in [RefOps -> RefOp] /\ op[o] \in RefOp /\ op[o].pc = "expire" /\ UNCHANGED history
      /\ history \in Rows /\ history' \in Rows
  BY ReferralTypes DEF WriteExpired, TypeInv, TypeOK, TablesType, Rows
<1>2. PICK v \in op[o].todo :
        /\ referral' = [referral EXCEPT ![v] = Expired(op[o].rows[v])]
        /\ IF op[o].todo = {v} THEN End(o)
           ELSE op' = [op EXCEPT ![o].todo = @ \ {v}, ![o].rows[v] = Null]
  BY DEF WriteExpired
<1>3. \A x \in op[o].todo : x \in Wallets /\ op[o].rows[x] \in Referral
  BY <1>1, ReferralTypes DEF OpReady, RefOp
<1>4. \A x \in op[o].todo : Sound(op[o].rows[x], referral, history, x) /\ op[o].rows[x].status # "pending"
  BY <1>1 DEF SoundInv, SoundOp
<1>5. PICK read \in Referral : read = op[o].rows[v]
  BY <1>3
<1>6. PICK row : row = Expired(read)
  OBVIOUS
<1>7. row \in Referral /\ row.earned = read.earned /\ row.referrer = read.referrer
  BY <1>6 DEF Expired, Referral
<1>8. Grown(history, history', referral, referral') /\ SoundRows(referral', history')
  <2>1. v \in Wallets /\ referral' = [referral EXCEPT ![v] = row]
    BY <1>2, <1>3, <1>5, <1>6
  <2>2. Sound(read, referral, history, v) /\ read.status # "pending"
    BY <1>4, <1>5
  <2> QED BY <1>1, <1>7, <2>1, <2>2, RowWritten DEF Sound
<1>9. CASE op[o].todo = {v}
  <2>1. op' = [op EXCEPT ![o] = IdleOp] /\ IdleOp.pc = "idle"
    BY <1>2, <1>9 DEF End, IdleOp
  <2> QED BY <1>8, <2>1, OpMovesSoundly DEF SoundOp
<1>10. CASE op[o].todo # {v}
  <2>1. op' = [op EXCEPT ![o].todo = @ \ {v}, ![o].rows[v] = Null]
    BY <1>2, <1>10
  <2>2. PICK q : q = [op[o] EXCEPT !.todo = op[o].todo \ {v}, !.rows = [op[o].rows EXCEPT ![v] = Null]]
    OBVIOUS
  <2>3. /\ q.pc = "expire" /\ q.todo = op[o].todo \ {v}
        /\ q.rows = [op[o].rows EXCEPT ![v] = Null]
    BY <1>1, <2>2 DEF RefOp
  <2>4. op' = [op EXCEPT ![o] = q]
    BY <1>1, <2>1, <2>2 DEF RefOp
  <2>5. ASSUME NEW x \in q.todo PROVE Sound(q.rows[x], referral', history', x) /\ q.rows[x].status # "pending"
    <3>1. x \in op[o].todo /\ x # v
      BY <2>3
    <3>2. q.rows[x] = op[o].rows[x]
      BY <1>1, <1>3, <2>3, <3>1 DEF RefOp
    <3> QED BY <1>1, <1>3, <1>4, <1>8, <3>1, <3>2, SoundGrows
  <2>6. SoundOp(q, referral', history')
    BY <2>3, <2>5 DEF SoundOp
  <2> QED BY <1>8, <2>4, <2>6, OpMovesSoundly
<1> QED BY <1>9, <1>10

LEMMA SoundStep ==
  ASSUME TypeInv, TypeInv', BackedInv, SoundInv, [Next]_vars
  PROVE  SoundInv'
<1>1. ASSUME NEW r \in Requests, Arrive(r) \/ Proceed(r) \/ Fail(r), UNCHANGED op PROVE SoundInv'
  <2>1. CASE ReadOwnReferral(r)
    BY <1>1, <2>1, ReadOwnSoundly
  <2>2. CASE RecordHistory(r)
    BY <1>1, <2>2, RecordSoundly
  <2>3. CASE AddEarnedShards(r)
    BY <1>1, <2>3, EarnSoundly
  <2>4. CASE ~ (ReadOwnReferral(r) \/ RecordHistory(r) \/ AddEarnedShards(r))
    BY <1>1, <2>4, CarryingSteps DEF Proceed
  <2> QED BY <2>1, <2>2, <2>3, <2>4
<1>2. ASSUME NEW o \in RefOps, RefStart(o) \/ RefProceed(o) \/ Abandon(o) \/ SkipRow(o), UNCHANGED req
      PROVE  SoundInv'
  BY <1>2, CarryingOps, InsertSoundly, FindSoundly, ThresholdSoundly, ActivateSoundly,
     ScanSoundly, ExpireSoundly DEF RefProceed
<1>3. CASE UNCHANGED <<history, referral, req, op>>
  BY <1>3 DEF SoundInv
<1>4. CASE World /\ UNCHANGED op
  <2>1. UNCHANGED <<history, referral, req>>
    BY <1>4 DEF World, Midnight, LoadSeason, WriteSeason, DropSeason, SyncVaultPositions, DistributeReward, tables, calcVars
  <2> QED BY <1>3, <1>4, <2>1
<1>5. CASE UNCHANGED vars
  BY <1>3, <1>5 DEF vars, tables, calcVars
<1>6. CASE CalcStep /\ UNCHANGED op
  BY <1>1, <1>6 DEF CalcStep
<1>7. CASE RefStep /\ UNCHANGED calcVars
  BY <1>2, <1>7 DEF RefStep, calcVars
<1> QED BY <1>4, <1>5, <1>6, <1>7 DEF Next

LEMMA SoundAlways == Spec => [](TypeInv /\ LedgerInv /\ RecordedInv /\ BackedInv /\ SoundInv)
<1>1. SoundInv /\ TypeInv /\ BackedInv /\ [Next]_vars /\ TypeInv' => SoundInv'
  BY SoundStep
<1> QED BY <1>1, SoundInit, BackedAlways, TypeStep, PTL DEF Spec

\* What a referral row accumulates is covered by the referral shards recorded for its
\* referee, although the row is overwritten, whole, by executions that read it before.
THEOREM EarnedShardsCovered == Spec => []EarnedShardsBacked
<1>1. SoundInv => EarnedShardsBacked
  BY SumsMeant, CategoriesAre DEF SoundInv, SoundRows, Sound, EarnedShardsBacked
<1> QED BY <1>1, SoundAlways, PTL

\* A referral that is or was active belongs to a referee whose days reach the threshold,
\* whichever path activated it and whatever stale row was written over it since.
THEOREM ActivationsEarned == Spec => []ActivationEarned
<1>1. TypeInv /\ SoundInv => ActivationEarned
  <2>1. SUFFICES ASSUME TypeInv, SoundInv, NEW v \in Wallets, referral[v] # Null, referral[v].status # "pending"
                 PROVE  SumFunctionOnSet([c \in Categories |-> EarnedBy(v, c)], Categories) >= ActivationThreshold
    BY DEF ActivationEarned
  <2>2. Reached(history, v)
    BY <2>1 DEF SoundInv, SoundRows, Sound
  <2>3. [c \in Categories |-> EarnedBy(v, c)] = [c \in Categories |-> Earnings(history, v, c)]
    BY DEF EarnedBy, Earnings
  <2>4. history \in Rows
    BY <2>1, LedgerTypes
  <2> QED BY <2>2, <2>3, <2>4, ReachedMeant
<1> QED BY <1>1, SoundAlways, PTL

-----------------------------------------------------------------------------
(* The referral shards of a day.  Until it records the day, an execution has counted each *)
(* referee it has visited at most once, and those it has still to visit not at all.       *)

MadeBy(t, w) == {v \in Wallets : t[v] # Null /\ t[v].referrer = w}
GivenBy(h, v, d) ==
  LET row == h[<<Spelled(v), d>>] IN IF row = Null THEN 0 ELSE ReferrerBonus(TotalShards(row))
Bonuses(h, d, S) == SumFunctionOnSet([v \in S |-> GivenBy(h, v, d)], S)

RowBacked(k, h, t) ==
  h[k] # Null => h[k].referral <= Bonuses(h, k[2], MadeBy(t, k[1].wallet))

Counts(q, h, t) ==
  /\ (q.pc \in Reading \ {"bonuses"} => q.bonus = 0)
  /\ (q.pc = "bonuses" => /\ q.refs \subseteq MadeBy(t, q.addr.wallet)
                          /\ q.bonus <= Bonuses(h, q.day, MadeBy(t, q.addr.wallet) \ q.refs))

BonusInv ==
  /\ \A k \in Keys : RowBacked(k, history, referral)
  /\ \A r \in Requests : Counts(req[r], history, referral)

LEMMA GivenType ==
  ASSUME NEW h \in Rows, NEW v \in Wallets, NEW d \in Days
  PROVE  GivenBy(h, v, d) \in Nat
<1>1. PICK row \in Shards \cup {Null} : row = h[<<Spelled(v), d>>]
  BY SpelledType DEF Rows, Keys
<1>2. CASE row = Null
  BY <1>1, <1>2 DEF GivenBy
<1>3. CASE row \in Shards
  BY <1>1, <1>3, NullIsNoRow, TotalType, ReferrerBonusType DEF GivenBy
<1> QED BY <1>2, <1>3

LEMMA BonusesType ==
  ASSUME NEW h \in Rows, NEW d \in Days, NEW S \in SUBSET Wallets
  PROVE  Bonuses(h, d, S) \in Nat /\ IsFiniteSet(S)
<1>1. IsFiniteSet(S)
  BY AddressAssumption, FS_Subset
<1>2. \A v \in S : GivenBy(h, v, d) \in Nat
  BY GivenType
<1> QED BY <1>1, <1>2, SumNat DEF Bonuses

LEMMA BonusesGrow ==
  ASSUME NEW h \in Rows, NEW g \in Rows, \A k \in Keys : h[k] # Null => g[k] = h[k],
         NEW d \in Days, NEW S \in SUBSET Wallets, NEW T \in SUBSET Wallets, S \subseteq T
  PROVE  Bonuses(h, d, S) <= Bonuses(g, d, T)
<1> DEFINE f1 == [v \in S |-> GivenBy(h, v, d)]
           f2 == [v \in T |-> GivenBy(g, v, d)]
<1>1. \A v \in S : GivenBy(h, v, d) <= GivenBy(g, v, d)
  <2>1. TAKE v \in S
  <2>2. <<Spelled(v), d>> \in Keys
    BY SpelledType DEF Keys
  <2>3. GivenBy(h, v, d) \in Nat /\ GivenBy(g, v, d) \in Nat
    BY GivenType
  <2>4. CASE h[<<Spelled(v), d>>] = Null
    BY <2>3, <2>4 DEF GivenBy
  <2>5. CASE h[<<Spelled(v), d>>] # Null
    BY <2>2, <2>3, <2>5 DEF GivenBy
  <2> QED BY <2>4, <2>5
<1>2. \A v \in S : f1[v] \in Int /\ f2[v] \in Int /\ f1[v] <= f2[v]
  BY <1>1, GivenType
<1>3. \A v \in T : f2[v] \in Nat
  BY GivenType
<1> HIDE DEF f1, f2
<1>4. IsFiniteSet(S) /\ IsFiniteSet(T)
  BY AddressAssumption, FS_Subset
<1>5. SumFunctionOnSet(f1, S) <= SumFunctionOnSet(f2, S)
  BY <1>2, <1>4, SumIncreases
<1>6. SumFunctionOnSet(f2, S) <= SumFunctionOnSet(f2, T)
  BY <1>3, <1>4, SumOfSubset
<1>7. /\ SumFunctionOnSet(f1, S) \in Int /\ SumFunctionOnSet(f2, S) \in Int
      /\ SumFunctionOnSet(f2, T) \in Int
  BY <1>2, <1>3, <1>4, SumType
<1> QED BY <1>5, <1>6, <1>7 DEF f1, f2, Bonuses

LEMMA BonusesOneMore ==
  ASSUME NEW h \in Rows, NEW d \in Days, NEW T \in SUBSET Wallets, NEW v \in T
  PROVE  Bonuses(h, d, T) = GivenBy(h, v, d) + Bonuses(h, d, T \ {v})
<1> DEFINE f1 == [x \in T |-> GivenBy(h, x, d)]
           f2 == [x \in T \ {v} |-> GivenBy(h, x, d)]
<1>1. \A x \in T : f1[x] \in Nat
  BY GivenType
<1>2. \A x \in T \ {v} : f1[x] \in Int /\ f2[x] \in Int /\ f1[x] <= f2[x] /\ f2[x] <= f1[x]
  BY GivenType
<1>3. f1[v] = GivenBy(h, v, d)
  OBVIOUS
<1> HIDE DEF f1, f2
<1>4. IsFiniteSet(T) /\ IsFiniteSet(T \ {v})
  BY AddressAssumption, FS_Subset
<1>5. SumFunctionOnSet(f1, T) = f1[v] + SumFunctionOnSet(f1, T \ {v})
  BY <1>1, <1>4, SumOfOneMore
<1>6. /\ SumFunctionOnSet(f1, T \ {v}) <= SumFunctionOnSet(f2, T \ {v})
      /\ SumFunctionOnSet(f2, T \ {v}) <= SumFunctionOnSet(f1, T \ {v})
  BY <1>2, <1>4, SumIncreases
<1>7. SumFunctionOnSet(f1, T \ {v}) \in Int /\ SumFunctionOnSet(f2, T \ {v}) \in Int
  BY <1>2, <1>4, SumType
<1>8. SumFunctionOnSet(f1, T \ {v}) = SumFunctionOnSet(f2, T \ {v})
  BY <1>6, <1>7
<1> QED BY <1>3, <1>5, <1>8 DEF f1, f2, Bonuses

LEMMA MadeByGrows ==
  ASSUME NEW h, NEW g, NEW t, NEW u, Grown(h, g, t, u), NEW w
  PROVE  MadeBy(t, w) \subseteq MadeBy(u, w) /\ MadeBy(u, w) \subseteq Wallets
BY DEF Grown, MadeBy

LEMMA CountsGrow ==
  ASSUME NEW h \in Rows, NEW g \in Rows, NEW t, NEW u, Grown(h, g, t, u),
         NEW q \in Request, q.pc # "idle" => q.day \in Days, Counts(q, h, t)
  PROVE  Counts(q, g, u)
<1>1. SUFFICES ASSUME q.pc = "bonuses"
               PROVE  /\ q.refs \subseteq MadeBy(u, q.addr.wallet)
                      /\ q.bonus <= Bonuses(g, q.day, MadeBy(u, q.addr.wallet) \ q.refs)
  BY DEF Counts
<1>2. PICK T, U \in SUBSET Wallets :
        T = MadeBy(t, q.addr.wallet) \ q.refs /\ U = MadeBy(u, q.addr.wallet) \ q.refs
  BY DEF MadeBy
<1>3. T \subseteq U /\ q.refs \subseteq MadeBy(u, q.addr.wallet)
  BY <1>1, <1>2, MadeByGrows DEF Counts
<1>4. /\ Bonuses(h, q.day, T) <= Bonuses(g, q.day, U) /\ Bonuses(h, q.day, T) \in Nat
      /\ Bonuses(g, q.day, U) \in Nat /\ q.bonus \in Nat
  BY <1>1, <1>2, <1>3, BonusesGrow, BonusesType DEF Grown, Request
<1>5. q.bonus <= Bonuses(h, q.day, T)
  BY <1>1, <1>2 DEF Counts
<1> QED BY <1>2, <1>3, <1>4, <1>5

LEMMA RowStaysBacked ==
  ASSUME NEW h \in Rows, NEW g \in Rows, NEW t, NEW u, Grown(h, g, t, u),
         NEW k \in Keys, g[k] = h[k], RowBacked(k, h, t)
  PROVE  RowBacked(k, g, u)
<1>1. SUFFICES ASSUME h[k] # Null PROVE h[k].referral <= Bonuses(g, k[2], MadeBy(u, k[1].wallet))
  BY DEF RowBacked
<1>2. PICK T, U \in SUBSET Wallets : T = MadeBy(t, k[1].wallet) /\ U = MadeBy(u, k[1].wallet)
  BY DEF MadeBy
<1>3. T \subseteq U /\ k[2] \in Days /\ h[k].referral \in Nat
  BY <1>1, <1>2, MadeByGrows DEF Keys, Rows, Shards
<1>4. /\ Bonuses(h, k[2], T) <= Bonuses(g, k[2], U) /\ Bonuses(h, k[2], T) \in Nat
      /\ Bonuses(g, k[2], U) \in Nat
  BY <1>3, BonusesGrow, BonusesType DEF Grown
<1>5. h[k].referral <= Bonuses(h, k[2], T)
  BY <1>1, <1>2 DEF RowBacked
<1> QED BY <1>2, <1>3, <1>4, <1>5

LEMMA BonusInit == Init => BonusInv
BY DEF Init, TablesInit, CalcInit, Idle, BonusInv, RowBacked, Counts, Reading

-----------------------------------------------------------------------------
\* Every step only adds to the tables.
LEMMA StepGrows ==
  ASSUME TypeInv, SoundInv, [Next]_vars
  PROVE  Grown(history, history', referral, referral')
<1>0. /\ history \in Rows /\ referral \in ReferralRows
  BY LedgerTypes, ReferralTypes
<1>1. ASSUME NEW v \in Wallets, NEW ref \in Referral, Sound(ref, referral, history, v),
             NEW row \in Referral, row.referrer = ref.referrer, UNCHANGED history,
             referral' = [referral EXCEPT ![v] = row]
      PROVE  Grown(history, history', referral, referral')
  BY <1>0, <1>1, NullIsNoRow DEF Grown, Sound, ReferralRows
<1>2. CASE UNCHANGED <<history, referral>>
  BY <1>2 DEF Grown
<1>3. ASSUME NEW r \in Requests, RecordHistory(r) PROVE Grown(history, history', referral, referral')
  <2>1. UNCHANGED referral /\ KeyOf(req[r]) \in Keys
    BY <1>3, LedgerTypes DEF RecordHistory
  <2>2. PICK key \in Keys : key = KeyOf(req[r])
    BY <2>1
  <2>3. \/ history' = history
        \/ history[key] = Null /\ history' = [history EXCEPT ![key] = Earned(req[r])]
    BY <1>3, <2>2 DEF RecordHistory
  <2> QED BY <1>0, <2>1, <2>3 DEF Grown, Rows
<1>4. ASSUME NEW r \in Requests, AddEarnedShards(r) PROVE Grown(history, history', referral, referral')
  <2>1. /\ req[r] \in Request /\ req[r].pc = "earn" /\ req[r].own # Null
        /\ req[r].addr.wallet \in Wallets /\ UNCHANGED history
    BY <1>4, LedgerTypes, LowerCaseType DEF AddEarnedShards, TypeInv, InFlight
  <2>2. PICK w \in Wallets, own \in Referral, n \in Nat : w = req[r].addr.wallet /\ own = req[r].own /\ n = req[r].bonus
    BY <2>1 DEF Request
  <2>3. PICK row : row = Earning(own, n)
    OBVIOUS
  <2>4. row \in Referral /\ row.referrer = own.referrer
    BY <2>2, <2>3 DEF Earning, Referral
  <2>5. Sound(own, referral, history, w)
    BY <2>1, <2>2 DEF SoundInv, SoundRequest
  <2>6. referral' = [referral EXCEPT ![w] = row]
    BY <1>4, <2>2, <2>3 DEF AddEarnedShards
  <2> QED BY <1>1, <2>1, <2>4, <2>5, <2>6
<1>5. ASSUME NEW o \in RefOps, WriteActivated(o) PROVE Grown(history, history', referral, referral')
  <2>1. /\ op[o].referee \in Wallets /\ op[o].found \in Referral /\ op[o].pc = "activate" /\ UNCHANGED history
    BY <1>5, ReferralTypes DEF OpReady, RefOp, WriteActivated
  <2>2. PICK v \in Wallets, found \in Referral : v = op[o].referee /\ found = op[o].found
    BY <2>1
  <2>3. PICK row : row = Activated(found)
    OBVIOUS
  <2>4. row.referrer = found.referrer
    BY <2>2, <2>3 DEF Activated, Referral
  <2>5. row \in Referral
    <3>1. day \in Nat
      BY DaysAssumption DEF TypeInv, TypeOK, TablesType, Days
    <3> QED BY <2>2, <2>3, <3>1, ReferralUpdates
  <2>6. Sound(found, referral, history, v)
    BY <2>1, <2>2 DEF SoundInv, SoundOp
  <2>7. referral' = [referral EXCEPT ![v] = row]
    BY <1>5, <2>2, <2>3 DEF WriteActivated
  <2> QED BY <1>1, <2>1, <2>4, <2>5, <2>6, <2>7
<1>6. ASSUME NEW o \in RefOps, WriteExpired(o) PROVE Grown(history, history', referral, referral')
  <2>1. op[o] \in RefOp /\ OpReady(op[o]) /\ op[o].pc = "expire" /\ UNCHANGED history
    BY <1>6, ReferralTypes DEF WriteExpired
  <2>2. PICK v \in op[o].todo : referral' = [referral EXCEPT ![v] = Expired(op[o].rows[v])]
    BY <1>6 DEF WriteExpired
  <2>3. PICK read \in Referral : v \in Wallets /\ read = op[o].rows[v]
    BY <2>1 DEF OpReady, RefOp
  <2>4. PICK row : row = Expired(read)
    OBVIOUS
  <2>5. row \in Referral /\ row.referrer = read.referrer
    BY <2>4 DEF Expired, Referral
  <2>6. Sound(read, referral, history, v)
    BY <2>1, <2>3 DEF SoundInv, SoundOp
  <2> QED BY <1>1, <2>1, <2>2, <2>3, <2>4, <2>5, <2>6
<1>7. ASSUME NEW o \in RefOps, InsertReferral(o) PROVE Grown(history, history', referral, referral')
  <2>1. UNCHANGED history /\ op[o].referee \in Wallets
    BY <1>7, ReferralTypes DEF InsertReferral, OpReady
  <2>2. PICK v \in Wallets : v = op[o].referee
    BY <2>1
  <2>3. PICK row : row = NewReferral(op[o].referrer)
    OBVIOUS
  <2>4. referral' = IF referral[v] = Null THEN [referral EXCEPT ![v] = row] ELSE referral
    BY <1>7, <2>2, <2>3 DEF InsertReferral
  <2> QED BY <1>0, <2>1, <2>4 DEF Grown, ReferralRows
<1>8. CASE CalcStep
  BY <1>2, <1>3, <1>4, <1>8 DEF CalcStep, Arrive, Proceed, Fail, CheckSeason, FindExistingHistory,
     ReadVaultPositions, ReadContributions, ReadOwnReferral, ReadActiveReferrals, AddReferralBonus,
     ReadBalance, UpdateBalance, CreateBalance, Respond, tables
<1>9. CASE World \/ UNCHANGED vars
  BY <1>2, <1>9 DEF World, Midnight, LoadSeason, WriteSeason, DropSeason, SyncVaultPositions, DistributeReward, vars, tables
<1>10. CASE RefStep
  BY <1>2, <1>5, <1>6, <1>7, <1>10 DEF RefStep, RefStart, RefProceed, CreateReferral, ActivateReferral,
     CheckAndActivatePending, ExpireOutdatedBonuses, CheckExisting, CheckCount, CheckRefereeBalance,
     FindPendingActivations, FindReferralById, CheckThreshold, FindExpiringBonuses, Abandon, SkipRow,
     Start, tables
<1> QED BY <1>8, <1>9, <1>10 DEF Next

\* A step that records no day and moves at most one request.
LEMMA MoveKeepsBonuses ==
  ASSUME TypeInv, TypeInv', BonusInv, Grown(history, history', referral, referral'), UNCHANGED history,
         NEW r \in Requests, NEW q, req' = [req EXCEPT ![r] = q], Counts(q, history', referral')
  PROVE  BonusInv'
<1>1. history \in Rows /\ history' \in Rows /\ \A s \in Requests : req'[s] = IF s = r THEN q ELSE req[s]
  BY LedgerTypes DEF TypeInv, TypeOK, TablesType, Rows
<1>2. ASSUME NEW s \in Requests PROVE Counts(req[s], history', referral')
  <2>1. req[s] \in Request /\ (req[s].pc # "idle" => req[s].day \in Days)
    BY LedgerTypes DEF TypeInv, InFlight
  <2>2. Counts(req[s], history, referral)
    BY DEF BonusInv
  <2> QED BY <1>1, <2>1, <2>2, CountsGrow
<1>3. \A s \in Requests : Counts(req'[s], history', referral')
  BY <1>1, <1>2
<1>4. \A k \in Keys : RowBacked(k, history', referral')
  BY <1>1, RowStaysBacked DEF BonusInv
<1> QED BY <1>3, <1>4 DEF BonusInv

\* The steps before the loop count nothing, those after it count no more.
LEMMA CountlessSteps ==
  ASSUME TypeInv, BonusInv, NEW r \in Requests,
         \/ Arrive(r) \/ CheckSeason(r) \/ FindExistingHistory(r)
         \/ ReadVaultPositions(r) \/ ReadContributions(r) \/ ReadOwnReferral(r)
         \/ ReadBalance(r) \/ UpdateBalance(r) \/ CreateBalance(r)
         \/ AddEarnedShards(r) \/ Respond(r) \/ Fail(r)
  PROVE  \E q : req' = [req EXCEPT ![r] = q] /\ q.pc # "bonuses" /\ (q.pc \in Reading => q.bonus = 0)
<1>0. req \in [Requests -> Request] /\ req[r] \in Request /\ Counts(req[r], history, referral)
  BY LedgerTypes DEF BonusInv
<1>1. ASSUME NEW q, req' = [req EXCEPT ![r] = q], q.pc # "bonuses", q.pc \in Reading => q.bonus = 0
      PROVE  \E p : req' = [req EXCEPT ![r] = p] /\ p.pc # "bonuses" /\ (p.pc \in Reading => p.bonus = 0)
  BY <1>1
<1>2. CASE req' = [req EXCEPT ![r] = Idle]
  <2>1. Idle.pc = "idle"
    BY DEF Idle
  <2> QED BY <1>1, <1>2, <2>1 DEF Reading
<1>3. CASE Arrive(r)
  <2>1. PICK a : req' = [req EXCEPT ![r] = [Idle EXCEPT !.pc = "season", !.addr = a, !.day = day]]
    BY <1>3 DEF Arrive
  <2>2. PICK q : q = [Idle EXCEPT !.pc = "season", !.addr = a, !.day = day]
    OBVIOUS
  <2>3. q.pc = "season" /\ q.bonus = 0
    BY <2>2 DEF Idle
  <2> QED BY <1>1, <2>1, <2>2, <2>3
<1>4. CASE Respond(r) \/ Fail(r)
  BY <1>2, <1>4 DEF Respond, Fail
<1>5. CASE CheckSeason(r)
  <2>1. CASE season = "active"
    <3>1. PICK q : q = [req[r] EXCEPT !.pc = "history"] /\ req' = [req EXCEPT ![r] = q]
      BY <1>0, <1>5, <2>1 DEF CheckSeason
    <3>2. q.pc = "history" /\ q.bonus = 0
      BY <1>0, <1>5, <3>1 DEF Request, CheckSeason, Counts, Reading
    <3> QED BY <1>1, <3>1, <3>2
  <2>2. CASE season # "active"
    BY <1>0, <1>2, <1>5, <2>2 DEF CheckSeason
  <2> QED BY <2>1, <2>2
<1>6. CASE FindExistingHistory(r)
  <2>1. PICK row : row = FindHistory(req[r].addr, req[r].day)
    OBVIOUS
  <2>2. req[r].pc = "history"
    BY <1>6 DEF FindExistingHistory
  <2>3. CASE row = Null
    <3>1. PICK q : q = [req[r] EXCEPT !.pc = "vaults"] /\ req' = [req EXCEPT ![r] = q]
      BY <1>0, <1>6, <2>1, <2>3 DEF FindExistingHistory
    <3>2. q.pc = "vaults" /\ q.bonus = 0
      BY <1>0, <2>2, <3>1 DEF Request, Counts, Reading
    <3> QED BY <1>1, <2>2, <3>1, <3>2
  <2>4. CASE row # Null
    <3>1. PICK q : q = [req[r] EXCEPT !.pc = "respond", !.result = row] /\ req' = [req EXCEPT ![r] = q]
      BY <1>0, <1>6, <2>1, <2>4 DEF FindExistingHistory
    <3>2. q.pc = "respond" /\ q.bonus = 0
      BY <1>0, <2>2, <3>1 DEF Request, Counts, Reading
    <3> QED BY <1>1, <2>2, <3>1, <3>2
  <2> QED BY <2>3, <2>4
<1>7. CASE ReadVaultPositions(r)
  <2>1. PICK q : /\ q = [req[r] EXCEPT !.pc = "contributions", !.staking = stake[req[r].addr.wallet]]
                 /\ req' = [req EXCEPT ![r] = q]
    BY <1>0, <1>7 DEF ReadVaultPositions
  <2>2. q.pc = "contributions" /\ q.bonus = 0
    BY <1>0, <1>7, <2>1 DEF Request, ReadVaultPositions, Counts, Reading
  <2> QED BY <1>1, <2>1, <2>2
<1>8. CASE ReadContributions(r)
  <2>1. PICK q : /\ q = [req[r] EXCEPT !.pc = "ownReferral", !.developer = dev[req[r].addr.wallet][req[r].day]]
                 /\ req' = [req EXCEPT ![r] = q]
    BY <1>0, <1>8 DEF ReadContributions
  <2>2. q.pc = "ownReferral" /\ q.bonus = 0
    BY <1>0, <1>8, <2>1 DEF Request, ReadContributions, Counts, Reading
  <2> QED BY <1>1, <2>1, <2>2
<1>9. CASE ReadOwnReferral(r)
  <2>1. PICK ref, b : req' = [req EXCEPT ![r].pc = "activeReferrals", ![r].own = ref, ![r].boosted = b]
    BY <1>9 DEF ReadOwnReferral
  <2>2. PICK q : /\ q = [req[r] EXCEPT !.pc = "activeReferrals", !.own = ref, !.boosted = b]
                 /\ req' = [req EXCEPT ![r] = q]
    BY <1>0, <2>1
  <2>3. req[r].pc = "ownReferral"
    BY <1>9 DEF ReadOwnReferral
  <2>4. q.pc = "activeReferrals" /\ q.bonus = 0
    BY <1>0, <2>2, <2>3 DEF Request, Counts, Reading
  <2> QED BY <1>1, <2>2, <2>4
<1>10. CASE ReadBalance(r)
  <2>1. PICK q : /\ q = [req[r] EXCEPT !.pc = "credit", !.seen = FindBalance(req[r].addr)]
                 /\ req' = [req EXCEPT ![r] = q]
    BY <1>0, <1>10 DEF ReadBalance
  <2>2. q.pc = "credit"
    BY <1>0, <2>1 DEF Request
  <2> QED BY <1>1, <2>1, <2>2 DEF Reading
<1>11. ASSUME NEW pc \in {"earn", "respond"}, req' = [req EXCEPT ![r].pc = pc]
       PROVE  \E q : req' = [req EXCEPT ![r] = q] /\ q.pc # "bonuses" /\ (q.pc \in Reading => q.bonus = 0)
  <2>1. PICK q : q = [req[r] EXCEPT !.pc = pc] /\ req' = [req EXCEPT ![r] = q]
    BY <1>0, <1>11
  <2>2. q.pc = pc
    BY <1>0, <2>1 DEF Request
  <2> QED BY <1>1, <1>11, <2>1, <2>2 DEF Reading
<1>12. CASE UpdateBalance(r) \/ CreateBalance(r)
  BY <1>2, <1>11, <1>12 DEF UpdateBalance, CreateBalance, Credit
<1>13. CASE AddEarnedShards(r)
  BY <1>11, <1>13 DEF AddEarnedShards
<1> QED BY <1>3, <1>4, <1>5, <1>6, <1>7, <1>8, <1>9, <1>10, <1>12, <1>13

LEMMA ReadActiveKeepsBonuses ==
  ASSUME TypeInv, TypeInv', BonusInv, NEW r \in Requests, ReadActiveReferrals(r)
  PROVE  BonusInv'
<1>1. /\ req \in [Requests -> Request] /\ req[r] \in Request /\ req[r].day \in Days
      /\ history \in Rows /\ req[r].pc = "activeReferrals" /\ req[r].bonus = 0
      /\ UNCHANGED <<history, referral>>
  BY LedgerTypes DEF ReadActiveReferrals, TypeInv, InFlight, BonusInv, Counts, Reading, tables
<1>2. PICK q : /\ q = [req[r] EXCEPT !.pc = "bonuses", !.refs = FindActiveByReferrer(req[r].addr)]
               /\ req' = [req EXCEPT ![r] = q]
  BY <1>1 DEF ReadActiveReferrals
<1>3. /\ q.pc = "bonuses" /\ q.addr = req[r].addr /\ q.day = req[r].day /\ q.bonus = 0
      /\ q.refs = FindActiveByReferrer(req[r].addr)
  BY <1>1, <1>2 DEF Request
<1>4. q.refs \subseteq MadeBy(referral, q.addr.wallet)
  BY <1>3 DEF FindActiveByReferrer, MadeBy
<1>5. MadeBy(referral, q.addr.wallet) \ q.refs \in SUBSET Wallets
  BY DEF MadeBy
<1>6. 0 <= Bonuses(history, q.day, MadeBy(referral, q.addr.wallet) \ q.refs)
  BY <1>1, <1>3, <1>5, BonusesType
<1>7. Counts(q, history', referral')
  BY <1>1, <1>3, <1>4, <1>6 DEF Counts
<1>8. Grown(history, history', referral, referral')
  BY <1>1 DEF Grown
<1> QED BY <1>1, <1>2, <1>7, <1>8, MoveKeepsBonuses

LEMMA AddBonusKeepsBonuses ==
  ASSUME TypeInv, TypeInv', BonusInv, NEW r \in Requests, AddReferralBonus(r)
  PROVE  BonusInv'
<1>1. /\ req \in [Requests -> Request] /\ req[r] \in Request /\ req[r].day \in Days
      /\ history \in Rows /\ req[r].pc = "bonuses" /\ Counts(req[r], history, referral)
      /\ UNCHANGED <<history, referral>>
  BY LedgerTypes DEF AddReferralBonus, TypeInv, InFlight, BonusInv, tables
<1>2. PICK d \in Days, R \in SUBSET Wallets, old \in Nat :
        d = req[r].day /\ R = req[r].refs /\ old = req[r].bonus
  BY <1>1 DEF Request
<1>3. PICK v \in R :
        LET row == history[<<Spelled(v), d>>]
            bonus == IF row = Null \/ balance[Spelled(v)] = Null THEN 0 ELSE ReferrerBonus(TotalShards(row))
        IN  req' = [req EXCEPT ![r].refs = @ \ {v}, ![r].bonus = @ + bonus]
  BY <1>2 DEF AddReferralBonus
<1>4. PICK n \in {0, GivenBy(history, v, d)} : req' = [req EXCEPT ![r].refs = @ \ {v}, ![r].bonus = @ + n]
  BY <1>3 DEF GivenBy
<1>5. PICK q : /\ q = [req[r] EXCEPT !.refs = @ \ {v}, !.bonus = @ + n]
               /\ req' = [req EXCEPT ![r] = q]
  BY <1>1, <1>4
<1>6. /\ q.pc = "bonuses" /\ q.addr = req[r].addr /\ q.day = d /\ q.bonus = old + n /\ q.refs = R \ {v}
  BY <1>1, <1>2, <1>5 DEF Request
<1>7. PICK made \in SUBSET Wallets : made = MadeBy(referral, q.addr.wallet)
  BY DEF MadeBy
<1>8. R \subseteq made /\ old <= Bonuses(history, d, made \ R)
  BY <1>1, <1>2, <1>6, <1>7 DEF Counts
<1>9. PICK T \in SUBSET Wallets : T = made \ (R \ {v})
  OBVIOUS
<1>10. v \in T /\ T \ {v} = made \ R /\ v \in Wallets
  BY <1>8, <1>9
<1>11. Bonuses(history, d, T) = GivenBy(history, v, d) + Bonuses(history, d, made \ R)
  BY <1>1, <1>10, BonusesOneMore
<1>12. Bonuses(history, d, made \ R) \in Nat /\ GivenBy(history, v, d) \in Nat
  BY <1>1, <1>10, BonusesType, GivenType
<1>13. q.bonus <= Bonuses(history, d, T)
  BY <1>4, <1>6, <1>8, <1>11, <1>12
<1>14. Counts(q, history', referral')
  BY <1>1, <1>6, <1>7, <1>8, <1>9, <1>13 DEF Counts
<1>15. Grown(history, history', referral, referral')
  BY <1>1 DEF Grown
<1> QED BY <1>1, <1>5, <1>14, <1>15, MoveKeepsBonuses

LEMMA RecordKeepsBonuses ==
  ASSUME TypeInv, TypeInv', BonusInv, NEW r \in Requests, RecordHistory(r)
  PROVE  BonusInv'
<1>1. /\ req \in [Requests -> Request] /\ req[r] \in Request /\ req[r].day \in Days
      /\ history \in Rows /\ history' \in Rows /\ KeyOf(req[r]) \in Keys
      /\ req[r].pc = "bonuses" /\ req[r].refs = {} /\ Counts(req[r], history, referral)
      /\ UNCHANGED referral
  BY LedgerTypes DEF RecordHistory, TypeInv, InFlight, BonusInv, TypeOK, TablesType, Rows
<1>2. PICK key \in Keys : key = KeyOf(req[r])
  BY <1>1
<1>3. CASE history[key] = Null
  <2>1. PICK q : /\ q = [req[r] EXCEPT !.pc = "balance", !.result = Earned(req[r])]
                 /\ req' = [req EXCEPT ![r] = q]
    BY <1>1, <1>2, <1>3 DEF RecordHistory
  <2>2. history' = [history EXCEPT ![key] = Earned(req[r])]
    BY <1>2, <1>3 DEF RecordHistory
  <2>3. q.pc = "balance"
    BY <1>1, <2>1 DEF Request
  <2>4. \A k \in Keys : history'[k] = IF k = key THEN Earned(req[r]) ELSE history[k]
    BY <1>1, <2>2 DEF Rows
  <2>5. Grown(history, history', referral, referral')
    BY <1>1, <1>3, <2>4 DEF Grown
  <2>6. ASSUME NEW s \in Requests PROVE Counts(req'[s], history', referral')
    <3>1. CASE s = r
      <4>1. req'[s] = q
        BY <1>1, <2>1, <3>1
      <4> QED BY <2>3, <4>1 DEF Counts, Reading
    <3>2. CASE s # r
      <4>1. /\ req'[s] = req[s] /\ req[s] \in Request /\ (req[s].pc # "idle" => req[s].day \in Days)
            /\ Counts(req[s], history, referral)
        BY <1>1, <2>1, <3>2, LedgerTypes DEF TypeInv, InFlight, BonusInv
      <4> QED BY <1>1, <2>5, <4>1, CountsGrow
    <3> QED BY <3>1, <3>2
  <2>7. RowBacked(key, history', referral')
    <3>1. PICK T \in SUBSET Wallets : T = MadeBy(referral, req[r].addr.wallet)
      BY DEF MadeBy
    <3>2. req[r].bonus <= Bonuses(history, req[r].day, T) /\ req[r].bonus \in Nat
      <4>1. T \ {} = T
        OBVIOUS
      <4> QED BY <1>1, <3>1, <4>1 DEF Counts, Request
    <3>3. /\ Bonuses(history, req[r].day, T) <= Bonuses(history', req[r].day, T)
          /\ Bonuses(history, req[r].day, T) \in Nat /\ Bonuses(history', req[r].day, T) \in Nat
      BY <1>1, <2>5, BonusesGrow, BonusesType DEF Grown
    <3>4. history'[key].referral = req[r].bonus /\ key[1] = req[r].addr /\ key[2] = req[r].day
      BY <1>2, <2>4 DEF Earned, KeyOf
    <3> QED BY <1>1, <3>1, <3>2, <3>3, <3>4 DEF RowBacked
  <2>8. ASSUME NEW k \in Keys, k # key PROVE RowBacked(k, history', referral')
    <3>1. history'[k] = history[k] /\ RowBacked(k, history, referral)
      BY <2>4, <2>8 DEF BonusInv
    <3> QED BY <1>1, <2>5, <3>1, RowStaysBacked
  <2> QED BY <2>6, <2>7, <2>8 DEF BonusInv
<1>4. CASE history[key] # Null
  <2>1. req' = [req EXCEPT ![r] = Idle] /\ UNCHANGED history
    BY <1>2, <1>4 DEF RecordHistory
  <2>2. Counts(Idle, history', referral')
    BY DEF Idle, Counts, Reading
  <2>3. Grown(history, history', referral, referral')
    BY <1>1, <2>1 DEF Grown
  <2> QED BY <2>1, <2>2, <2>3, MoveKeepsBonuses
<1> QED BY <1>3, <1>4

LEMMA BonusStep ==
  ASSUME TypeInv, TypeInv', SoundInv, BonusInv, [Next]_vars
  PROVE  BonusInv'
<1>0. Grown(history, history', referral, referral')
  BY StepGrows
<1>1. ASSUME NEW r \in Requests, Arrive(r) \/ Proceed(r) \/ Fail(r) PROVE BonusInv'
  <2>1. CASE ReadActiveReferrals(r)
    BY <2>1, ReadActiveKeepsBonuses
  <2>2. CASE AddReferralBonus(r)
    BY <2>2, AddBonusKeepsBonuses
  <2>3. CASE RecordHistory(r)
    BY <2>3, RecordKeepsBonuses
  <2>4. CASE ~ (ReadActiveReferrals(r) \/ AddReferralBonus(r) \/ RecordHistory(r))
    <3>1. PICK q : req' = [req EXCEPT ![r] = q] /\ q.pc # "bonuses" /\ (q.pc \in Reading => q.bonus = 0)
      BY <1>1, <2>4, CountlessSteps DEF Proceed
    <3>2. UNCHANGED history
      BY <1>1, <2>4 DEF Arrive, Proceed, Fail, CheckSeason, FindExistingHistory, ReadVaultPositions,
         ReadContributions, ReadOwnReferral, ReadBalance, UpdateBalance, CreateBalance,
         AddEarnedShards, Respond, tables
    <3>3. Counts(q, history', referral')
      BY <3>1 DEF Counts
    <3> QED BY <1>0, <3>1, <3>2, <3>3, MoveKeepsBonuses
  <2> QED BY <2>1, <2>2, <2>3, <2>4
<1>2. CASE CalcStep
  BY <1>1, <1>2 DEF CalcStep
<1>3. CASE World \/ (RefStep /\ UNCHANGED calcVars) \/ UNCHANGED vars
  <2>1. UNCHANGED <<history, req>> /\ history \in Rows /\ history' \in Rows
    BY <1>3, OtherSteps, LedgerTypes
  <2>2. ASSUME NEW s \in Requests PROVE Counts(req'[s], history', referral')
    <3>1. /\ req'[s] = req[s] /\ req[s] \in Request /\ (req[s].pc # "idle" => req[s].day \in Days)
          /\ Counts(req[s], history, referral)
      BY <2>1, LedgerTypes DEF TypeInv, InFlight, BonusInv
    <3> QED BY <1>0, <2>1, <3>1, CountsGrow
  <2>3. \A k \in Keys : RowBacked(k, history', referral')
    BY <1>0, <2>1, RowStaysBacked DEF BonusInv
  <2> QED BY <2>2, <2>3 DEF BonusInv
<1> QED BY <1>2, <1>3 DEF Next

\* The referral shards of a day are covered, referral by referral, by what the referees'
\* rows of that day give, however the referrals and the days change around the loop that
\* adds them up.
THEOREM BonusesBacked == Spec => []BonusBacked
<1>1. BonusInv => BonusBacked
  <2>1. SUFFICES ASSUME BonusInv, NEW k \in Keys, history[k] # Null
                 PROVE  history[k].referral <= Bonuses(history, k[2], ReferralsMadeBy(k[1].wallet))
    BY DEF BonusBacked, Bonuses, GivenBy
  <2>2. ReferralsMadeBy(k[1].wallet) = MadeBy(referral, k[1].wallet)
    BY DEF ReferralsMadeBy, MadeBy
  <2> QED BY <2>1, <2>2 DEF BonusInv, RowBacked
<1>2. BonusInv /\ TypeInv /\ SoundInv /\ [Next]_vars /\ TypeInv' => BonusInv'
  BY BonusStep
<1>3. Spec => []BonusInv
  BY <1>2, BonusInit, SoundAlways, TypeStep, PTL DEF Spec
<1> QED BY <1>1, <1>3, PTL
=============================================================================
