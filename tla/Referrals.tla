------------------------------ MODULE Referrals ------------------------------
(***************************************************************************)
(* ManageReferralUseCase: createReferral, activateReferral,                *)
(* checkAndActivatePendingReferrals and expireOutdatedBonuses, each an     *)
(* operation in flight that makes one repository call per action and keeps *)
(* what it read in local variables.                                        *)
(***************************************************************************)
EXTENDS ShardTables

CONSTANT RefOps      \* bound: operations in flight at once

VARIABLE op          \* the operations in flight

RefOp == [pc       : {"idle", "existing", "count", "balance", "insert",
                      "scan", "find", "threshold", "activate",
                      "scanExpired", "expire"},
          referrer : Wallets \cup {Null},
          referee  : Wallets \cup {Null},
          found    : Referral \cup {Null},              \* the row last read
          todo     : SUBSET Wallets,                    \* rows still to be handled
          rows     : [Wallets -> Referral \cup {Null}], \* rows of the scan
          batch    : BOOLEAN]                           \* errors are caught per row

NoRows == [w \in Wallets |-> Null]
IdleOp == [pc |-> "idle", referrer |-> Null, referee |-> Null, found |-> Null,
           todo |-> {}, rows |-> NoRows, batch |-> FALSE]

RefType == op \in [RefOps -> RefOp]
RefInit == op = [o \in RefOps |-> IdleOp]

Start(o, q) == op[o].pc = "idle" /\ op' = [op EXCEPT ![o] = q] /\ UNCHANGED tables
End(o) == op' = [op EXCEPT ![o] = IdleOp]

ReferralsMadeBy(w) ==
  {v \in Wallets : referral[v] # Null /\ referral[v].referrer = w}

-----------------------------------------------------------------------------
(* createReferral *)

CreateReferral(o) ==
  \E referrer \in Wallets, referee \in Wallets :
    /\ referrer # referee
    /\ Start(o, [IdleOp EXCEPT !.pc = "existing", !.referrer = referrer,
                               !.referee = referee])

CheckExisting(o) ==
  /\ op[o].pc = "existing"
  /\ IF referral[op[o].referee] = Null
     THEN op' = [op EXCEPT ![o].pc = "count"] ELSE End(o)
  /\ UNCHANGED tables

CheckCount(o) ==
  /\ op[o].pc = "count"
  /\ IF Cardinality(ReferralsMadeBy(op[o].referrer)) < MaxReferrals
     THEN op' = [op EXCEPT ![o].pc = "balance"] ELSE End(o)
  /\ UNCHANGED tables

CheckRefereeBalance(o) ==
  /\ op[o].pc = "balance"
  /\ LET row == balance[Spelled(op[o].referee)]
     IN  IF row = Null \/ TotalShards(row) = 0
         THEN op' = [op EXCEPT ![o].pc = "insert"] ELSE End(o)
  /\ UNCHANGED tables

\* The unique index on (referee_address, season_id) makes a second insert throw.
InsertReferral(o) ==
  /\ op[o].pc = "insert"
  /\ LET v == op[o].referee
     IN  referral' = IF referral[v] = Null
                     THEN [referral EXCEPT ![v] = NewReferral(op[o].referrer)]
                     ELSE referral
  /\ End(o)
  /\ UNCHANGED <<day, season, writing, history, balance>>

-----------------------------------------------------------------------------
(* activateReferral, alone or for each row checkAndActivatePendingReferrals *)
(* finds; there an error of one row is caught and the next row follows.     *)

ActivateReferral(o) ==
  \E v \in Wallets :
    /\ referral[v] # Null                \* ids come from rows that exist
    /\ Start(o, [IdleOp EXCEPT !.pc = "find", !.referee = v])

CheckAndActivatePending(o) ==
  Start(o, [IdleOp EXCEPT !.pc = "scan", !.batch = TRUE])

PendingActivations ==
  {v \in Wallets : /\ referral[v] # Null
                   /\ referral[v].status = "pending"
                   /\ balance[Spelled(v)] # Null
                   /\ TotalShards(balance[Spelled(v)]) >= ActivationThreshold}

\* Mutant: the loop never drops the row it takes.
NextRowAgain(o, todo) ==
  IF op[o].batch /\ todo # {}
  THEN \E v \in todo :
         op' = [op EXCEPT ![o].pc = "find", ![o].referee = v,
                          ![o].found = Null, ![o].todo = todo]
  ELSE End(o)

\* The loop of a batch goes on with a row still to do; a single call returns.
NextRow(o, todo) ==
  IF op[o].batch /\ todo # {}
  THEN \E v \in todo :
         op' = [op EXCEPT ![o].pc = "find", ![o].referee = v,
                          ![o].found = Null, ![o].todo = todo \ {v}]
  ELSE End(o)

FindPendingActivations(o) ==
  /\ op[o].pc = "scan"
  /\ NextRow(o, PendingActivations)
  /\ UNCHANGED tables

FindReferralById(o) ==
  /\ op[o].pc = "find"
  /\ LET ref == referral[op[o].referee]
     IN  IF ref # Null /\ ref.status = "pending"
         THEN op' = [op EXCEPT ![o].pc = "threshold", ![o].found = ref]
         ELSE NextRow(o, op[o].todo)
  /\ UNCHANGED tables

\* Mutant: any balance row will do.
CheckThresholdAnyBalance(o) ==
  /\ op[o].pc = "threshold"
  /\ IF balance[Spelled(op[o].referee)] # Null
     THEN op' = [op EXCEPT ![o].pc = "activate"]
     ELSE NextRow(o, op[o].todo)
  /\ UNCHANGED tables

CheckThreshold(o) ==
  /\ op[o].pc = "threshold"
  /\ LET row == balance[Spelled(op[o].referee)]
     IN  IF row # Null /\ TotalShards(row) >= ActivationThreshold
         THEN op' = [op EXCEPT ![o].pc = "activate"]
         ELSE NextRow(o, op[o].todo)
  /\ UNCHANGED tables

\* The whole row found earlier, activated, overwrites the row of that id.
WriteActivated(o) ==
  /\ op[o].pc = "activate"
  /\ referral' = [referral EXCEPT ![op[o].referee] = Activated(op[o].found)]
  /\ NextRow(o, op[o].todo)
  /\ UNCHANGED <<day, season, writing, history, balance>>

-----------------------------------------------------------------------------
(* expireOutdatedBonuses: one query, then one full-row update per row.  The *)
(* second check of each row, isWithinBonusPeriod, cannot fail: the clock    *)
(* has only moved on since the query.                                       *)

ExpireOutdatedBonuses(o) == Start(o, [IdleOp EXCEPT !.pc = "scanExpired"])

ExpiringBonuses ==
  {v \in Wallets : /\ referral[v] # Null
                   /\ referral[v].status = "active"
                   /\ referral[v].expires <= day}

FindExpiringBonuses(o) ==
  /\ op[o].pc = "scanExpired"
  /\ IF ExpiringBonuses = {} THEN End(o)
     ELSE op' = [op EXCEPT
                   ![o].pc = "expire", ![o].todo = ExpiringBonuses,
                   ![o].rows = [v \in Wallets |->
                                  IF v \in ExpiringBonuses THEN referral[v] ELSE Null]]
  /\ UNCHANGED tables

WriteExpired(o) ==
  /\ op[o].pc = "expire"
  /\ \E v \in op[o].todo :
       /\ referral' = [referral EXCEPT ![v] = Expired(op[o].rows[v])]
       /\ IF op[o].todo = {v} THEN End(o)
          ELSE op' = [op EXCEPT ![o].todo = @ \ {v}, ![o].rows[v] = Null]
  /\ UNCHANGED <<day, season, writing, history, balance>>

-----------------------------------------------------------------------------
\* A repository call throws outside a batch's try block, or the process stops.
Abandon(o) ==
  /\ o \in Failing
  /\ op[o].pc # "idle"
  /\ End(o)
  /\ UNCHANGED tables

\* A repository call throws inside the try block: the next row follows.
SkipRow(o) ==
  /\ o \in Failing
  /\ op[o].batch /\ op[o].pc \in {"find", "threshold", "activate"}
  /\ NextRow(o, op[o].todo)
  /\ UNCHANGED tables

RefStart(o) == \/ CreateReferral(o)
               \/ ActivateReferral(o)
               \/ CheckAndActivatePending(o)
               \/ ExpireOutdatedBonuses(o)

RefProceed(o) == \/ CheckExisting(o)
                 \/ CheckCount(o)
                 \/ CheckRefereeBalance(o)
                 \/ InsertReferral(o)
                 \/ FindPendingActivations(o)
                 \/ FindReferralById(o)
                 \/ CheckThreshold(o)
                 \/ WriteActivated(o)
                 \/ FindExpiringBonuses(o)
                 \/ WriteExpired(o)

RefStep == \E o \in RefOps : RefStart(o) \/ RefProceed(o) \/ Abandon(o) \/ SkipRow(o)
=============================================================================
