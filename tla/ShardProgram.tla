----------------------------- MODULE ShardProgram -----------------------------
(***************************************************************************)
(* The shards server: daily calculations and referral operations run side  *)
(* by side over the tables of ShardTables, interleaved at every repository *)
(* call.                                                                   *)
(***************************************************************************)
EXTENDS DailyCalculation, Referrals, Functions

vars == <<tables, calcVars, op>>

Init == TablesInit /\ CalcInit /\ RefInit

Next == \/ (CalcStep \/ World) /\ UNCHANGED op
        \/ RefStep /\ UNCHANGED calcVars

Spec == Init /\ [][Next]_vars

\* Each execution goes on until it returns or throws: node resumes a promise
\* whose repository call has been answered, and calls are answered or rejected.
Fairness ==
  /\ \A r \in Requests : WF_vars(Proceed(r) /\ UNCHANGED op)
  /\ \A o \in RefOps : WF_vars(RefProceed(o) /\ UNCHANGED calcVars)

FairSpec == Spec /\ Fairness

\* Every table and every local variable keeps its type.
TypeOK == TablesType /\ CalcType /\ RefType

-----------------------------------------------------------------------------
(* Daily credits *)

Column(row, category) == IF row = Null THEN 0 ELSE row[category]

Categories == DOMAIN NoShards

KeysOf(w) == {k \in Keys : k[1].wallet = w}
AddressesOf(w) == {a \in Address : a.wallet = w}

\* A wallet's shards of a category over all its rows, whatever their spelling.
EarnedBy(w, c) ==
  SumFunctionOnSet([k \in KeysOf(w) |-> Column(history[k], c)], KeysOf(w))
BalanceOf(w, c) ==
  SumFunctionOnSet([a \in AddressesOf(w) |-> Column(balance[a], c)], AddressesOf(w))

Crediting(w) == \E r \in Requests : /\ req[r].pc \in Recorded
                                    /\ req[r].addr.wallet = w

\* However requests interleave and fail, a day of an address (as spelled) is
\* credited to a balance at most once: the early return on an existing history
\* row and the unique index under it guard the balance write that follows.
CreditedOnce == \A k \in Keys : credits[k] <= 1

\* A credit is always of a day recorded before it: no balance is written for a
\* day that has no row in shard_earning_history.
CreditIsRecorded == \A k \in Keys : credits[k] > 0 => history[k] # Null

\* Balances never hold more, in any category, than the history rows of the
\* wallet add up to: a lost update may drop a day, none is counted twice.
BalanceBacked ==
  \A w \in Wallets : \A c \in Categories : BalanceOf(w, c) <= EarnedBy(w, c)

\* Once no request of a wallet is between its two writes, its balance is
\* everything its history rows say it earned.
AllCredited ==
  \A w \in Wallets : Crediting(w) \/
    \A c \in Categories : BalanceOf(w, c) = EarnedBy(w, c)

\* While an update of the season that read it "active" is in flight, its write
\* may bring a completed season back to life.  Once none is, no update holds
\* another status and no calculation is under way, completion is final:
\* whatever is called from then on, no day of it is recorded or credited.
SeasonFrozen ==
  \A k \in Keys :
    LET Over == /\ season = "completed" /\ writing \subseteq {"completed"}
                /\ \A r \in Requests : req[r].pc = "idle"
    IN  /\ [](Over /\ history[k] = Null => [](history[k] = Null))
        /\ [](Over /\ credits[k] = 0 => [](credits[k] = 0))

\* The referral shards of a day are covered, referral by referral, by what the
\* referees' own rows of that day give their referrer: no referee is counted
\* twice, from another day or from its balance.
BonusBacked ==
  \A k \in Keys : history[k] # Null =>
    history[k].referral <=
      LET referees == ReferralsMadeBy(k[1].wallet)
          Given(v) == LET row == history[<<Spelled(v), k[2]>>]
                      IN  IF row = Null THEN 0 ELSE ReferrerBonus(TotalShards(row))
      IN  SumFunctionOnSet([v \in referees |-> Given(v)], referees)

\* What a referral row accumulates is covered by the referral shards recorded
\* for the referee of that row, whose calculations are its only writers.
EarnedShardsBacked ==
  \A w \in Wallets : referral[w] # Null =>
    referral[w].earned <= EarnedBy(w, "referral")

\* Without failures a recorded day reaches the balance.
RecordedIsCredited == \A k \in Keys : history[k] # Null ~> credits[k] = 1

-----------------------------------------------------------------------------
(* Referrals *)

\* A referral that has been activated belongs to a referee whose days add up to
\* the threshold, whichever of the two activation paths wrote it and whatever
\* stale row was written over it since.
ActivationEarned ==
  \A v \in Wallets :
    referral[v] # Null /\ referral[v].status # "pending" =>
      SumFunctionOnSet([c \in Categories |-> EarnedBy(v, c)], Categories)
        >= ActivationThreshold

-----------------------------------------------------------------------------
(* Both *)

\* Every calculation and every referral operation returns or throws, whatever the
\* others write meanwhile: the loop over the active referrals of a wallet and the loop
\* of a batch over rows that others activate or expire both end, and no step waits.
EveryExecutionEnds ==
  /\ \A r \in Requests : req[r].pc # "idle" ~> req[r].pc = "idle"
  /\ \A o \in RefOps : op[o].pc # "idle" ~> op[o].pc = "idle"

-----------------------------------------------------------------------------
(* What the tests say of a repeated request *)

\* A wallet is credited at most once a day, however its address is spelled.
WalletCreditedOnce ==
  \A w \in Wallets, d \in Days :
    SumFunctionOnSet([c \in Cases |-> credits[<<[wallet |-> w, case |-> c], d>>]], Cases)
      <= 1
=============================================================================
