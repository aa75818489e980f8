--------------------------- MODULE DailyCalculation ---------------------------
(***************************************************************************)
(* CalculateDailyShardsUseCase.execute: the requests that turn a wallet's  *)
(* vault positions, developer contributions and referrals into the day's   *)
(* row of shard_earning_history and into its shard_balances row.  One      *)
(* action per awaited repository call, so that concurrent requests, the    *)
(* other writers of the tables and failures come in between.               *)
(***************************************************************************)
EXTENDS ShardTables

CONSTANTS
  Requests,     \* bound: executions in flight at once
  StakeYields,  \* what calculateStakingShards may yield for a wallet's positions
  DevReward     \* shards_earned of a developer contribution

ASSUME YieldAssumption == StakeYields \subseteq Nat
ASSUME RewardAssumption == DevReward \in Nat

VARIABLES
  stake,    \* daily yield of the vault positions synced for a wallet
  dev,      \* shards of the contributions created on a day, verified and distributed
  req,      \* the executions: program counter and local variables
  credits   \* history variable: committed balance writes for (address, day)

calcVars == <<stake, dev, req, credits>>

Reading == {"season", "history", "vaults", "contributions", "ownReferral",
            "activeReferrals", "bonuses"}
Recorded == {"balance", "credit"}
PC == Reading \cup Recorded \cup {"idle", "earn", "respond"}

Request == [pc : PC,
            addr : Address \cup {Null},   \* dto.walletAddress, as spelled
            day : Nat,                    \* dto.date
            staking : Nat,                \* totalStakingShards
            developer : Nat,              \* developerShards
            own : Referral \cup {Null},   \* referral
            boosted : BOOLEAN,            \* refereeMultiplier = 1.2
            refs : SUBSET Wallets,        \* activeReferrals still to be visited
            bonus : Nat,                  \* referralBonus
            seen : Shards \cup {Null},    \* existingBalance
            result : Shards \cup {Null}]  \* what execute returns

Idle == [pc |-> "idle", addr |-> Null, day |-> 0, staking |-> 0,
         developer |-> 0, own |-> Null, boosted |-> FALSE, refs |-> {},
         bonus |-> 0, seen |-> Null, result |-> Null]

CalcType ==
  /\ stake \in [Wallets -> StakeYields]
  /\ dev \in [Wallets -> [Days -> Nat]]
  /\ req \in [Requests -> Request]
  /\ credits \in [Keys -> Nat]

CalcInit ==
  /\ stake \in [Wallets -> StakeYields]
  /\ dev = [w \in Wallets |-> [d \in Days |-> 0]]
  /\ req = [r \in Requests |-> Idle]
  /\ credits = [k \in Keys |-> 0]

-----------------------------------------------------------------------------
(* ShardCalculationDomainService *)

\* calculateReferralBonus, for an active referral: a fifth, capped.
ReferrerBonus(refereeShards) ==
  LET fifth == refereeShards \div 5
  IN  IF fifth < MaxReferrerBonus THEN fifth ELSE MaxReferrerBonus

\* applyRefereeMultiplier: 1.2 within the bonus period.
Multiplied(shards, boosted) ==
  IF boosted THEN (6 * shards) \div 5 ELSE shards

\* calculateTotalDailyShards: the referral bonus is not multiplied.
Earned(q) == [staking   |-> Multiplied(q.staking, q.boosted),
              developer |-> Multiplied(q.developer, q.boosted),
              referral  |-> q.bonus]

KeyOf(q) == <<q.addr, q.day>>

-----------------------------------------------------------------------------
(* The steps of execute *)

Arrive(r) ==
  /\ req[r].pc = "idle"
  /\ \E a \in Address :
       req' = [req EXCEPT ![r] = [Idle EXCEPT !.pc = "season", !.addr = a, !.day = day]]
  /\ UNCHANGED <<tables, stake, dev, credits>>

CheckSeason(r) ==
  /\ req[r].pc = "season"
  /\ req' = [req EXCEPT ![r] = IF season = "active"
                               THEN [@ EXCEPT !.pc = "history"] ELSE Idle]
  /\ UNCHANGED <<tables, stake, dev, credits>>

\* A row for the day ends the calculation: its amounts are the answer.
FindExistingHistory(r) ==
  /\ req[r].pc = "history"
  /\ LET row == FindHistory(req[r].addr, req[r].day)
     IN  req' = [req EXCEPT ![r] =
                   IF row = Null THEN [@ EXCEPT !.pc = "vaults"]
                   ELSE [@ EXCEPT !.pc = "respond", !.result = row]]
  /\ UNCHANGED <<tables, stake, dev, credits>>

ReadVaultPositions(r) ==
  /\ req[r].pc = "vaults"
  /\ req' = [req EXCEPT ![r].pc = "contributions",
                        ![r].staking = stake[req[r].addr.wallet]]
  /\ UNCHANGED <<tables, stake, dev, credits>>

ReadContributions(r) ==
  /\ req[r].pc = "contributions"
  /\ req' = [req EXCEPT ![r].pc = "ownReferral",
                        ![r].developer = dev[req[r].addr.wallet][req[r].day]]
  /\ UNCHANGED <<tables, stake, dev, credits>>

ReadOwnReferral(r) ==
  /\ req[r].pc = "ownReferral"
  /\ LET ref == FindReferral(req[r].addr)
     IN  req' = [req EXCEPT
                   ![r].pc = "activeReferrals",
                   ![r].own = ref,
                   ![r].boosted = /\ ref # Null
                                  /\ ref.status = "active"
                                  /\ WithinBonusPeriod(ref)]
  /\ UNCHANGED <<tables, stake, dev, credits>>

ReadActiveReferrals(r) ==
  /\ req[r].pc = "activeReferrals"
  /\ req' = [req EXCEPT ![r].pc = "bonuses",
                        ![r].refs = FindActiveByReferrer(req[r].addr)]
  /\ UNCHANGED <<tables, stake, dev, credits>>

\* Mutant: the bonus is a share of the referee's balance, not of its day.
AddReferralBonusOfBalance(r) ==
  /\ req[r].pc = "bonuses"
  /\ \E w \in req[r].refs :
       LET row == balance[Spelled(w)]
           bonus == IF row = Null THEN 0 ELSE ReferrerBonus(TotalShards(row))
       IN  req' = [req EXCEPT ![r].refs = @ \ {w}, ![r].bonus = @ + bonus]
  /\ UNCHANGED <<tables, stake, dev, credits>>

\* One turn of the loop over activeReferrals.  Its two reads, of the referee's
\* balance and of its history, are one step: neither row is ever deleted.
AddReferralBonus(r) ==
  /\ req[r].pc = "bonuses"
  /\ \E w \in req[r].refs :
       LET row == history[<<Spelled(w), req[r].day>>]
           bonus == IF row = Null \/ balance[Spelled(w)] = Null
                    THEN 0 ELSE ReferrerBonus(TotalShards(row))
       IN  req' = [req EXCEPT ![r].refs = @ \ {w}, ![r].bonus = @ + bonus]
  /\ UNCHANGED <<tables, stake, dev, credits>>

\* Mutant: a conflict of the insert is ignored.
RecordHistoryDoNothing(r) ==
  /\ req[r].pc = "bonuses" /\ req[r].refs = {}
  /\ LET k == KeyOf(req[r])
     IN  history' = IF history[k] = Null THEN [history EXCEPT ![k] = Earned(req[r])]
                    ELSE history
  /\ req' = [req EXCEPT ![r].pc = "balance", ![r].result = Earned(req[r])]
  /\ UNCHANGED <<day, season, writing, balance, referral, stake, dev, credits>>

\* Mutant: shardEarningHistoryRepository.upsert in the place of create.
RecordHistoryUpsert(r) ==
  /\ req[r].pc = "bonuses" /\ req[r].refs = {}
  /\ history' = [history EXCEPT ![KeyOf(req[r])] = Earned(req[r])]
  /\ req' = [req EXCEPT ![r].pc = "balance", ![r].result = Earned(req[r])]
  /\ UNCHANGED <<day, season, writing, balance, referral, stake, dev, credits>>

\* shardEarningHistoryRepository.create: the unique index on (wallet_address,
\* date, season_id) makes the second insert throw.
RecordHistory(r) ==
  /\ req[r].pc = "bonuses" /\ req[r].refs = {}
  /\ LET k == KeyOf(req[r])
     IN  \/ /\ history[k] = Null
            /\ history' = [history EXCEPT ![k] = Earned(req[r])]
            /\ req' = [req EXCEPT ![r].pc = "balance",
                                  ![r].result = Earned(req[r])]
         \/ /\ history[k] # Null
            /\ req' = [req EXCEPT ![r] = Idle]
            /\ UNCHANGED history
  /\ UNCHANGED <<day, season, writing, balance, referral, stake, dev, credits>>

\* Mutant: the season is checked again before the balance is written.
ReadBalanceOfActiveSeason(r) ==
  /\ req[r].pc = "balance"
  /\ req' = [req EXCEPT ![r] =
               IF season = "active"
               THEN [@ EXCEPT !.pc = "credit", !.seen = FindBalance(req[r].addr)]
               ELSE Idle]
  /\ UNCHANGED <<tables, stake, dev, credits>>

ReadBalance(r) ==
  /\ req[r].pc = "balance"
  /\ req' = [req EXCEPT ![r].pc = "credit", ![r].seen = FindBalance(req[r].addr)]
  /\ UNCHANGED <<tables, stake, dev, credits>>

Credit(r, a, row) ==
  /\ balance' = [balance EXCEPT ![a] = row]
  /\ credits' = [credits EXCEPT ![KeyOf(req[r])] = @ + 1]
  /\ req' = [req EXCEPT ![r].pc =
               IF req[r].own # Null /\ req[r].bonus > 0 THEN "earn" ELSE "respond"]

\* Mutant: the referral category is not added to an existing balance.
UpdateBalanceNoReferral(r) ==
  /\ req[r].pc = "credit" /\ req[r].seen # Null
  /\ Credit(r, LowerCase(req[r].addr),
            AddShards(req[r].seen, [Earned(req[r]) EXCEPT !.referral = 0]))
  /\ UNCHANGED <<day, season, writing, history, referral, stake, dev>>

\* shardBalanceRepository.update: the whole row read earlier, with the amounts
\* added in memory, overwrites the row of that id.
UpdateBalance(r) ==
  /\ req[r].pc = "credit" /\ req[r].seen # Null
  /\ Credit(r, LowerCase(req[r].addr), AddShards(req[r].seen, Earned(req[r])))
  /\ UNCHANGED <<day, season, writing, history, referral, stake, dev>>

\* shardBalanceRepository.create, with the address as the request spells it;
\* the unique index on (wallet_address, season_id) may make it throw.
CreateBalance(r) ==
  /\ req[r].pc = "credit" /\ req[r].seen = Null
  /\ \/ /\ balance[req[r].addr] = Null
        /\ Credit(r, req[r].addr, Earned(req[r]))
     \/ /\ balance[req[r].addr] # Null
        /\ req' = [req EXCEPT ![r] = Idle]
        /\ UNCHANGED <<balance, credits>>
  /\ UNCHANGED <<day, season, writing, history, referral, stake, dev>>

\* Mutant: the day's whole total is added to the referral, not the bonus.
AddEarnedTotal(r) ==
  /\ req[r].pc = "earn"
  /\ referral' = [referral EXCEPT ![req[r].addr.wallet] =
                    Earning(req[r].own, TotalShards(req[r].result))]
  /\ req' = [req EXCEPT ![r].pc = "respond"]
  /\ UNCHANGED <<day, season, writing, history, balance, stake, dev, credits>>

\* referralRepository.update: the wallet's own referral row, whole, as it was
\* read in ReadOwnReferral, plus the bonus.
AddEarnedShards(r) ==
  /\ req[r].pc = "earn"
  /\ referral' = [referral EXCEPT
                    ![req[r].addr.wallet] = Earning(req[r].own, req[r].bonus)]
  /\ req' = [req EXCEPT ![r].pc = "respond"]
  /\ UNCHANGED <<day, season, writing, history, balance, stake, dev, credits>>

Respond(r) ==
  /\ req[r].pc = "respond"
  /\ req' = [req EXCEPT ![r] = Idle]
  /\ UNCHANGED <<tables, stake, dev, credits>>

\* A repository call throws, or the process stops: nothing is undone.
Fail(r) ==
  /\ r \in Failing /\ req[r].pc # "idle"
  /\ req' = [req EXCEPT ![r] = Idle]
  /\ UNCHANGED <<tables, stake, dev, credits>>

Proceed(r) ==
  \/ CheckSeason(r)
  \/ FindExistingHistory(r)
  \/ ReadVaultPositions(r)
  \/ ReadContributions(r)
  \/ ReadOwnReferral(r)
  \/ ReadActiveReferrals(r)
  \/ AddReferralBonus(r)
  \/ RecordHistory(r)
  \/ ReadBalance(r)
  \/ UpdateBalance(r)
  \/ CreateBalance(r)
  \/ AddEarnedShards(r)
  \/ Respond(r)

CalcStep == \E r \in Requests : Arrive(r) \/ Proceed(r) \/ Fail(r)
-----------------------------------------------------------------------------
(* The other writers of what execute reads, one whole operation per step *)

Midnight ==
  /\ day < LastDay
  /\ day' = day + 1
  /\ UNCHANGED <<season, writing, history, balance, referral, calcVars>>

\* Mutant: the new status is not compared with the one the row has.
LoadSeasonUnchecked(s) ==
  /\ s \in SeasonWrites
  /\ writing' = writing \cup {s}
  /\ UNCHANGED <<day, season, history, balance, referral, calcVars>>

\* updateSeason up to its write: it keeps the status it reads, or is called by
\* activateSeason or completeSeason and passes validateStatusTransition.
\* Their own earlier read of the row decides nothing that this one does not.
LoadSeason(s) ==
  /\ s \in SeasonWrites                    \* bound
  /\ <<season, s>> \in {<<"upcoming", "active">>, <<"active", "completed">>,
                        <<season, season>>}
  /\ writing' = writing \cup {s}
  /\ UNCHANGED <<day, season, history, balance, referral, calcVars>>

\* seasonRepository.update: the row read in LoadSeason is written whole, its
\* status too, whatever was written since.  Any number of calls may hold a
\* status: this one may have been the last.
WriteSeason(s) ==
  /\ s \in writing
  /\ season' = s
  /\ writing' \in {writing, writing \ {s}}
  /\ UNCHANGED <<day, history, balance, referral, calcVars>>

\* The calls that hold a status end without their write.
DropSeason(s) ==
  /\ s \in writing
  /\ writing' = writing \ {s}
  /\ UNCHANGED <<day, season, history, balance, referral, calcVars>>

SyncVaultPositions(w) ==
  /\ \E y \in StakeYields \ {stake[w]} : stake' = [stake EXCEPT ![w] = y]
  /\ UNCHANGED <<tables, dev, req, credits>>

\* A contribution created on a day d up to today is verified and distributed.
DistributeReward(w) ==
  /\ \E d \in 1 .. day :
       /\ dev[w][d] = 0                  \* bound: one contribution a day
       /\ dev' = [dev EXCEPT ![w][d] = DevReward]
  /\ UNCHANGED <<tables, stake, req, credits>>

World == \/ Midnight
         \/ \E s \in SeasonStatus : LoadSeason(s) \/ WriteSeason(s) \/ DropSeason(s)
         \/ \E w \in Wallets : SyncVaultPositions(w) \/ DistributeReward(w)
=============================================================================
