----------------------------- MODULE ShardTables -----------------------------
(***************************************************************************)
(* The database tables of src/modules/shards for one season, and the       *)
(* lookups its repositories make.  Every repository call is one SQL        *)
(* statement committed by itself: a use case that reads and then writes    *)
(* does so in two separate steps, and other requests run in between.       *)
(***************************************************************************)
EXTENDS Integers, FiniteSets

CONSTANTS
  Wallets,             \* wallet addresses, as their lower-case spelling
  Cases,               \* spellings a request may give an address
  LastDay,             \* bound: the clock stops at this day
  BonusDays,           \* REFERRAL_CONFIG.REFEREE_BONUS_DURATION_DAYS
  MaxReferrerBonus,    \* REFERRAL_CONFIG.MAX_REFERRER_BONUS_PER_REFERRAL
  ActivationThreshold, \* REFERRAL_CONFIG.ACTIVATION_THRESHOLD
  MaxReferrals,        \* REFERRAL_CONFIG.MAX_REFERRALS_PER_WALLET
  SeasonWrites,        \* bound: the statuses that calls of updateSeason write
  Failing,             \* executions whose repository calls may throw (or the server stop)
  Null                 \* a row that is not there

Days == 1 .. LastDay

(***************************************************************************)
(* An address as a request spells it: the controllers accept any mixture   *)
(* of upper and lower case, the repositories look rows up in lower case    *)
(* and insert whatever spelling they are given.                            *)
(***************************************************************************)
Address == [wallet : Wallets, case : Cases]
Spelled(w) == [wallet |-> w, case |-> "lower"]
LowerCase(a) == Spelled(a.wallet)

(***************************************************************************)
(* Shard amounts by category.  The social category is left out: it is 0    *)
(* for every calculation (calculateSocialShards).  Amounts are whole       *)
(* multiples of the column's smallest unit.                                *)
(***************************************************************************)
Shards == [staking : Nat, developer : Nat, referral : Nat]
NoShards == [staking |-> 0, developer |-> 0, referral |-> 0]
TotalShards(s) == s.staking + s.developer + s.referral
AddShards(s, t) == [staking   |-> s.staking + t.staking,
                    developer |-> s.developer + t.developer,
                    referral  |-> s.referral + t.referral]

(***************************************************************************)
(* A row of referrals, found by its referee.  expires is 0 while           *)
(* referee_multiplier_expires is null.                                     *)
(***************************************************************************)
Referral == [referrer : Wallets,
             status   : {"pending", "active", "expired"},
             expires  : Nat,
             earned   : Nat]

NewReferral(referrer) ==
  [referrer |-> referrer, status |-> "pending", expires |-> 0, earned |-> 0]

Keys == Address \X Days

SeasonStatus == {"upcoming", "active", "completed"}

ASSUME CasesAssumption == "lower" \in Cases
ASSUME AddressAssumption == IsFiniteSet(Wallets) /\ IsFiniteSet(Cases)
ASSUME DaysAssumption == LastDay \in Nat \ {0}
ASSUME BonusAssumption == BonusDays \in Nat /\ MaxReferrerBonus \in Nat
ASSUME ThresholdAssumption == ActivationThreshold \in Nat /\ MaxReferrals \in Nat
ASSUME SeasonAssumption == SeasonWrites \subseteq SeasonStatus
ASSUME NullAssumption ==
  Null \notin Address \cup Shards \cup Referral \cup Wallets

VARIABLES
  day,       \* the current date, shared by every new Date()
  season,    \* seasons.status of the season all rows belong to
  writing,   \* the statuses that updates of it in flight have read or set
  history,   \* shard_earning_history by (wallet_address, date)
  balance,   \* shard_balances by wallet_address
  referral   \* referrals by referee_address

tables == <<day, season, writing, history, balance, referral>>

TablesType ==
  /\ day \in Days
  /\ season \in SeasonStatus
  /\ writing \subseteq SeasonStatus
  /\ history \in [Keys -> Shards \cup {Null}]
  /\ balance \in [Address -> Shards \cup {Null}]
  /\ referral \in [Wallets -> Referral \cup {Null}]

TablesInit ==
  /\ day = 1
  /\ season \in SeasonStatus        \* createSeason gives it any, by its dates
  /\ writing = {}
  /\ history = [k \in Keys |-> Null]
  /\ balance = [a \in Address |-> Null]
  /\ referral = [w \in Wallets |-> Null]

FindHistory(a, d) == history[<<LowerCase(a), d>>]
FindBalance(a) == balance[LowerCase(a)]
FindReferral(a) == referral[a.wallet]

FindActiveByReferrer(a) ==
  {w \in Wallets : /\ referral[w] # Null
                   /\ referral[w].referrer = a.wallet
                   /\ referral[w].status = "active"}

WithinBonusPeriod(ref) == day < ref.expires

Activated(ref) == [ref EXCEPT !.status = "active", !.expires = day + BonusDays]
Expired(ref) == [ref EXCEPT !.status = "expired"]
Earning(ref, amount) == [ref EXCEPT !.earned = @ + amount]
=============================================================================
