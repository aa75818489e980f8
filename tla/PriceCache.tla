------------------------------ MODULE PriceCache ------------------------------
(* PriceUpdateProcessorJob and CoinGeckoService over the CacheService: a Map, in *)
(* which every set starts a timer that later deletes the key, whatever is under  *)
(* it by then. A job reads prices, awaits CoinGecko or its queue, and writes     *)
(* them back. A run without such a wait is one step: no timer fires within it.   *)
(* A price is represented by the instant at which CoinGecko gave it.            *)
EXTENDS Integers, FiniteSets

CONSTANTS
  NoPrice,
  Tokens,
  AllPrices,     \* the key of the map of all prices
  PriceJobs, Lists, \* jobs, and the lists of tokens each may be given
  PriceTtl, MapTtl, \* how long an entry and the map live
  MaxClock       \* bound on the clock

ASSUME PriceAssumption ==
  /\ AllPrices \notin Tokens
  /\ PriceTtl \in Nat \ {0} /\ MapTtl \in Nat \ {0} /\ MaxClock \in Nat
  /\ NoPrice \notin 0 .. MaxClock
  /\ Lists \in [PriceJobs -> SUBSET SUBSET Tokens]

VARIABLES clock,
          price,     \* the entry of each token
          prices,    \* the map of all of them
          timers,    \* the timers that wait, each with its key and instant
          priceJob,  \* the jobs, with the prices they hold
          straddled  \* a timer deleted an entry while a job held that price

priceVars == <<clock, price, prices, timers, priceJob, straddled>>

Instant == 0 .. MaxClock
CachedPrices == [Tokens -> Instant \cup {NoPrice}]
NoPrices == [t \in Tokens |-> NoPrice]
PriceJob == [pc : {"idle", "fetch", "cache"}, tokens : SUBSET Tokens, held : CachedPrices]
IdleJob == [pc |-> "idle", tokens |-> {}, held |-> NoPrices]

\* Where new prices are known they replace the old ones.
Merged(old, new) == [t \in Tokens |-> IF new[t] = NoPrice THEN old[t] ELSE new[t]]
Known(ps) == {t \in Tokens : ps[t] # NoPrice}

\* CacheService.set for several keys: the timers of earlier values keep running.
Expiring(keys, ttl) == {[key |-> k, at |-> clock + ttl] : k \in keys}
SetEntriesResetting(keys) == {r \in timers : r.key \notin keys} \cup Expiring(keys, PriceTtl)
SetEntries(keys) == timers \cup Expiring(keys, PriceTtl)

\* -------------------------------------------------------------------- jobs
\* getMultipleTokenPrices, or getTokenPrice: what the cache has, the rest is fetched.
ReadCached(j) ==
  /\ priceJob[j].pc = "idle"
  /\ \E ts \in Lists[j] :
       LET held == [t \in Tokens |-> IF t \in ts THEN price[t] ELSE NoPrice]
       IN  priceJob' = [priceJob EXCEPT ![j] =
             [pc |-> IF ts \subseteq Known(price) THEN "cache" ELSE "fetch",
              tokens |-> ts, held |-> held]]
  /\ UNCHANGED <<clock, price, prices, timers, straddled>>

\* CoinGecko answers for some of the tokens, with prices of this instant.
Fetched(j) ==
  /\ priceJob[j].pc = "fetch"
  /\ \E answered \in SUBSET (priceJob[j].tokens \ Known(priceJob[j].held)) :
       LET fresh == [t \in Tokens |-> IF t \in answered THEN clock ELSE NoPrice]
       IN  /\ price' = Merged(price, fresh)
           /\ timers' = SetEntries(answered)
           /\ priceJob' = [priceJob EXCEPT ![j].pc = "cache", ![j].held = Merged(@, fresh)]
  /\ UNCHANGED <<clock, prices, straddled>>

\* updatePriceCache: the map is read, merged and set, then every price held is set.
UpdatePriceCache(j) ==
  /\ priceJob[j].pc = "cache"
  /\ prices' = Merged(prices, priceJob[j].held)
  /\ price' = Merged(price, priceJob[j].held)
  /\ timers' = SetEntries(Known(priceJob[j].held)) \cup Expiring({AllPrices}, MapTtl)
  /\ priceJob' = [priceJob EXCEPT ![j] = IdleJob]
  /\ UNCHANGED <<clock, straddled>>

\* CoinGecko, or the queue that is told of the progress, fails: Bull tries again later.
\* The fallback after three retries is left out: nothing counts them in retryCount.
PriceJobFails(j) ==
  /\ priceJob[j].pc # "idle"
  /\ priceJob' = [priceJob EXCEPT ![j] = IdleJob]
  /\ UNCHANGED <<clock, price, prices, timers, straddled>>

\* -------------------------------------------------------------------- timers
\* cache.delete(key), whether its value is the one that the timer was started for.
DeleteExpired(r) ==
  /\ r.at <= clock
  /\ timers' = timers \ {r}
  /\ IF r.key = AllPrices
       THEN prices' = NoPrices /\ UNCHANGED <<price, straddled>>
       ELSE /\ price' = [price EXCEPT ![r.key] = NoPrice]
            /\ straddled' = (straddled \/ \E j \in PriceJobs :
                                            priceJob[j].held[r.key] # NoPrice)
            /\ UNCHANGED prices
  /\ UNCHANGED <<clock, priceJob>>

\* Time passes once the timers that are due have fired.
PassTime ==
  /\ clock < MaxClock
  /\ \A r \in timers : r.at > clock
  /\ clock' = clock + 1
  /\ UNCHANGED <<price, prices, timers, priceJob, straddled>>

\* ------------------------------------------------------------ specification
PriceInit ==
  /\ clock = 0 /\ price = NoPrices /\ prices = NoPrices
  /\ timers = {} /\ straddled = FALSE
  /\ priceJob = [j \in PriceJobs |-> IdleJob]

PriceJobStep(j) == ReadCached(j) \/ Fetched(j) \/ UpdatePriceCache(j) \/ PriceJobFails(j)

PriceNext ==
  \/ PassTime
  \/ \E r \in timers : DeleteExpired(r)
  \/ \E j \in PriceJobs : PriceJobStep(j)

PriceSpec == PriceInit /\ [][PriceNext]_priceVars

\* --------------------------------------------------------------- properties
\* The cache, its timers and the jobs have their types.
PriceTypeOK ==
  /\ clock \in Instant /\ price \in CachedPrices /\ prices \in CachedPrices
  /\ \A r \in timers : r.key \in Tokens \cup {AllPrices} /\ r.at \in Nat
  /\ priceJob \in [PriceJobs -> PriceJob]
  /\ straddled \in BOOLEAN

\* A job sets a price that it found in the cache anew, with its whole lifetime; the timer
\* of the first set still bounds the age of the entry, and of the one in the map, unless
\* it fired while a job held the price.
NeverStale ==
  ~straddled => \A t \in Tokens :
                  /\ price[t] # NoPrice => clock - price[t] <= PriceTtl
                  /\ prices[t] # NoPrice => clock - prices[t] <= PriceTtl + MapTtl
=============================================================================
