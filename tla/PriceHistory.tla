----------------------------- MODULE PriceHistory -----------------------------
(* GetTokenPriceUseCase over the table price_history and the cache of PriceCache. *)
(* A request for current prices takes the latest row of a token unless it is too  *)
(* old, else the cached price, else CoinGecko's, and stores a row of this instant. *)
(* A request for a date, or one that fills a range, stores what CoinGecko knows of *)
(* a date: the price with which that day began, under the instant it was asked for. *)
EXTENDS PriceCache

CONSTANTS
  CurrentRequests, Asked,      \* requests for current prices, and the sets each may ask for
  DatedRequests, AskedByDate,  \* requests for a date or a range, each of one of these
  Together,                    \* the sets of requests and price jobs that run together
  MaxAge,                      \* maxCacheAgeMinutes
  Day                          \* how many instants make a day

ASSUME HistoryAssumption ==
  /\ Asked \in [CurrentRequests -> SUBSET SUBSET Tokens] /\ AskedByDate \subseteq Tokens
  /\ CurrentRequests \cap DatedRequests = {}
  /\ Together \subseteq SUBSET (CurrentRequests \cup DatedRequests \cup PriceJobs)
  /\ MaxAge \in Nat /\ Day \in Nat \ {0}

PriceRequests == CurrentRequests \cup DatedRequests

VARIABLES together,  \* which of them run in this behaviour
          history,   \* price_history
          asking,    \* the requests and what they hold
          overtaken  \* a timer deleted an entry while a request held that price

historyVars == <<together, history, asking, overtaken>>

Granularities == {"minute", "hour", "day"}

\* of is the instant whose price it is; past tells that it was asked for by its date.
PriceRow == [token : Tokens, at : Instant, granularity : Granularities,
             of : Instant, past : BOOLEAN]
UniqueKey(row) == <<row.token, row.at, row.granularity>>

PriceRequest == [pc : {"new", "look", "fetch", "store", "fill", "fetchDay", "create", "done"},
                 todo : SUBSET Tokens, need : SUBSET Tokens, held : CachedPrices,
                 rows : SUBSET PriceRow,
                 oldest : Nat]  \* age of the oldest price answered out of a row
NewRequest == [pc |-> "new", todo |-> {}, need |-> {}, held |-> NoPrices,
               rows |-> {}, oldest |-> 0]

Ask(r, q) == asking' = [asking EXCEPT ![r] = q]
Keeping(r, changed) == Ask(r, [pc |-> changed.pc, todo |-> {}, need |-> {}, held |-> NoPrices,
                               rows |-> changed.rows, oldest |-> asking[r].oldest])
OnlyAsking == UNCHANGED <<priceVars, together, history, overtaken>>

\* -------------------------------------------------------- current prices
AskCurrent(r) ==
  /\ asking[r].pc = "new"
  /\ \E ts \in Asked[r], useCache \in BOOLEAN :
       Ask(r, [NewRequest EXCEPT !.pc = "look", !.todo = IF useCache THEN ts ELSE {},
                                 !.need = IF useCache THEN {} ELSE ts])
  /\ OnlyAsking

\* findLatestByToken looks at every granularity.
LatestOf(t) == {x \in history : /\ x.token = t
                                /\ \A y \in history : y.token = t => y.at <= x.at}

\* Mutant: a row may be one instant older.
StaleLate(row) == clock - row.at > MaxAge + 1
IsPriceStale(row) == clock - row.at > MaxAge

\* The row of an instant to come has a negative age: it is not stale.
LookUp(r, t) ==
  /\ asking[r].pc = "look" /\ t \in asking[r].todo
  /\ \/ \E row \in LatestOf(t) :
          /\ ~IsPriceStale(row)
          /\ LET age == clock - row.of
             IN  Ask(r, [asking[r] EXCEPT
                           !.todo = @ \ {t},
                           !.oldest = IF row.past \/ age < @ THEN @ ELSE age])
     \/ /\ LatestOf(t) = {} \/ \E row \in LatestOf(t) : IsPriceStale(row)
        /\ Ask(r, [asking[r] EXCEPT !.todo = @ \ {t}, !.need = @ \cup {t}])
  /\ OnlyAsking

\* PriceHistoryEntity.create with the prices known, all of this instant.
RowsNow(prices_) == {[token |-> t, at |-> clock, granularity |-> "minute",
                      of |-> prices_[t], past |-> FALSE] : t \in Known(prices_)}

\* CoinGeckoService: what its cache has is taken, the rest is fetched.
TakeCached(r) ==
  /\ asking[r].pc = "look" /\ asking[r].todo = {}
  /\ LET need == asking[r].need
         held == [t \in Tokens |-> IF t \in need THEN price[t] ELSE NoPrice]
     IN  IF need \subseteq Known(price)
         THEN Keeping(r, [pc |-> IF need = {} THEN "done" ELSE "store", rows |-> RowsNow(held)])
         ELSE Ask(r, [asking[r] EXCEPT !.pc = "fetch", !.held = held])
  /\ OnlyAsking

\* CoinGecko answers for some of the tokens; a token without a price is left out.
FetchCurrent(r) ==
  /\ asking[r].pc = "fetch"
  /\ \E answered \in SUBSET (asking[r].need \ Known(asking[r].held)) :
       LET fresh == [t \in Tokens |-> IF t \in answered THEN clock ELSE NoPrice]
           rows == RowsNow(Merged(asking[r].held, fresh))
       IN  /\ price' = Merged(price, fresh)
           /\ timers' = SetEntries(answered)
           /\ Keeping(r, [pc |-> IF rows = {} THEN "done" ELSE "store", rows |-> rows])
  /\ UNCHANGED <<clock, prices, priceJob, straddled, together, history, overtaken>>

\* upsert, or createBatch: a row of the same key gets the new price.
Store(r) ==
  /\ asking[r].pc = "store"
  /\ LET rows == asking[r].rows
     IN  history' = {x \in history : \A y \in rows : UniqueKey(x) # UniqueKey(y)} \cup rows
  /\ Keeping(r, [pc |-> "done", rows |-> {}])
  /\ UNCHANGED <<priceVars, together, overtaken>>

\* ------------------------------------------------------ prices of a date
DayOf(date) == date - (date % Day)
RowOf(t, date, granularity) ==
  [token |-> t, at |-> date, granularity |-> granularity, of |-> DayOf(date), past |-> TRUE]

\* getHistoricalPrice: any row of that day answers it.
AskDate(r) ==
  /\ asking[r].pc = "new"
  /\ \E t \in AskedByDate, date \in Instant :
       IF \E x \in history : x.token = t /\ x.granularity = "day" /\ DayOf(x.at) = DayOf(date)
       THEN Keeping(r, [pc |-> "done", rows |-> {}])
       ELSE Keeping(r, [pc |-> "fetchDay", rows |-> {RowOf(t, date, "day")}])
  /\ OnlyAsking

\* getHistoricalPrices with fillMissingData: only a range without any row is filled,
\* day by day from its start.
AskRange(r) ==
  /\ asking[r].pc = "new"
  /\ \E t \in AskedByDate, start, end \in Instant, granularity \in Granularities :
       /\ start < end
       /\ IF \E x \in history : /\ x.token = t /\ x.granularity = granularity
                                /\ x.at \in start .. end
          THEN Keeping(r, [pc |-> "done", rows |-> {}])
          ELSE Keeping(r, [pc |-> "fill",
                           rows |-> {RowOf(t, date, granularity) :
                                       date \in {d \in start .. end : (d - start) % Day = 0}}])
  /\ OnlyAsking

\* CoinGecko has no price of a day that has not begun.
Begun(rows) == {x \in rows : x.of <= clock}

\* CoinGeckoService keeps historical prices too; a past day's price never changes, so
\* that cache only spares a request and is left out.
FetchDay(r) ==
  /\ asking[r].pc = "fetchDay" /\ Begun(asking[r].rows) # {}
  /\ Keeping(r, [pc |-> "create", rows |-> asking[r].rows])
  /\ OnlyAsking

\* fillHistoricalData: a day whose price cannot be fetched is skipped.
FillDays(r) ==
  /\ asking[r].pc = "fill"
  /\ \E rows \in SUBSET Begun(asking[r].rows) :
       Keeping(r, [pc |-> IF rows = {} THEN "done" ELSE "store", rows |-> rows])
  /\ OnlyAsking

\* create: the unique index refuses a second row of a key.
CreateDay(r) ==
  /\ asking[r].pc = "create"
  /\ history' = history \cup {x \in asking[r].rows :
                                \A y \in history : UniqueKey(x) # UniqueKey(y)}
  /\ Keeping(r, [pc |-> "done", rows |-> {}])
  /\ UNCHANGED <<priceVars, together, overtaken>>

\* A query or CoinGecko rejects.
RequestFails(r) ==
  /\ asking[r].pc \notin {"new", "done"}
  /\ Keeping(r, [pc |-> "done", rows |-> {}])
  /\ OnlyAsking

\* ------------------------------------------------------------ specification
HistoryInit ==
  /\ together \in Together
  /\ history = {} /\ overtaken = FALSE
  /\ asking = [r \in PriceRequests |-> NewRequest]

HistoryNext ==
  \/ /\ PassTime \/ \E j \in PriceJobs \cap together : PriceJobStep(j)
     /\ UNCHANGED historyVars
  \/ \E timer \in timers :
       /\ DeleteExpired(timer)
       /\ overtaken' = (overtaken \/ \E r \in PriceRequests : \E t \in Tokens :
                                       t = timer.key /\ asking[r].held[t] # NoPrice)
       /\ UNCHANGED <<together, history, asking>>
  \/ \E r \in CurrentRequests \cap together :
       \/ AskCurrent(r) \/ TakeCached(r) \/ FetchCurrent(r)
       \/ \E t \in Tokens : LookUp(r, t)
  \/ \E r \in DatedRequests \cap together :
       AskDate(r) \/ AskRange(r) \/ FetchDay(r) \/ FillDays(r) \/ CreateDay(r)
  \/ \E r \in PriceRequests \cap together : Store(r) \/ RequestFails(r)

\* --------------------------------------------------------------- properties
\* The table and the requests have their types, and no key is in the table twice.
HistoryTypeOK ==
  /\ together \in Together
  /\ history \subseteq PriceRow
  /\ \A x, y \in history : UniqueKey(x) = UniqueKey(y) => x = y
  /\ asking \in [PriceRequests -> PriceRequest]
  /\ overtaken \in BOOLEAN

\* Two caches lie behind one another, and each starts to count anew: the table dates a
\* price by the instant it was stored. A price answered out of it is still no older than
\* both lifetimes together, unless it was stored for a date, whose row is taken for the
\* current price of that instant, or a timer fired while a price was held.
AnswersAreRecent ==
  ~straddled /\ ~overtaken =>
    \A r \in PriceRequests : asking[r].oldest <= PriceTtl + MaxAge
=============================================================================
