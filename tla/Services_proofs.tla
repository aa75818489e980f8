---------------------------- MODULE Services_proofs ----------------------------
(* Theorems about the marketplace and the prices, for any number of requests,   *)
(* jobs, rows and tokens, and about the server that runs all its services: its  *)
(* behaviours are behaviours of each of them, so each theorem about one service *)
(* is a theorem about the server.                                               *)
EXTENDS Services, ServiceTables_proofs

\* --------------------------------------------------------------- marketplace
\* What a request holds where it stands; n is the number of rows.
SellHolds(q) ==
  q.pc \in {"asset", "sales"} =>
    /\ q.who \in Wallets /\ q.price \in Prices
    /\ q.todo \in Seq(Assets) /\ q.valid \in Seq(Assets)
    /\ q.pc = "sales" => q.todo # <<>>
BidHolds(q) ==
  q.pc \in {"best", "mine", "insert"} =>
    /\ q.who \in Wallets /\ q.other \in Wallets /\ q.price \in Prices
    /\ q.todo \in Seq(Assets) /\ q.todo # <<>>
AnswerHolds(q, n) ==
  q.pc = "write" =>
    q.row \in Row /\ q.row.status # "ACTIVE" /\ q.todo # <<>> /\ Head(q.todo) \in 1 .. n
ListingsHold(q, n) ==
  q.pc \in {"read", "write"} =>
    q.todo \in Seq(1 .. n) /\ (q.pc = "write" => q.todo # <<>>)
TransferHolds(q) ==
  q.pc = "write" => q.other \in Wallets /\ q.todo \in Seq(Assets) /\ q.todo # <<>>

Holds(kind, q, n) ==
  /\ kind = "sell" => SellHolds(q)
  /\ kind = "bid" => BidHolds(q)
  /\ kind \in {"accept", "reject", "buy"} => AnswerHolds(q, n)
  /\ kind \in {"cancel", "update"} => ListingsHold(q, n)
  /\ kind = "transfer" => TransferHolds(q)

\* Requests that do not overlap: one at most is under way; the assets that it found
\* without a sale have none, and no sale but the one that it is about to update is
\* on offer for the same asset.
Resting(c) == market[c].pc \in {"idle", "end"}
InTurn == made \in Alone => \A c, d \in Calls : Resting(c) \/ Resting(d) \/ c = d

Distinct(s) == \A m, n \in DOMAIN s : s[m] = s[n] => m = n
Fresh(todo, valid) ==
  /\ Distinct(todo) /\ Distinct(valid)
  /\ \A m \in DOMAIN valid :
       /\ FindActive("SALE", valid[m]) = {}
       /\ \A n \in DOMAIN todo : valid[m] # todo[n]
SellsNew(c) ==
  made[c] = "sell" /\ market[c].pc \in {"asset", "sales"} =>
    Fresh(market[c].todo, market[c].valid)
UpdatesSole(c) ==
  At(c, "update", "write") =>
    LET i == Head(market[c].todo)
    IN  rows[i].type = "SALE" => FindActive("SALE", rows[i].asset) \subseteq {i}
TurnKept == made \in Alone => \A c \in Calls : SellsNew(c) /\ UpdatesSole(c)

OneSale == made \in Alone => \A a \in Assets : \A i, j \in FindActive("SALE", a) : i = j

MarketTypes ==
  /\ owner \in [Assets -> Wallets] /\ rows \in Seq(Row)
  /\ now \in 0 .. MaxNow + 1 /\ now % 2 = 0 /\ made \in Casts
  /\ market \in [Calls -> Request]
  /\ \A c \in Calls : Holds(made[c], market[c], Len(rows))

MarketInv == MarketTypes /\ InTurn /\ TurnKept /\ OneSale

LEMMA IdleType == Idle \in Request /\ [Idle EXCEPT !.pc = "end"] \in Request
<1>1. <<>> \in Seq(Assets \cup Nat)
  OBVIOUS
<1> QED
  BY <1>1 DEF Idle, Request

\* No row that was off offer is put on offer by a step.
NoneReactivated ==
  \A i \in DOMAIN rows : rows[i].status # "ACTIVE" => rows'[i].status # "ACTIVE"

\* A request that ended, or has not begun, holds nothing.
LEMMA RestingHolds ==
  ASSUME NEW kind, NEW q, NEW n, q.pc \in {"idle", "end"}
  PROVE  Holds(kind, q, n)
BY DEF Holds, SellHolds, BidHolds, AnswerHolds, ListingsHold, TransferHolds

LEMMA HoldsStill ==
  ASSUME NEW kind, NEW q, NEW m \in Nat, NEW n \in Nat, m <= n, Holds(kind, q, m)
  PROVE  Holds(kind, q, n)
<1>1. \A s : s \in Seq(1 .. m) => s \in Seq(1 .. n)
  OBVIOUS
<1> QED
  BY <1>1 DEF Holds, AnswerHolds, ListingsHold

\* A step of c puts q in the place of its local variables.
MarketMoved(c, q) == market' = [market EXCEPT ![c] = q]
Same(q, r) ==
  /\ q.who = r.who /\ q.todo = r.todo /\ q.valid = r.valid /\ q.price = r.price
  /\ q.expires = r.expires /\ q.row = r.row /\ q.other = r.other

LEMMA GoesOn ==
  ASSUME NEW c \in Calls, NEW r \in Request,
         NEW pc \in {"asset", "sales", "best", "mine", "insert", "read", "write"}, Go(c, pc, r)
  PROVE  \E q \in Request : MarketMoved(c, q) /\ q.pc = pc /\ Same(q, r)
<1>1. PICK q : q = [r EXCEPT !.pc = pc]
  OBVIOUS
<1>2. q \in Request /\ q.pc = pc /\ Same(q, r)
  BY <1>1 DEF Request, Same
<1>3. MarketMoved(c, q)
  BY <1>1 DEF Go, MarketMoved
<1> QED
  BY <1>2, <1>3

LEMMA Ends ==
  ASSUME NEW c \in Calls, NEW r, Go(c, "end", r)
  PROVE  \E q \in Request : MarketMoved(c, q) /\ q.pc = "end"
<1>1. PICK q : q = [Idle EXCEPT !.pc = "end"]
  OBVIOUS
<1>2. q \in Request /\ q.pc = "end"
  BY <1>1, IdleType DEF Idle
<1>3. MarketMoved(c, q)
  BY <1>1 DEF Go, MarketMoved
<1> QED
  BY <1>2, <1>3

LEMMA Starts ==
  ASSUME NEW c \in Calls, NEW kind, NEW r \in Request,
         NEW pc \in {"asset", "sales", "best", "mine", "insert", "read", "write"},
         Start(c, kind, pc, r)
  PROVE  /\ \E q \in Request : MarketMoved(c, q) /\ q.pc = pc /\ Same(q, r)
         /\ made[c] = kind /\ Resting(c)
         /\ made \in Alone => \A d \in Calls : Resting(d)
         /\ UNCHANGED <<owner, rows, now, made>>
<1>1. PICK q : q = [r EXCEPT !.pc = pc]
  OBVIOUS
<1>2. q \in Request /\ q.pc = pc /\ Same(q, r)
  BY <1>1 DEF Request, Same
<1>3. MarketMoved(c, q)
  BY <1>1 DEF Start, MarketMoved
<1> QED
  BY <1>2, <1>3 DEF Start, Resting

\* As long as the clock does not go back and the rows stay, no row comes on offer.
LEMMA FewerActive ==
  ASSUME MarketTypes, UNCHANGED rows, now' \in Int, now <= now', NEW type, NEW a
  PROVE  FindActive(type, a)' \subseteq FindActive(type, a)
<1>2. Expiries \subseteq Int
  BY MarketAssumption
<1>3. now \in Int
  BY DEF MarketTypes
<1>1. Future' \subseteq Future
  <2>1. ASSUME NEW t \in Expiries, t > now' PROVE t > now
    <3>1. t \in Int
      BY <1>2
    <3> QED
      BY <1>3, <2>1, <3>1
  <2> QED
    BY <2>1 DEF Future
<1> QED
  BY <1>1 DEF FindActive

\* The step of the one request under way keeps turns.
LEMMA TurnStep ==
  ASSUME MarketInv, NEW c \in Calls, NEW q \in Request, MarketMoved(c, q), UNCHANGED made,
         made \in Alone => ~Resting(c) \/ \A d \in Calls : Resting(d),
         made \in Alone => SellsNew(c)' /\ UpdatesSole(c)'
  PROVE  InTurn' /\ TurnKept'
<1>1. market' \in [Calls -> Request] /\ market'[c] = q /\ \A d \in Calls : d # c => market'[d] = market[d]
  BY DEF MarketMoved, MarketInv, MarketTypes
<1>2. made \in Alone => \A d \in Calls : d # c => Resting(d) /\ Resting(d)'
  BY <1>1 DEF MarketInv, InTurn, Resting
<1>3. InTurn'
  BY <1>2 DEF InTurn
<1>4. TurnKept'
  <2> SUFFICES ASSUME made \in Alone, NEW d \in Calls PROVE SellsNew(d)' /\ UpdatesSole(d)'
    BY DEF TurnKept
  <2>1. CASE d = c
    BY <2>1
  <2>2. CASE d # c
    <3>1. market'[d].pc \in {"idle", "end"}
      BY <1>2, <2>2 DEF Resting
    <3> QED
      BY <3>1 DEF SellsNew, UpdatesSole, At
  <2> QED
    BY <2>1, <2>2
<1> QED
  BY <1>3, <1>4

\* A step that writes nothing keeps the invariant, if what c becomes agrees with it.
LEMMA ReadStep ==
  ASSUME MarketInv, NEW c \in Calls, NEW q \in Request, MarketMoved(c, q),
         UNCHANGED <<owner, rows, now, made>>,
         made \in Alone => ~Resting(c) \/ \A d \in Calls : Resting(d),
         Holds(made[c], q, Len(rows)),
         made \in Alone => SellsNew(c)' /\ UpdatesSole(c)'
  PROVE  MarketInv'
<1>1. market' \in [Calls -> Request] /\ market'[c] = q /\ \A d \in Calls : d # c => market'[d] = market[d]
  BY DEF MarketMoved, MarketInv, MarketTypes
<1>2. MarketTypes'
  BY <1>1 DEF MarketInv, MarketTypes
<1>3. OneSale'
  BY DEF MarketInv, OneSale, FindActive, Future
<1> QED
  BY <1>2, <1>3, TurnStep DEF MarketInv

\* Nothing is asked of a request that is neither a sale nor an update of a listing.
LEMMA FreeOfTurn ==
  ASSUME NEW c \in Calls, UNCHANGED made,
         made[c] \notin {"sell", "update"} \/ market'[c].pc \in {"idle", "end"}
  PROVE  SellsNew(c)' /\ UpdatesSole(c)'
BY DEF SellsNew, UpdatesSole, At

LEMMA MarketInitInv == MarketInit => MarketInv
<1> SUFFICES ASSUME MarketInit PROVE MarketInv
  OBVIOUS
<1>1. \A c \in Calls : market[c] = Idle /\ market[c].pc = "idle"
  BY DEF MarketInit, Idle
<1>2. MarketTypes
  BY <1>1, IdleType, RestingHolds, MarketAssumption DEF MarketInit, MarketTypes
<1>3. InTurn /\ TurnKept
  BY <1>1 DEF InTurn, TurnKept, Resting, SellsNew, UpdatesSole, At
<1>4. OneSale
  BY DEF MarketInit, OneSale, FindActive
<1> QED
  BY <1>2, <1>3, <1>4 DEF MarketInv

\* ---------------------------------------------------------------- its steps
LEMMA TickKeeps == ASSUME MarketInv, Tick PROVE MarketInv'
<1>1. now \in Int /\ now' \in 0 .. MaxNow + 1 /\ now' % 2 = 0 /\ now <= now'
  BY MarketAssumption DEF Tick, MarketInv, MarketTypes
<1>2. \A type, a : FindActive(type, a)' \subseteq FindActive(type, a)
  BY <1>1, FewerActive DEF Tick, MarketInv
<1>3. MarketTypes'
  BY <1>1 DEF Tick, MarketInv, MarketTypes
<1>4. InTurn'
  BY DEF Tick, MarketInv, InTurn, Resting
<1>5. ASSUME made \in Alone, NEW c \in Calls PROVE SellsNew(c)' /\ UpdatesSole(c)'
  <2>1. SellsNew(c)'
    BY <1>2, <1>5 DEF Tick, MarketInv, TurnKept, SellsNew, Fresh
  <2>2. UpdatesSole(c)'
    BY <1>2, <1>5 DEF Tick, MarketInv, TurnKept, UpdatesSole, At
  <2> QED
    BY <2>1, <2>2
<1>6. TurnKept'
  BY <1>5 DEF Tick, TurnKept
<1>7. OneSale'
  BY <1>2 DEF Tick, MarketInv, OneSale
<1> QED
  BY <1>3, <1>4, <1>6, <1>7 DEF MarketInv

\* The next asset of a sale, or the next row of a request about listings, is dropped or
\* is moved to those that passed.
LEMMA HeadAndTail ==
  ASSUME NEW S, NEW s \in Seq(S), s # <<>>
  PROVE  /\ Head(s) \in S /\ Tail(s) \in Seq(S)
         /\ Head(s) = s[1] /\ 1 \in DOMAIN s
         /\ \A n \in DOMAIN Tail(s) : n + 1 \in DOMAIN s /\ Tail(s)[n] = s[n + 1]
OBVIOUS

LEMMA SkippedType ==
  ASSUME MarketTypes, NEW c \in Calls, market[c].todo # <<>>
  PROVE  /\ Skipped(c) \in Request /\ Accepted(c) \in Request
         /\ Skipped(c).todo = Tail(market[c].todo) /\ Accepted(c).todo = Tail(market[c].todo)
         /\ Skipped(c).valid = market[c].valid
         /\ Accepted(c).valid = Append(market[c].valid, Head(market[c].todo))
         /\ \A r \in {Skipped(c), Accepted(c)} :
              r.who = market[c].who /\ r.price = market[c].price /\ r.expires = market[c].expires
<1>1. market[c] \in Request
  BY DEF MarketTypes
<1>2. PICK q : q = market[c]
  OBVIOUS
<1>3. /\ q.todo \in Seq(Assets \cup Nat) /\ q.valid \in Seq(Assets \cup Nat)
      /\ q = [pc |-> q.pc, who |-> q.who, todo |-> q.todo, valid |-> q.valid, price |-> q.price,
              expires |-> q.expires, row |-> q.row, other |-> q.other]
  BY <1>1, <1>2 DEF Request
<1>4. Tail(q.todo) \in Seq(Assets \cup Nat) /\ Append(q.valid, Head(q.todo)) \in Seq(Assets \cup Nat)
  BY <1>2, <1>3, HeadAndTail
<1> QED
  BY <1>1, <1>2, <1>3, <1>4 DEF Skipped, Accepted, Request

LEMMA DistinctTail ==
  ASSUME NEW S, NEW s \in Seq(S), s # <<>>, Distinct(s)
  PROVE  /\ Distinct(Tail(s))
         /\ \A n \in DOMAIN Tail(s) : Tail(s)[n] # Head(s)
BY HeadAndTail DEF Distinct

LEMMA SellKeeps == ASSUME MarketInv, NEW c \in Calls, Sell(c) PROVE MarketInv'
<1>1. PICK w \in Wallets, batch \in Batches, p \in Prices, t \in Expiries \cup {Null} :
        Start(c, "sell", "asset",
              [Idle EXCEPT !.who = w, !.todo = batch, !.price = p, !.expires = t])
  BY DEF Sell
<1>2. PICK r : r = [Idle EXCEPT !.who = w, !.todo = batch, !.price = p, !.expires = t]
  OBVIOUS
<1>3. batch \in Seq(Assets) /\ batch \in Seq(Assets \cup Nat) /\ Distinct(batch)
  BY MarketAssumption DEF Distinct
<1>4. /\ r \in Request /\ r.who = w /\ r.todo = batch /\ r.price = p /\ r.valid = <<>>
  BY <1>2, <1>3, IdleType DEF Idle, Request
<1>5. PICK q \in Request : MarketMoved(c, q) /\ q.pc = "asset" /\ Same(q, r)
  BY <1>1, <1>2, <1>4, Starts
<1>6. /\ made[c] = "sell"
      /\ made \in Alone => \A d \in Calls : Resting(d)
      /\ UNCHANGED <<owner, rows, now, made>>
  BY <1>1, <1>2, <1>4, Starts
<1>7. Holds(made[c], q, Len(rows))
  BY <1>3, <1>4, <1>5, <1>6 DEF Holds, SellHolds, Same
<1>8. SellsNew(c)' /\ UpdatesSole(c)'
  <2>1. market'[c] = q
    BY <1>5 DEF MarketMoved, MarketInv, MarketTypes
  <2> QED
    BY <1>3, <1>4, <1>5, <1>6, <2>1 DEF SellsNew, UpdatesSole, At, Same, Distinct, Fresh
<1> QED
  BY <1>5, <1>6, <1>7, <1>8, ReadStep

LEMMA SameActive ==
  ASSUME UNCHANGED <<rows, now>>, NEW type, NEW a
  PROVE  FindActive(type, a)' = FindActive(type, a)
BY DEF FindActive, Future

\* A sale goes on to the next asset, or to the check of this one.
LEMMA SellGoesOn ==
  ASSUME MarketInv, NEW c \in Calls, made[c] = "sell", market[c].pc \in {"asset", "sales"},
         NEW pc \in {"asset", "sales"}, NEW r \in Request, Read(c, pc, r),
         r.who = market[c].who, r.price = market[c].price,
         r.todo \in Seq(Assets), r.valid \in Seq(Assets), pc = "sales" => r.todo # <<>>,
         made \in Alone => Fresh(r.todo, r.valid)
  PROVE  MarketInv'
<1>1. PICK q \in Request : MarketMoved(c, q) /\ q.pc = pc /\ Same(q, r)
  BY GoesOn DEF Read
<1>2. UNCHANGED <<owner, rows, now, made>>
  BY DEF Read, Go
<1>3. Holds(made[c], q, Len(rows))
  BY <1>1 DEF Holds, SellHolds, Same, MarketInv, MarketTypes
<1>4. market'[c] = q
  BY <1>1 DEF MarketMoved, MarketInv, MarketTypes
<1>5. PICK t, v : t = r.todo /\ v = r.valid
  OBVIOUS
<1>6. Fresh(t, v)' = Fresh(t, v)
  BY <1>2, SameActive DEF Fresh
<1>7. made \in Alone => SellsNew(c)'
  BY <1>1, <1>2, <1>4, <1>5, <1>6 DEF SellsNew, Same
<1>8. UpdatesSole(c)'
  BY <1>2 DEF UpdatesSole, At
<1> QED
  BY <1>1, <1>2, <1>3, <1>7, <1>8, ReadStep DEF Resting

\* What a sale that is under way holds.
LEMMA SellAt ==
  ASSUME MarketInv, NEW c \in Calls, made[c] = "sell", market[c].pc \in {"asset", "sales"}
  PROVE  /\ market[c] \in Request
         /\ market[c].who \in Wallets /\ market[c].price \in Prices
         /\ market[c].todo \in Seq(Assets) /\ market[c].valid \in Seq(Assets)
         /\ market[c].pc = "sales" => market[c].todo # <<>>
         /\ made \in Alone => Fresh(market[c].todo, market[c].valid)
BY DEF MarketInv, MarketTypes, Holds, SellHolds, TurnKept, SellsNew

LEMMA SkipKeeps ==
  ASSUME MarketInv, NEW c \in Calls, made[c] = "sell", market[c].pc \in {"asset", "sales"},
         market[c].todo # <<>>, Read(c, "asset", Skipped(c))
  PROVE  MarketInv'
<1>1. PICK r : r = Skipped(c)
  OBVIOUS
<1>2. /\ r \in Request /\ r.todo = Tail(market[c].todo) /\ r.valid = market[c].valid
      /\ r.who = market[c].who /\ r.price = market[c].price
  BY <1>1, SkippedType DEF MarketInv
<1>3. PICK s, v : s = market[c].todo /\ v = market[c].valid
  OBVIOUS
<1>4. /\ Tail(s) \in Seq(Assets)
      /\ \A n \in DOMAIN Tail(s) : n + 1 \in DOMAIN s /\ Tail(s)[n] = s[n + 1]
  BY <1>3, SellAt, HeadAndTail
<1>5. /\ v \in Seq(Assets) /\ s \in Seq(Assets) /\ s # <<>>
      /\ made \in Alone => Fresh(s, v)
  BY <1>3, SellAt
<1>6. made \in Alone => Fresh(Tail(s), v)
  BY <1>4, <1>5, DistinctTail DEF Fresh
<1> QED
  BY <1>1, <1>2, <1>3, <1>4, <1>5, <1>6, SellGoesOn

LEMMA FindToSellKeeps == ASSUME MarketInv, NEW c \in Calls, FindToSell(c) PROVE MarketInv'
<1>1. made[c] = "sell" /\ market[c].pc = "asset" /\ market[c].todo # <<>>
  BY DEF FindToSell, At
<1>2. CASE Read(c, "sales", market[c])
  BY <1>1, <1>2, SellAt, SellGoesOn
<1>3. CASE Read(c, "asset", Skipped(c))
  BY <1>1, <1>3, SkipKeeps
<1> QED
  BY <1>2, <1>3 DEF FindToSell

LEMMA CheckSalesKeeps == ASSUME MarketInv, NEW c \in Calls, CheckSales(c) PROVE MarketInv'
<1>1. made[c] = "sell" /\ market[c].pc = "sales"
  BY DEF CheckSales, At
<1>2. market[c].todo # <<>>
  BY <1>1, SellAt
<1>3. CASE Read(c, "asset", Skipped(c))
  BY <1>1, <1>2, <1>3, SkipKeeps
<1>4. CASE FindActive("SALE", Head(market[c].todo)) = {} /\ Read(c, "asset", Accepted(c))
  <2>1. PICK r : r = Accepted(c)
    OBVIOUS
  <2>2. PICK s, v, v2 : s = market[c].todo /\ v = market[c].valid /\ v2 = Append(v, Head(s))
    OBVIOUS
  <2>3. /\ r \in Request /\ r.todo = Tail(s) /\ r.valid = v2
        /\ r.who = market[c].who /\ r.price = market[c].price
    BY <1>2, <2>1, <2>2, SkippedType DEF MarketInv
  <2>4. s \in Seq(Assets) /\ s # <<>> /\ v \in Seq(Assets)
    BY <1>1, <1>2, <2>2, SellAt
  <2>5. /\ Tail(s) \in Seq(Assets) /\ Head(s) \in Assets /\ Head(s) = s[1] /\ 1 \in DOMAIN s
        /\ \A n \in DOMAIN Tail(s) : n + 1 \in DOMAIN s /\ Tail(s)[n] = s[n + 1]
    BY <2>4, HeadAndTail
  <2>6. /\ v2 \in Seq(Assets) /\ DOMAIN v2 = DOMAIN v \cup {Len(v) + 1}
        /\ v2[Len(v) + 1] = Head(s) /\ \A m \in DOMAIN v : v2[m] = v[m]
        /\ Len(v) + 1 \notin DOMAIN v
    BY <2>2, <2>4, <2>5
  <2>7. ASSUME made \in Alone
        PROVE  Fresh(Tail(s), v2)
    <3>1. /\ Distinct(s) /\ Distinct(v)
          /\ \A m \in DOMAIN v : /\ FindActive("SALE", v[m]) = {}
                                 /\ \A n \in DOMAIN s : v[m] # s[n]
      <4>1. Fresh(s, v)
        BY <1>1, <2>2, <2>7, SellAt
      <4> QED
        BY <4>1 DEF Fresh
    <3>2. Distinct(Tail(s)) /\ \A n \in DOMAIN Tail(s) : Tail(s)[n] # Head(s)
      BY <2>4, <3>1, DistinctTail
    <3>3. Distinct(v2)
      BY <2>5, <2>6, <3>1 DEF Distinct
    <3>4. \A m \in DOMAIN v2 : FindActive("SALE", v2[m]) = {}
      BY <1>4, <2>2, <2>6, <3>1
    <3>5. \A m \in DOMAIN v2, n \in DOMAIN Tail(s) : v2[m] # Tail(s)[n]
      BY <2>5, <2>6, <3>1, <3>2
    <3> QED
      BY <3>2, <3>3, <3>4, <3>5 DEF Fresh
  <2> QED
    BY <1>1, <1>4, <2>1, <2>3, <2>5, <2>6, <2>7, SellGoesOn
<1> QED
  BY <1>3, <1>4 DEF CheckSales

\* A step that writes rows or an owner keeps the invariant, if it adds rows at the end
\* and leaves one sale of each asset on offer.
LEMMA WriteStep ==
  ASSUME MarketInv, NEW c \in Calls, NEW q \in Request, MarketMoved(c, q), UNCHANGED <<now, made>>,
         owner' \in [Assets -> Wallets], rows' \in Seq(Row), Len(rows) <= Len(rows'),
         ~Resting(c), Holds(made[c], q, Len(rows')),
         made \in Alone => SellsNew(c)' /\ UpdatesSole(c)', OneSale'
  PROVE  MarketInv'
<1>1. market' \in [Calls -> Request] /\ market'[c] = q /\ \A d \in Calls : d # c => market'[d] = market[d]
  BY DEF MarketMoved, MarketInv, MarketTypes
<1>2. Len(rows) \in Nat /\ Len(rows') \in Nat
  BY DEF MarketInv, MarketTypes
<1>3. \A d \in Calls : Holds(made[d], market[d], Len(rows)) => Holds(made[d], market[d], Len(rows'))
  BY <1>2, HoldsStill
<1>4. \A d \in Calls : Holds(made[d], market'[d], Len(rows'))
  BY <1>1, <1>3 DEF MarketInv, MarketTypes
<1>5. MarketTypes'
  BY <1>1, <1>4 DEF MarketInv, MarketTypes
<1> QED
  BY <1>5, TurnStep DEF MarketInv

LEMMA WriterEnds ==
  ASSUME MarketInv, NEW c \in Calls, ~Resting(c), Go(c, "end", Idle),
         owner' \in [Assets -> Wallets], rows' \in Seq(Row), Len(rows) <= Len(rows'), OneSale'
  PROVE  MarketInv'
<1>1. PICK q \in Request : MarketMoved(c, q) /\ q.pc = "end"
  BY Ends
<1>2. market'[c] = q /\ UNCHANGED <<now, made>>
  BY <1>1 DEF MarketMoved, MarketInv, MarketTypes, Go
<1>3. SellsNew(c)' /\ UpdatesSole(c)'
  BY <1>1, <1>2, FreeOfTurn
<1>4. Holds(made[c], q, Len(rows'))
  BY <1>1, RestingHolds
<1> QED
  BY <1>1, <1>2, <1>3, <1>4, WriteStep

\* A request that finds a reason not to go on.
LEMMA RefusedKeeps ==
  ASSUME MarketInv, NEW c \in Calls, ~Resting(c), Read(c, "end", Idle)
  PROVE  MarketInv'
<1>1. UNCHANGED <<owner, rows, now, made>>
  BY DEF Read, Go
<1>2. OneSale'
  BY <1>1, SameActive DEF MarketInv, OneSale
<1> QED
  BY <1>1, <1>2, WriterEnds DEF Read, MarketInv, MarketTypes

LEMMA Extended ==
  ASSUME NEW S, NEW r \in Seq(S), NEW s \in Seq(S), NEW t, t = r \o s
  PROVE  /\ t \in Seq(S) /\ Len(t) = Len(r) + Len(s) /\ Len(r) \in Nat
         /\ \A i \in DOMAIN r : t[i] = r[i]
         /\ \A i \in DOMAIN t : i \in DOMAIN r \/ i - Len(r) \in 1 .. Len(s)
         /\ \A n \in 1 .. Len(s) : t[n + Len(r)] = s[n]
OBVIOUS

LEMMA InsertSalesKeeps == ASSUME MarketInv, NEW c \in Calls, InsertSales(c) PROVE MarketInv' /\ NoneReactivated
<1>1. made[c] = "sell" /\ market[c].pc = "asset"
  BY DEF InsertSales, At
<1>2. PICK v, p, t, w : /\ v = market[c].valid /\ p = market[c].price /\ t = market[c].expires
                        /\ w = market[c].who
  OBVIOUS
<1>3. /\ v \in Seq(Assets) /\ p \in Prices /\ t \in Expiries \cup {Null} /\ w \in Wallets
      /\ made \in Alone => Fresh(market[c].todo, v)
  BY <1>1, <1>2, SellAt DEF Request
<1>4. PICK s : s = [n \in DOMAIN v |-> [asset |-> v[n], type |-> "SALE", price |-> p,
                      seller |-> w, buyer |-> Null, status |-> "ACTIVE", expires |-> t]]
  OBVIOUS
<1>5. rows' = rows \o s
  BY <1>2, <1>4 DEF InsertSales
<1>6. /\ DOMAIN s = 1 .. Len(v) /\ Len(v) \in Nat
      /\ \A n \in 1 .. Len(v) : s[n] \in Row /\ s[n].asset = v[n]
  BY <1>3, <1>4 DEF Row, Statuses
<1>7. s \in Seq(Row) /\ Len(s) = Len(v)
  BY <1>4, <1>6
<1>8. /\ rows \in Seq(Row) /\ rows' \in Seq(Row) /\ Len(rows') = Len(rows) + Len(s)
      /\ Len(rows) \in Nat
      /\ \A i \in DOMAIN rows : rows'[i] = rows[i]
      /\ \A i \in DOMAIN rows' : i \in DOMAIN rows \/ i - Len(rows) \in 1 .. Len(v)
      /\ \A n \in 1 .. Len(v) : rows'[n + Len(rows)] = s[n]
  <2>1. PICK r \in Seq(Row) : r = rows
    BY DEF MarketInv, MarketTypes
  <2>2. PICK r2 : r2 = r \o s
    OBVIOUS
  <2>3. /\ r2 \in Seq(Row) /\ Len(r2) = Len(r) + Len(s) /\ Len(r) \in Nat
        /\ \A i \in DOMAIN r : r2[i] = r[i]
        /\ \A i \in DOMAIN r2 : i \in DOMAIN r \/ i - Len(r) \in 1 .. Len(s)
        /\ \A n \in 1 .. Len(s) : r2[n + Len(r)] = s[n]
    <3>1. s \in Seq(Row)
      BY <1>7
    <3> QED
      BY <2>2, <3>1, Extended
  <2>4. rows' = r2
    BY <1>5, <2>1, <2>2
  <2> QED
    BY <1>7, <2>1, <2>3, <2>4
<1>9. UNCHANGED <<now, made, owner>> /\ Go(c, "end", Idle)
  BY DEF InsertSales, Go
<1>10. ASSUME made \in Alone, NEW a \in Assets, NEW i \in FindActive("SALE", a)'
       PROVE  \/ i \in FindActive("SALE", a)
              \/ /\ i - Len(rows) \in 1 .. Len(v) /\ i \in Int /\ v[i - Len(rows)] = a
                 /\ FindActive("SALE", a) = {}
  <2>1. i \in DOMAIN rows' /\ rows'[i].type = "SALE" /\ rows'[i].asset = a
        /\ rows'[i].status = "ACTIVE" /\ rows'[i].expires \in Future \cup {Null}
    BY <1>9 DEF FindActive, Future
  <2>2. CASE i \in DOMAIN rows
    BY <1>8, <2>1, <2>2 DEF FindActive
  <2>3. CASE i - Len(rows) \in 1 .. Len(v)
    <3>1. i \in Int /\ rows'[i] = s[i - Len(rows)]
      BY <1>8, <2>1, <2>3
    <3>2. v[i - Len(rows)] = a
      BY <1>6, <2>1, <2>3, <3>1
    <3> QED
      BY <1>3, <1>10, <2>3, <3>1, <3>2 DEF Fresh
  <2> QED
    BY <1>8, <2>1, <2>2, <2>3
<1>11. OneSale'
  <2> SUFFICES ASSUME made \in Alone, NEW a \in Assets,
                      NEW i \in FindActive("SALE", a)', NEW j \in FindActive("SALE", a)'
               PROVE  i = j
    BY <1>9 DEF OneSale
  <2>1. CASE i \in FindActive("SALE", a) /\ j \in FindActive("SALE", a)
    BY <2>1 DEF MarketInv, OneSale
  <2>2. CASE ~(i \in FindActive("SALE", a) /\ j \in FindActive("SALE", a))
    <3>1. /\ i - Len(rows) \in 1 .. Len(v) /\ i \in Int /\ v[i - Len(rows)] = a
          /\ j - Len(rows) \in 1 .. Len(v) /\ j \in Int /\ v[j - Len(rows)] = a
      BY <1>10, <2>2
    <3>2. i - Len(rows) = j - Len(rows)
      BY <1>3, <3>1 DEF Fresh, Distinct
    <3> QED
      BY <1>8, <3>1, <3>2
  <2> QED
    BY <2>1, <2>2
<1>12. NoneReactivated
  BY <1>8 DEF NoneReactivated
<1>13. ~Resting(c)
  BY <1>1 DEF Resting
<1>14. owner' \in [Assets -> Wallets] /\ Len(rows) <= Len(rows')
  BY <1>6, <1>7, <1>8, <1>9 DEF MarketInv, MarketTypes
<1>15. MarketInv'
  BY <1>8, <1>9, <1>11, <1>13, <1>14, WriterEnds
<1> QED
  BY <1>12, <1>15

\* --------------------------------------------------------------------- bids
LEMMA BidKeeps == ASSUME MarketInv, NEW c \in Calls, Bid(c) PROVE MarketInv'
<1>1. PICK w \in Wallets, a \in Assets, p \in Prices, t \in Future \cup {Null} :
        Start(c, "bid", "best", [Idle EXCEPT !.who = w, !.todo = <<a>>, !.price = p,
                                             !.expires = t, !.other = owner[a]])
  BY DEF Bid
<1>2. PICK o, r : /\ o = owner[a]
                  /\ r = [Idle EXCEPT !.who = w, !.todo = <<a>>, !.price = p, !.expires = t,
                                      !.other = o]
  OBVIOUS
<1>3. <<a>> \in Seq(Assets) /\ <<a>> \in Seq(Assets \cup Nat) /\ <<a>> # <<>>
  OBVIOUS
<1>4. o \in Wallets /\ t \in Expiries \cup {Null}
  BY <1>2 DEF MarketInv, MarketTypes, Future
<1>5. r \in Request /\ r.who = w /\ r.todo = <<a>> /\ r.price = p /\ r.other = o
  BY <1>2, <1>3, <1>4, IdleType DEF Idle, Request
<1>6. PICK q \in Request : MarketMoved(c, q) /\ q.pc = "best" /\ Same(q, r)
  BY <1>1, <1>2, <1>5, Starts
<1>7. /\ made[c] = "bid"
      /\ made \in Alone => \A d \in Calls : Resting(d)
      /\ UNCHANGED <<owner, rows, now, made>>
  BY <1>1, <1>2, <1>5, Starts
<1>8. Holds(made[c], q, Len(rows))
  BY <1>3, <1>4, <1>5, <1>6, <1>7 DEF Holds, BidHolds, Same
<1>9. SellsNew(c)' /\ UpdatesSole(c)'
  BY <1>7, FreeOfTurn
<1> QED
  BY <1>6, <1>7, <1>8, <1>9, ReadStep

LEMMA BidGoesOn ==
  ASSUME MarketInv, NEW c \in Calls, made[c] = "bid", market[c].pc \in {"best", "mine", "insert"},
         NEW pc \in {"best", "mine", "insert"}, Read(c, pc, market[c])
  PROVE  MarketInv'
<1>1. PICK r \in Request : r = market[c]
  BY DEF MarketInv, MarketTypes
<1>2. PICK q \in Request : MarketMoved(c, q) /\ q.pc = pc /\ Same(q, r)
  BY <1>1, GoesOn DEF Read
<1>3. UNCHANGED <<owner, rows, now, made>>
  BY DEF Read, Go
<1>4. Holds(made[c], q, Len(rows))
  BY <1>1, <1>2 DEF Holds, BidHolds, Same, MarketInv, MarketTypes
<1>5. SellsNew(c)' /\ UpdatesSole(c)'
  BY <1>3, FreeOfTurn
<1> QED
  BY <1>2, <1>3, <1>4, <1>5, ReadStep DEF Resting

LEMMA CheckBestBidKeeps == ASSUME MarketInv, NEW c \in Calls, CheckBestBid(c) PROVE MarketInv'
BY BidGoesOn, RefusedKeeps DEF CheckBestBid, At, Resting

LEMMA CheckOwnBidKeeps == ASSUME MarketInv, NEW c \in Calls, CheckOwnBid(c) PROVE MarketInv'
BY BidGoesOn, RefusedKeeps DEF CheckOwnBid, At, Resting

LEMMA InsertBidKeeps == ASSUME MarketInv, NEW c \in Calls, InsertBid(c) PROVE MarketInv' /\ NoneReactivated
<1>1. made[c] = "bid" /\ market[c].pc = "insert"
  BY DEF InsertBid, At
<1>2. PICK q \in Request : q = market[c]
  BY DEF MarketInv, MarketTypes
<1>3. PICK b : b = [asset |-> Head(q.todo), type |-> "BID", price |-> q.price,
                    seller |-> q.other, buyer |-> q.who, status |-> "ACTIVE",
                    expires |-> q.expires]
  OBVIOUS
<1>4. /\ q.who \in Wallets /\ q.other \in Wallets /\ q.price \in Prices
      /\ Head(q.todo) \in Assets /\ q.expires \in Expiries \cup {Null}
  BY <1>1, <1>2, HeadAndTail DEF MarketInv, MarketTypes, Holds, BidHolds, Request
<1>5. b \in Row /\ b.type = "BID"
  BY <1>3, <1>4 DEF Row, Statuses
<1>6. rows' = Append(rows, b) /\ UNCHANGED <<now, made, owner>> /\ Go(c, "end", Idle)
  BY <1>2, <1>3 DEF InsertBid, Go
<1>7. /\ rows' \in Seq(Row) /\ Len(rows') = Len(rows) + 1 /\ Len(rows) \in Nat
      /\ DOMAIN rows' = DOMAIN rows \cup {Len(rows) + 1} /\ rows'[Len(rows) + 1] = b
      /\ \A i \in DOMAIN rows : rows'[i] = rows[i]
  BY <1>5, <1>6 DEF MarketInv, MarketTypes
<1>8. \A a : FindActive("SALE", a)' \subseteq FindActive("SALE", a)
  BY <1>5, <1>6, <1>7 DEF FindActive, Future
<1>9. OneSale'
  BY <1>6, <1>8 DEF MarketInv, OneSale
<1>10. NoneReactivated
  BY <1>7 DEF NoneReactivated
<1> QED
  BY <1>10, <1>1, <1>6, <1>7, <1>9, WriterEnds DEF Resting, MarketInv, MarketTypes

\* ------------------------------------------------------ accept, reject, buy
LEMMA RowAt == ASSUME MarketTypes, NEW i \in DOMAIN rows PROVE rows[i] \in Row
BY DEF MarketTypes

LEMMA AnswerStarts ==
  ASSUME MarketInv, NEW c \in Calls, NEW kind \in {"accept", "reject", "buy"},
         NEW i \in DOMAIN rows, NEW status \in {"COMPLETED", "CANCELLED"},
         Start(c, kind, "write", [Idle EXCEPT !.todo = <<i>>, !.row = [rows[i] EXCEPT !.status = status]])
  PROVE  MarketInv'
<1>1. PICK k, r : /\ k = [rows[i] EXCEPT !.status = status]
                  /\ r = [Idle EXCEPT !.todo = <<i>>, !.row = k]
  OBVIOUS
<1>2. k \in Row /\ k.status # "ACTIVE"
  <2>1. rows[i] \in Row
    BY RowAt DEF MarketInv
  <2> QED
    BY <1>1, <2>1 DEF Row, Statuses
<1>3. /\ <<i>> \in Seq(Assets \cup Nat) /\ <<i>> # <<>> /\ Head(<<i>>) = i
      /\ DOMAIN rows = 1 .. Len(rows)
  BY DEF MarketInv, MarketTypes
<1>4. r \in Request /\ r.todo = <<i>> /\ r.row = k
  <2>1. r.todo = <<i>> /\ r.row = k
    BY <1>1 DEF Idle
  <2>2. r \in Request
    BY <1>1, <1>2, <1>3, IdleType DEF Request
  <2> QED BY <2>1, <2>2
<1>5. PICK q \in Request : MarketMoved(c, q) /\ q.pc = "write" /\ Same(q, r)
  BY <1>1, <1>4, Starts
<1>6. /\ made[c] = kind
      /\ made \in Alone => \A d \in Calls : Resting(d)
      /\ UNCHANGED <<owner, rows, now, made>>
  BY <1>1, <1>4, Starts
<1>7. Holds(made[c], q, Len(rows))
  BY <1>2, <1>3, <1>4, <1>5, <1>6 DEF Holds, AnswerHolds, Same
<1>8. SellsNew(c)' /\ UpdatesSole(c)'
  BY <1>6, FreeOfTurn
<1> QED
  BY <1>5, <1>6, <1>7, <1>8, ReadStep

LEMMA AcceptKeeps == ASSUME MarketInv, NEW c \in Calls, Accept(c) PROVE MarketInv'
BY AnswerStarts DEF Accept

LEMMA RejectKeeps == ASSUME MarketInv, NEW c \in Calls, Reject(c) PROVE MarketInv'
BY AnswerStarts DEF Reject

LEMMA BuyKeeps == ASSUME MarketInv, NEW c \in Calls, Buy(c) PROVE MarketInv'
<1>1. PICK i \in DOMAIN rows :
        Start(c, "buy", "write", [Idle EXCEPT !.todo = <<i>>,
                                    !.row = [rows[i] EXCEPT !.status = "COMPLETED"]])
  BY DEF Buy
<1> QED
  BY <1>1, AnswerStarts

\* Rows that are overwritten one for one, by rows of the same asset and type, of which
\* none comes on offer.
Overwrites(r) ==
  /\ r \in Seq(Row) /\ Len(r) = Len(rows)
  /\ \A i \in DOMAIN rows : r[i] = rows[i] \/ r[i].status # "ACTIVE"

LEMMA OverwrittenActive ==
  ASSUME MarketInv, NEW r, Overwrites(r), rows' = r, UNCHANGED now, NEW a
  PROVE  FindActive("SALE", a)' \subseteq FindActive("SALE", a)
<1>1. DOMAIN rows' = DOMAIN rows
  BY DEF Overwrites, MarketInv, MarketTypes
<1> QED
  BY <1>1 DEF FindActive, Future, Overwrites

LEMMA OverwriteKeeps ==
  ASSUME MarketInv, NEW c \in Calls, ~Resting(c), Go(c, "end", Idle), UNCHANGED owner,
         NEW r, Overwrites(r), rows' = r
  PROVE  MarketInv'
<1>1. UNCHANGED <<now, made>>
  BY DEF Go
<1>2. OneSale'
  BY <1>1, OverwrittenActive DEF MarketInv, OneSale
<1>3. Len(rows) <= Len(rows') /\ rows' \in Seq(Row) /\ owner' \in [Assets -> Wallets]
  BY DEF Overwrites, MarketInv, MarketTypes
<1> QED
  BY <1>2, <1>3, WriterEnds

LEMMA WriteStatusKeeps == ASSUME MarketInv, NEW c \in Calls, WriteStatus(c) PROVE MarketInv' /\ NoneReactivated
<1>1. /\ made[c] \in {"accept", "reject", "buy"} /\ market[c].pc = "write"
      /\ rows' = WriteRow(Head(market[c].todo), market[c].row)
      /\ Go(c, "end", Idle) /\ UNCHANGED owner
  BY DEF WriteStatus
<1>2. PICK i, k : i = Head(market[c].todo) /\ k = market[c].row
  OBVIOUS
<1>3. k \in Row /\ k.status # "ACTIVE" /\ i \in DOMAIN rows
  BY <1>1, <1>2 DEF MarketInv, MarketTypes, Holds, AnswerHolds
<1>4. PICK z : z = [k EXCEPT !.expires = IF @ = Null THEN rows[i].expires ELSE @]
  OBVIOUS
<1>5. z \in Row /\ z.status # "ACTIVE"
  <2>1. rows[i].expires \in Expiries \cup {Null}
    BY <1>3, RowAt DEF MarketInv, Row
  <2> QED
    BY <1>3, <1>4, <2>1 DEF Row
<1>6. rows' = [rows EXCEPT ![i] = z]
  BY <1>1, <1>2, <1>4 DEF WriteRow
<1>7. Overwrites(rows')
  BY <1>3, <1>5, <1>6 DEF Overwrites, MarketInv, MarketTypes
<1>8. PICK r : r = rows'
  OBVIOUS
<1>9. NoneReactivated
  BY <1>7 DEF NoneReactivated, Overwrites
<1> QED
  BY <1>9, <1>1, <1>7, <1>8, OverwriteKeeps DEF Resting

\* ----------------------------------------------------------- cancel, update
LEMMA ListingsType ==
  ASSUME MarketTypes, NEW l \in Listings
  PROVE  l \in Seq(1 .. Len(rows)) /\ l \in Seq(Assets \cup Nat)
<1>1. DOMAIN rows = 1 .. Len(rows) /\ Len(rows) \in Nat
  BY DEF MarketTypes
<1>2. CASE l \in {<<i>> : i \in DOMAIN rows}
  <2>1. PICK i \in 1 .. Len(rows) : l = <<i>>
    BY <1>1, <1>2
  <2>2. i \in Assets \cup Nat
    BY <1>1
  <2> QED
    BY <2>1, <2>2
<1>3. CASE l \in [1 .. 2 -> DOMAIN rows]
  <2>1. l = <<l[1], l[2]>> /\ l[1] \in 1 .. Len(rows) /\ l[2] \in 1 .. Len(rows)
    BY <1>1, <1>3
  <2>2. PICK i, j \in 1 .. Len(rows) : l = <<i, j>>
    BY <2>1
  <2>3. i \in Assets \cup Nat /\ j \in Assets \cup Nat
    BY <1>1
  <2> QED
    BY <2>2, <2>3
<1> QED
  BY <1>2, <1>3 DEF Listings

LEMMA ListingsStart ==
  ASSUME MarketInv, NEW c \in Calls, NEW kind \in {"cancel", "update"}, NEW w \in Wallets,
         NEW l \in Listings, NEW p \in Prices \cup {Null}, NEW t \in Expiries \cup {Null},
         NEW r \in Request, r.todo = l, Start(c, kind, "read", r)
  PROVE  MarketInv'
<1>1. PICK q \in Request : MarketMoved(c, q) /\ q.pc = "read" /\ Same(q, r)
  BY Starts
<1>2. /\ made[c] = kind
      /\ made \in Alone => \A d \in Calls : Resting(d)
      /\ UNCHANGED <<owner, rows, now, made>>
  BY Starts
<1>3. l \in Seq(1 .. Len(rows))
  BY ListingsType DEF MarketInv
<1>4. Holds(made[c], q, Len(rows))
  BY <1>1, <1>2, <1>3 DEF Holds, ListingsHold, Same
<1>5. market'[c] = q
  BY <1>1 DEF MarketMoved, MarketInv, MarketTypes
<1>6. SellsNew(c)' /\ UpdatesSole(c)'
  BY <1>1, <1>2, <1>5 DEF SellsNew, UpdatesSole, At
<1> QED
  BY <1>1, <1>2, <1>4, <1>6, ReadStep

LEMMA CancelKeeps == ASSUME MarketInv, NEW c \in Calls, Cancel(c) PROVE MarketInv'
<1>1. PICK w \in Wallets, l \in Listings :
        Start(c, "cancel", "read", [Idle EXCEPT !.who = w, !.todo = l])
  BY DEF Cancel
<1>2. PICK r : r = [Idle EXCEPT !.who = w, !.todo = l]
  OBVIOUS
<1>3. l \in Seq(Assets \cup Nat)
  BY ListingsType DEF MarketInv
<1>4. r \in Request /\ r.todo = l
  BY <1>2, <1>3, IdleType DEF Idle, Request
<1> QED
  BY <1>1, <1>2, <1>4, ListingsStart

LEMMA UpdateKeeps == ASSUME MarketInv, NEW c \in Calls, Update(c) PROVE MarketInv'
<1>1. PICK w \in Wallets, l \in Listings, p \in Prices \cup {Null}, t \in Expiries \cup {Null} :
        Start(c, "update", "read",
              [Idle EXCEPT !.who = w, !.todo = l, !.price = p, !.expires = t])
  BY DEF Update
<1>2. PICK r : r = [Idle EXCEPT !.who = w, !.todo = l, !.price = p, !.expires = t]
  OBVIOUS
<1>3. l \in Seq(Assets \cup Nat)
  BY ListingsType DEF MarketInv
<1>4. r \in Request /\ r.todo = l
  BY <1>2, <1>3, IdleType DEF Idle, Request
<1> QED
  BY <1>1, <1>2, <1>4, ListingsStart

LEMMA ListingsAt ==
  ASSUME MarketInv, NEW c \in Calls, made[c] \in {"cancel", "update"},
         market[c].pc \in {"read", "write"}
  PROVE  /\ market[c] \in Request /\ market[c].todo \in Seq(1 .. Len(rows))
         /\ market[c].pc = "write" => market[c].todo # <<>>
BY DEF MarketInv, MarketTypes, Holds, ListingsHold

\* The request goes on with the next row.
LEMMA ListingsGoOn ==
  ASSUME MarketInv, NEW c \in Calls, made[c] \in {"cancel", "update"},
         market[c].pc = "read", market[c].todo # <<>>,
         NEW r \in {Skipped(c), Accepted(c)}, Read(c, "read", r)
  PROVE  MarketInv'
<1>1. PICK s : s = market[c].todo
  OBVIOUS
<1>2. r \in Request /\ r.todo = Tail(s)
  BY <1>1, SkippedType DEF MarketInv
<1>3. Tail(s) \in Seq(1 .. Len(rows))
  BY <1>1, ListingsAt, HeadAndTail
<1>4. PICK q \in Request : MarketMoved(c, q) /\ q.pc = "read" /\ Same(q, r)
  BY <1>2, GoesOn DEF Read
<1>5. UNCHANGED <<owner, rows, now, made>>
  BY DEF Read, Go
<1>6. Holds(made[c], q, Len(rows))
  BY <1>2, <1>3, <1>4 DEF Holds, ListingsHold, Same
<1>7. market'[c] = q
  BY <1>4 DEF MarketMoved, MarketInv, MarketTypes
<1>8. SellsNew(c)' /\ UpdatesSole(c)'
  BY <1>4, <1>5, <1>7 DEF SellsNew, UpdatesSole, At
<1> QED
  BY <1>4, <1>5, <1>6, <1>8, ReadStep DEF Resting

LEMMA CheckToCancelKeeps == ASSUME MarketInv, NEW c \in Calls, CheckToCancel(c) PROVE MarketInv'
<1>1. made[c] = "cancel" /\ market[c].pc = "read" /\ market[c].todo # <<>>
  BY DEF CheckToCancel, At
<1>2. PICK r \in {Skipped(c), Accepted(c)} : Read(c, "read", r)
  BY DEF CheckToCancel
<1> QED
  BY <1>1, <1>2, ListingsGoOn

LEMMA CancelListingsKeeps == ASSUME MarketInv, NEW c \in Calls, CancelListings(c) PROVE MarketInv' /\ NoneReactivated
<1>1. PICK r : r = [i \in DOMAIN rows |->
               IF rows[i].status = "ACTIVE" /\ \E n \in DOMAIN market[c].valid : market[c].valid[n] = i
                 THEN [rows[i] EXCEPT !.status = "CANCELLED"]
                 ELSE rows[i]]
  OBVIOUS
<1>2. rows' = r /\ Go(c, "end", Idle) /\ UNCHANGED owner /\ ~Resting(c)
  BY <1>1 DEF CancelListings, At, Resting
<1>3. \A k \in Row : [k EXCEPT !.status = "CANCELLED"] \in Row
                     /\ [k EXCEPT !.status = "CANCELLED"].status # "ACTIVE"
  BY DEF Row, Statuses
<1>4. DOMAIN r = DOMAIN rows /\ \A i \in DOMAIN rows : r[i] \in Row /\ (r[i] = rows[i] \/ r[i].status # "ACTIVE")
  BY <1>1, <1>3, RowAt DEF MarketInv
<1>5. DOMAIN rows = 1 .. Len(rows) /\ Len(rows) \in Nat
  BY DEF MarketInv, MarketTypes
<1>6. r \in Seq(Row) /\ Len(r) = Len(rows)
  BY <1>1, <1>4, <1>5
<1>7. NoneReactivated
  BY <1>2, <1>4 DEF NoneReactivated
<1> QED
  BY <1>7, <1>2, <1>4, <1>6, OverwriteKeeps DEF Overwrites

LEMMA CheckToUpdateKeeps == ASSUME MarketInv, NEW c \in Calls, CheckToUpdate(c) PROVE MarketInv'
<1>1. made[c] = "update" /\ market[c].pc = "read" /\ ~Resting(c)
  BY DEF CheckToUpdate, At, Resting
<1>2. CASE market[c].todo = <<>>
  BY <1>1, <1>2, RefusedKeeps DEF CheckToUpdate
<1>3. CASE market[c].todo # <<>> /\ Read(c, "read", Skipped(c))
  BY <1>1, <1>3, ListingsGoOn
<1>4. CASE /\ market[c].todo # <<>> /\ IsActive(rows[Head(market[c].todo)])
           /\ Read(c, "write", market[c])
  <2>1. PICK r : r = market[c]
    OBVIOUS
  <2>2. r \in Request /\ r.todo \in Seq(1 .. Len(rows)) /\ r.todo # <<>>
    BY <1>1, <1>4, <2>1, ListingsAt
  <2>3. PICK q \in Request : MarketMoved(c, q) /\ q.pc = "write" /\ Same(q, r)
    BY <1>4, <2>1, <2>2, GoesOn DEF Read
  <2>4. UNCHANGED <<owner, rows, now, made>>
    BY <1>4 DEF Read, Go
  <2>5. Holds(made[c], q, Len(rows))
    BY <1>1, <2>2, <2>3 DEF Holds, ListingsHold, Same
  <2>6. market'[c] = q
    BY <2>3 DEF MarketMoved, MarketInv, MarketTypes
  <2>7. PICK i \in DOMAIN rows : i = Head(r.todo)
    BY <2>2, HeadAndTail DEF MarketInv, MarketTypes
  <2>8. IsActive(rows[i]) /\ rows[i] \in Row
    BY <1>4, <2>1, <2>7, RowAt DEF MarketInv
  <2>9. rows[i].status = "ACTIVE" /\ rows[i].expires \in Future \cup {Null}
    <3>1. rows[i].expires \in Expiries \cup {Null}
      BY <2>8 DEF Row
    <3>2. now \in Int /\ now % 2 = 0
      BY DEF MarketInv, MarketTypes
    <3>3. \A t \in Expiries : t \in Int /\ t % 2 = 1
      BY MarketAssumption
    <3>4. \A t \in Expiries : t > now \/ now > t
      BY <3>2, <3>3
    <3> QED
      BY <2>8, <3>1, <3>4 DEF IsActive, IsExpired, Future
  <2>10. PICK a \in Assets : a = rows[i].asset
    BY <2>8 DEF Row
  <2>11. made \in Alone /\ rows[i].type = "SALE" => FindActive("SALE", a) \subseteq {i}
    BY <2>9, <2>10 DEF FindActive, MarketInv, OneSale
  <2>12. FindActive("SALE", a)' = FindActive("SALE", a)
    BY <2>4, SameActive
  <2>13. Head(market'[c].todo) = i
    BY <2>3, <2>6, <2>7 DEF Same
  <2>14. made \in Alone => UpdatesSole(c)'
    BY <2>4, <2>10, <2>11, <2>12, <2>13 DEF UpdatesSole, At
  <2>15. SellsNew(c)'
    BY <1>1, <2>4 DEF SellsNew
  <2> QED
    BY <1>1, <2>3, <2>4, <2>5, <2>14, <2>15, ReadStep
<1> QED
  BY <1>2, <1>3, <1>4 DEF CheckToUpdate

\* The row that the columns named by the seller are written to.
LEMMA WrittenColumns ==
  ASSUME MarketInv, NEW i \in DOMAIN rows, NEW p \in Prices \cup {Null},
         NEW t \in Expiries \cup {Null}, NEW r, r = WriteColumns(i, p, t)
  PROVE  /\ r \in Seq(Row) /\ Len(r) = Len(rows) /\ DOMAIN r = DOMAIN rows
         /\ \A j \in DOMAIN rows : j # i => r[j] = rows[j]
         /\ r[i].status = rows[i].status /\ r[i].type = rows[i].type /\ r[i].asset = rows[i].asset
<1>1. rows[i] \in Row
  BY RowAt DEF MarketInv
<1>2. PICK k : k = [rows[i] EXCEPT !.price = IF p = Null THEN @ ELSE p,
                                   !.expires = IF t = Null THEN @ ELSE t]
  OBVIOUS
<1>3. k \in Row /\ k.status = rows[i].status /\ k.type = rows[i].type /\ k.asset = rows[i].asset
  BY <1>1, <1>2 DEF Row
<1>4. r = [rows EXCEPT ![i] = k]
  BY <1>1, <1>2 DEF WriteColumns
<1> QED
  BY <1>3, <1>4 DEF MarketInv, MarketTypes

LEMMA UpdateListingKeeps == ASSUME MarketInv, NEW c \in Calls, UpdateListing(c) PROVE MarketInv' /\ NoneReactivated
<1>1. /\ made[c] = "update" /\ market[c].pc = "write" /\ ~Resting(c)
      /\ Go(c, "read", Skipped(c)) /\ UNCHANGED <<owner, now, made>>
  BY DEF UpdateListing, At, Resting, Go
<1>2. PICK s, p, t, r : /\ s = market[c].todo /\ p = market[c].price /\ t = market[c].expires
                        /\ r = rows'
  OBVIOUS
<1>3. /\ s \in Seq(1 .. Len(rows)) /\ s # <<>>
      /\ p \in Prices \cup {Null} /\ t \in Expiries \cup {Null}
  BY <1>1, <1>2, ListingsAt DEF Request
<1>4. Head(s) \in 1 .. Len(rows) /\ Tail(s) \in Seq(1 .. Len(rows))
  BY <1>3, HeadAndTail
<1>5. PICK i \in DOMAIN rows : i = Head(s)
  BY <1>4 DEF MarketInv, MarketTypes
<1>6. r = WriteColumns(i, p, t)
  BY <1>2, <1>5 DEF UpdateListing
<1>7. /\ r \in Seq(Row) /\ Len(r) = Len(rows) /\ DOMAIN r = DOMAIN rows
      /\ \A j \in DOMAIN rows : j # i => r[j] = rows[j]
      /\ r[i].status = rows[i].status /\ r[i].type = rows[i].type /\ r[i].asset = rows[i].asset
  BY <1>3, <1>6, WrittenColumns
<1>8. PICK z : z = Skipped(c)
  OBVIOUS
<1>9. z \in Request /\ z.todo = Tail(s)
  BY <1>2, <1>3, <1>8, SkippedType DEF MarketInv
<1>10. PICK q \in Request : MarketMoved(c, q) /\ q.pc = "read" /\ Same(q, z)
  BY <1>1, <1>8, <1>9, GoesOn
<1>11. Holds(made[c], q, Len(rows'))
  BY <1>1, <1>2, <1>4, <1>7, <1>9, <1>10 DEF Holds, ListingsHold, Same
<1>12. market'[c] = q
  BY <1>10 DEF MarketMoved, MarketInv, MarketTypes
<1>13. SellsNew(c)' /\ UpdatesSole(c)'
  BY <1>1, <1>10, <1>12 DEF SellsNew, UpdatesSole, At
<1>14. \A a, j : j \in FindActive("SALE", a)' /\ j # i => j \in FindActive("SALE", a)
  BY <1>1, <1>2, <1>7 DEF FindActive, Future
<1>15. ASSUME made \in Alone, NEW a \in Assets, NEW j, j \in FindActive("SALE", a),
              i \in FindActive("SALE", a)'
       PROVE  j = i
  <2>1. rows[i].type = "SALE" /\ rows[i].asset = a
    BY <1>2, <1>7, <1>15 DEF FindActive
  <2>2. FindActive("SALE", a) \subseteq {i}
    BY <1>1, <1>2, <1>5, <1>15, <2>1 DEF MarketInv, TurnKept, UpdatesSole, At
  <2> QED
    BY <1>15, <2>2
<1>16. OneSale'
  <2> SUFFICES ASSUME made \in Alone, NEW a \in Assets,
                      NEW j \in FindActive("SALE", a)', NEW k \in FindActive("SALE", a)'
               PROVE  j = k
    BY <1>1 DEF OneSale
  <2>1. CASE j # i /\ k # i
    BY <1>14, <2>1 DEF MarketInv, OneSale
  <2>2. CASE j = i /\ k # i
    BY <1>14, <1>15, <2>2
  <2>3. CASE j # i /\ k = i
    BY <1>14, <1>15, <2>3
  <2> QED
    BY <2>1, <2>2, <2>3
<1>17. owner' \in [Assets -> Wallets] /\ rows' \in Seq(Row) /\ Len(rows) <= Len(rows')
  BY <1>1, <1>2, <1>7 DEF MarketInv, MarketTypes
<1>18. NoneReactivated
  BY <1>2, <1>7 DEF NoneReactivated
<1> QED
  BY <1>18, <1>1, <1>10, <1>11, <1>13, <1>16, <1>17, WriteStep

\* ----------------------------------------------------------------- transfer
LEMMA TransferKeeps == ASSUME MarketInv, NEW c \in Calls, Transfer(c) PROVE MarketInv'
<1>1. PICK w \in Wallets, a \in Assets :
        Start(c, "transfer", "write", [Idle EXCEPT !.todo = <<a>>, !.other = w])
  BY DEF Transfer
<1>2. PICK r : r = [Idle EXCEPT !.todo = <<a>>, !.other = w]
  OBVIOUS
<1>3. <<a>> \in Seq(Assets) /\ <<a>> \in Seq(Assets \cup Nat) /\ <<a>> # <<>>
  OBVIOUS
<1>4. r \in Request /\ r.todo = <<a>> /\ r.other = w
  BY <1>2, <1>3, IdleType DEF Idle, Request
<1>5. PICK q \in Request : MarketMoved(c, q) /\ q.pc = "write" /\ Same(q, r)
  BY <1>1, <1>2, <1>4, Starts
<1>6. /\ made[c] = "transfer"
      /\ made \in Alone => \A d \in Calls : Resting(d)
      /\ UNCHANGED <<owner, rows, now, made>>
  BY <1>1, <1>2, <1>4, Starts
<1>7. Holds(made[c], q, Len(rows))
  BY <1>3, <1>4, <1>5, <1>6 DEF Holds, TransferHolds, Same
<1>8. SellsNew(c)' /\ UpdatesSole(c)'
  BY <1>6, FreeOfTurn
<1> QED
  BY <1>5, <1>6, <1>7, <1>8, ReadStep

LEMMA WriteOwnerKeeps == ASSUME MarketInv, NEW c \in Calls, WriteOwner(c) PROVE MarketInv'
<1>1. /\ made[c] = "transfer" /\ market[c].pc = "write" /\ ~Resting(c)
      /\ Go(c, "end", Idle) /\ UNCHANGED <<rows, now, made>>
  BY DEF WriteOwner, At, Resting, Go
<1>2. owner' \in [Assets -> Wallets]
  <2>1. market[c].other \in Wallets
    BY <1>1 DEF MarketInv, MarketTypes, Holds, TransferHolds
  <2> QED
    BY <2>1 DEF WriteOwner, MarketInv, MarketTypes
<1>3. OneSale'
  BY <1>1, SameActive DEF MarketInv, OneSale
<1>4. rows' \in Seq(Row) /\ Len(rows) <= Len(rows')
  BY <1>1 DEF MarketInv, MarketTypes
<1> QED
  BY <1>1, <1>2, <1>3, <1>4, WriterEnds

\* -------------------------------------------------------- the marketplace's theorems
LEMMA MarketNextInv == MarketInv /\ [MarketNext]_marketVars => MarketInv'
<1> SUFFICES ASSUME MarketInv, [MarketNext]_marketVars PROVE MarketInv'
  OBVIOUS
<1>1. CASE UNCHANGED marketVars
  <2>1. UNCHANGED <<owner, rows, now, market, made>>
    BY <1>1 DEF marketVars
  <2>2. MarketTypes' /\ InTurn'
    BY <2>1 DEF MarketInv, MarketTypes, InTurn, Resting
  <2>3. OneSale'
    BY <2>1, SameActive DEF MarketInv, OneSale
  <2>4. ASSUME NEW c \in Calls, made \in Alone PROVE SellsNew(c)' /\ UpdatesSole(c)'
    BY <2>1, <2>4, SameActive DEF MarketInv, TurnKept, SellsNew, Fresh, UpdatesSole, At
  <2>5. TurnKept'
    BY <2>1, <2>4 DEF TurnKept
  <2> QED
    BY <2>2, <2>3, <2>5 DEF MarketInv
<1>2. CASE Tick
  BY <1>2, TickKeeps
<1>3. CASE \E c \in Calls : MarketStep(c)
  <2>1. PICK c \in Calls : MarketStep(c)
    BY <1>3
  <2> QED
    BY <2>1, SellKeeps, FindToSellKeeps, CheckSalesKeeps, InsertSalesKeeps, BidKeeps,
       CheckBestBidKeeps, CheckOwnBidKeeps, InsertBidKeeps, AcceptKeeps, RejectKeeps,
       BuyKeeps, WriteStatusKeeps, CancelKeeps, CheckToCancelKeeps, CancelListingsKeeps,
       UpdateKeeps, CheckToUpdateKeeps, UpdateListingKeeps, TransferKeeps, WriteOwnerKeeps
       DEF MarketStep
<1> QED
  BY <1>1, <1>2, <1>3 DEF MarketNext

LEMMA MarketInvTypes == MarketInv => MarketTypeOK
BY RowAt DEF MarketInv, MarketTypes, MarketTypeOK

LEMMA MarketInvOneSale == MarketInv => OneActiveSale
<1> SUFFICES ASSUME MarketInv, made \in Alone, NEW a \in Assets
             PROVE  Cardinality(FindActive("SALE", a)) <= 1
  BY DEF OneActiveSale
<1>1. \A i, j \in FindActive("SALE", a) : i = j
  BY DEF MarketInv, OneSale
<1>2. CASE FindActive("SALE", a) = {}
  BY <1>2, FS_EmptySet
<1>3. CASE \E i : FindActive("SALE", a) = {i}
  <2>1. PICK i : FindActive("SALE", a) = {i}
    BY <1>3
  <2>2. Cardinality({i}) = 1
    BY FS_Singleton
  <2> QED
    BY <2>1, <2>2
<1> QED
  BY <1>1, <1>2, <1>3

\* Among requests made one after the other an asset has one sale on offer at most, for
\* any batches, prices and expiries and however the clock runs between their calls.
THEOREM OneSaleOnOffer == MarketSpec => []OneActiveSale
BY MarketInitInv, MarketNextInv, MarketInvOneSale, PTL DEF MarketSpec

LEMMA MarketStepInactive ==
  ASSUME MarketInv, MarketNext PROVE NoneReactivated
<1>1. CASE UNCHANGED rows
  BY <1>1 DEF NoneReactivated
<1>2. ASSUME NEW c \in Calls, MarketStep(c) PROVE UNCHANGED rows \/ NoneReactivated
  <2>1. CASE \/ Sell(c) \/ Bid(c) \/ Accept(c) \/ Reject(c) \/ Buy(c) \/ Cancel(c) \/ Update(c)
             \/ Transfer(c)
    BY <2>1 DEF Sell, Bid, Accept, Reject, Buy, Cancel, Update, Transfer, Start
  <2>2. CASE \/ FindToSell(c) \/ CheckSales(c) \/ CheckBestBid(c) \/ CheckOwnBid(c)
             \/ CheckToCancel(c) \/ CheckToUpdate(c) \/ WriteOwner(c)
    BY <2>2 DEF FindToSell, CheckSales, CheckBestBid, CheckOwnBid, CheckToCancel,
       CheckToUpdate, WriteOwner, Read
  <2>3. CASE \/ InsertSales(c) \/ InsertBid(c) \/ WriteStatus(c) \/ CancelListings(c)
             \/ UpdateListing(c)
    BY <2>3, InsertSalesKeeps, InsertBidKeeps, WriteStatusKeeps, CancelListingsKeeps,
       UpdateListingKeeps
  <2> QED
    BY <1>2, <2>1, <2>2, <2>3 DEF MarketStep
<1> QED
  BY <1>1, <1>2 DEF MarketNext, Tick

\* Whichever requests overlap, and however stale the row or the listing they write, no
\* listing that was sold, accepted, rejected or cancelled comes back on offer.
THEOREM ListingsStayClosed == MarketSpec => NeverReactivated
<1>1. MarketInv /\ [MarketNext]_marketVars =>
        [\A i \in DOMAIN rows : rows[i].status # "ACTIVE" => rows'[i].status # "ACTIVE"]_marketVars
  BY MarketStepInactive DEF NoneReactivated
<1> QED
  BY MarketInitInv, MarketNextInv, <1>1, PTL DEF MarketSpec, NeverReactivated

\* -------------------------------------------------------------- price cache
\* A timer waits that will delete the entry of t before a price of instant p is older
\* than its lifetime.
Timed(t, p) == \E x \in timers : x.key = t /\ x.at <= p + PriceTtl
MapTimed(p) == \E x \in timers : x.key = AllPrices /\ x.at <= p + PriceTtl + MapTtl

TimersWait == \A x \in timers : x.at >= clock
PricesTimed ==
  \A t \in Tokens : /\ price[t] # NoPrice => Timed(t, price[t])
                    /\ prices[t] # NoPrice => MapTimed(prices[t])
HeldTimed ==
  \A j \in PriceJobs, t \in Tokens : priceJob[j].held[t] # NoPrice => Timed(t, priceJob[j].held[t])

CacheInv == PriceTypeOK /\ TimersWait /\ (~straddled => PricesTimed /\ HeldTimed)

LEMMA NoPricesType ==
  /\ NoPrices \in CachedPrices /\ \A t \in Tokens : NoPrices[t] = NoPrice
  /\ IdleJob \in PriceJob /\ IdleJob.held = NoPrices
BY DEF NoPrices, CachedPrices, IdleJob, PriceJob

LEMMA MergedType ==
  ASSUME NEW old \in CachedPrices, NEW new \in CachedPrices
  PROVE  /\ Merged(old, new) \in CachedPrices
         /\ \A t \in Tokens : Merged(old, new)[t] = IF new[t] = NoPrice THEN old[t] ELSE new[t]
BY DEF Merged, CachedPrices

LEMMA InstantNotNull == \A p \in Instant : p # NoPrice /\ p \in Nat
BY PriceAssumption DEF Instant

\* Timers are only added, so that a price that was timed still is.
LEMMA StillTimed ==
  ASSUME timers \subseteq timers', NEW t, NEW p
  PROVE  (Timed(t, p) => Timed(t, p)') /\ (MapTimed(p) => MapTimed(p)')
BY DEF Timed, MapTimed

LEMMA CacheInitInv == PriceInit => CacheInv
<1> SUFFICES ASSUME PriceInit PROVE CacheInv
  OBVIOUS
<1>1. PriceTypeOK
  <2>1. 0 \in Instant
    BY PriceAssumption DEF Instant
  <2> QED
    BY <2>1, NoPricesType DEF PriceInit, PriceTypeOK
<1>2. \A j \in PriceJobs, t \in Tokens : priceJob[j].held[t] = NoPrice
  BY NoPricesType DEF PriceInit
<1>3. PricesTimed /\ HeldTimed /\ TimersWait
  BY <1>2, NoPricesType DEF PriceInit, PricesTimed, HeldTimed, TimersWait
<1> QED
  BY <1>1, <1>3 DEF CacheInv

LEMMA NeverStaleFrom == CacheInv => NeverStale
<1> SUFFICES ASSUME CacheInv, ~straddled, NEW t \in Tokens
             PROVE  /\ price[t] # NoPrice => clock - price[t] <= PriceTtl
                    /\ prices[t] # NoPrice => clock - prices[t] <= PriceTtl + MapTtl
  BY DEF NeverStale
<1>1. price[t] # NoPrice => price[t] \in Nat
  BY InstantNotNull DEF CacheInv, PriceTypeOK, CachedPrices
<1>2. prices[t] # NoPrice => prices[t] \in Nat
  BY InstantNotNull DEF CacheInv, PriceTypeOK, CachedPrices
<1>3. clock \in Nat /\ PriceTtl \in Nat /\ MapTtl \in Nat
  BY PriceAssumption DEF CacheInv, PriceTypeOK, Instant
<1>4. \A x \in timers : x.at \in Nat /\ x.at >= clock
  BY DEF CacheInv, PriceTypeOK, TimersWait
<1> QED
  BY <1>1, <1>2, <1>3, <1>4 DEF CacheInv, PricesTimed, Timed, MapTimed

\* The entries and the jobs of a step that writes fresh prices, of this instant.
LEMMA FreshTimed ==
  ASSUME CacheInv, NEW answered \in SUBSET Tokens, timers' = SetEntries(answered)
  PROVE  /\ timers \subseteq timers'
         /\ \A x \in timers' : x.key \in Tokens \cup {AllPrices} /\ x.at \in Nat /\ x.at >= clock
         /\ \A c : c = clock => \A t \in answered : Timed(t, c)'
<1>1. clock \in Nat /\ PriceTtl \in Nat
  BY PriceAssumption DEF CacheInv, PriceTypeOK, Instant
<1>2. timers' = timers \cup {[key |-> k, at |-> clock + PriceTtl] : k \in answered}
  BY DEF SetEntries, Expiring
<1>3. \A x \in timers' : x.key \in Tokens \cup {AllPrices} /\ x.at \in Nat /\ x.at >= clock
  BY <1>1, <1>2 DEF CacheInv, PriceTypeOK, TimersWait
<1>4. ASSUME NEW t \in answered, NEW c, c = clock PROVE Timed(t, c)'
  <2>1. PICK x : x = [key |-> t, at |-> clock + PriceTtl]
    OBVIOUS
  <2>2. x \in timers' /\ x.key = t /\ x.at <= c + PriceTtl
    BY <1>1, <1>2, <1>4, <2>1
  <2> QED
    BY <2>2 DEF Timed
<1> QED
  BY <1>2, <1>3, <1>4

\* What the jobs hold after a step is timed if each of those prices is.
LEMMA HeldTimedNext ==
  ASSUME \A j \in PriceJobs, t \in Tokens : priceJob'[j].held[t] # NoPrice =>
           \A p : p = priceJob'[j].held[t] => Timed(t, p)'
  PROVE  HeldTimed'
BY DEF HeldTimed, Timed

LEMMA PricesTimedNext ==
  ASSUME \A t \in Tokens : \A p :
           /\ p = price'[t] /\ p # NoPrice => Timed(t, p)'
           /\ p = prices'[t] /\ p # NoPrice => MapTimed(p)'
  PROVE  PricesTimed'
BY DEF PricesTimed, Timed, MapTimed

LEMMA ReadCachedKeeps ==
  ASSUME CacheInv, NEW j \in PriceJobs, ReadCached(j)
  PROVE  CacheInv'
<1>1. PICK ts \in Lists[j] :
        priceJob' = [priceJob EXCEPT ![j] =
             [pc |-> IF ts \subseteq Known(price) THEN "cache" ELSE "fetch", tokens |-> ts,
              held |-> [t \in Tokens |-> IF t \in ts THEN price[t] ELSE NoPrice]]]
  BY DEF ReadCached
<1>2. PICK h, pc : /\ h = [t \in Tokens |-> IF t \in ts THEN price[t] ELSE NoPrice]
                   /\ pc = IF ts \subseteq Known(price) THEN "cache" ELSE "fetch"
  OBVIOUS
<1>3. /\ h \in CachedPrices /\ pc \in {"cache", "fetch"} /\ ts \in SUBSET Tokens
      /\ \A t \in Tokens : h[t] # NoPrice => h[t] = price[t]
  BY <1>2, PriceAssumption DEF CacheInv, PriceTypeOK, CachedPrices
<1>4. UNCHANGED <<clock, price, prices, timers, straddled>>
  BY DEF ReadCached
<1>5. /\ priceJob' \in [PriceJobs -> PriceJob] /\ priceJob'[j].held = h
      /\ \A i \in PriceJobs : i # j => priceJob'[i] = priceJob[i]
  BY <1>1, <1>2, <1>3 DEF CacheInv, PriceTypeOK, PriceJob
<1>6. PriceTypeOK' /\ TimersWait'
  BY <1>4, <1>5 DEF CacheInv, PriceTypeOK, TimersWait
<1>7. \A t, p : (Timed(t, p) => Timed(t, p)') /\ (MapTimed(p) => MapTimed(p)')
  BY <1>4, StillTimed
<1>8. ~straddled => PricesTimed'
  BY <1>4, <1>7 DEF CacheInv, PricesTimed
<1>9. ASSUME ~straddled, NEW i \in PriceJobs, NEW t \in Tokens, priceJob'[i].held[t] # NoPrice
      PROVE  Timed(t, priceJob'[i].held[t])
  BY <1>3, <1>5, <1>9 DEF CacheInv, PricesTimed, HeldTimed
<1>10. ~straddled => HeldTimed'
  BY <1>7, <1>9, HeldTimedNext
<1> QED
  BY <1>4, <1>6, <1>8, <1>10 DEF CacheInv

LEMMA FetchedKeeps == ASSUME CacheInv, NEW j \in PriceJobs, Fetched(j) PROVE CacheInv'
<1>1. PICK answered \in SUBSET (priceJob[j].tokens \ Known(priceJob[j].held)) :
        LET fresh == [t \in Tokens |-> IF t \in answered THEN clock ELSE NoPrice]
        IN  /\ price' = Merged(price, fresh)
            /\ timers' = SetEntries(answered)
            /\ priceJob' = [priceJob EXCEPT ![j].pc = "cache", ![j].held = Merged(@, fresh)]
  BY DEF Fetched
<1>2. PICK c, f : c = clock /\ f = [t \in Tokens |-> IF t \in answered THEN c ELSE NoPrice]
  OBVIOUS
<1>3. PICK q \in PriceJob : q = priceJob[j]
  BY DEF CacheInv, PriceTypeOK
<1>4. answered \in SUBSET Tokens /\ c \in Instant /\ q.held \in CachedPrices
  BY <1>2, <1>3 DEF PriceJob, CacheInv, PriceTypeOK
<1>5. f \in CachedPrices /\ \A t \in Tokens : f[t] # NoPrice => t \in answered /\ f[t] = c
  BY <1>2, <1>4 DEF CachedPrices
<1>6. PICK h, e : h = Merged(q.held, f) /\ e = Merged(price, f)
  OBVIOUS
<1>7. /\ h \in CachedPrices /\ e \in CachedPrices
      /\ \A t \in Tokens : h[t] = (IF f[t] = NoPrice THEN q.held[t] ELSE f[t])
                           /\ e[t] = (IF f[t] = NoPrice THEN price[t] ELSE f[t])
  BY <1>4, <1>5, <1>6, MergedType DEF CacheInv, PriceTypeOK
<1>8. /\ price' = e /\ timers' = SetEntries(answered)
      /\ priceJob' = [priceJob EXCEPT ![j].pc = "cache", ![j].held = h]
      /\ UNCHANGED <<clock, prices, straddled>>
  BY <1>1, <1>2, <1>3, <1>6 DEF Fetched
<1>9. /\ priceJob' \in [PriceJobs -> PriceJob] /\ priceJob'[j].held = h
      /\ \A i \in PriceJobs : i # j => priceJob'[i] = priceJob[i]
  BY <1>3, <1>7, <1>8 DEF CacheInv, PriceTypeOK, PriceJob
<1>10. /\ timers \subseteq timers'
       /\ \A x \in timers' : x.key \in Tokens \cup {AllPrices} /\ x.at \in Nat /\ x.at >= clock
       /\ \A t \in answered : Timed(t, c)'
  BY <1>2, <1>4, <1>8, FreshTimed
<1>11. PriceTypeOK' /\ TimersWait'
  BY <1>7, <1>8, <1>9, <1>10 DEF CacheInv, PriceTypeOK, TimersWait
<1>12. \A t, p : (Timed(t, p) => Timed(t, p)') /\ (MapTimed(p) => MapTimed(p)')
  BY <1>10, StillTimed
<1>13. ~straddled => PricesTimed'
  <2> SUFFICES ASSUME ~straddled, NEW t \in Tokens, NEW p
               PROVE  /\ p = price'[t] /\ p # NoPrice => Timed(t, p)'
                      /\ p = prices'[t] /\ p # NoPrice => MapTimed(p)'
    BY PricesTimedNext
  <2> QED
    BY <1>5, <1>7, <1>8, <1>10, <1>12 DEF CacheInv, PricesTimed
<1>14. ~straddled => HeldTimed'
  <2> SUFFICES ASSUME ~straddled, NEW i \in PriceJobs, NEW t \in Tokens,
                      priceJob'[i].held[t] # NoPrice, NEW p, p = priceJob'[i].held[t]
               PROVE  Timed(t, p)'
    BY HeldTimedNext
  <2> QED
    BY <1>3, <1>5, <1>7, <1>9, <1>10, <1>12 DEF CacheInv, HeldTimed
<1> QED
  BY <1>8, <1>11, <1>13, <1>14 DEF CacheInv

LEMMA UpdatePriceCacheKeeps ==
  ASSUME CacheInv, NEW j \in PriceJobs, UpdatePriceCache(j) PROVE CacheInv'
<1>1. PICK q \in PriceJob : q = priceJob[j]
  BY DEF CacheInv, PriceTypeOK
<1>2. PICK h, e, m, c : h = q.held /\ e = Merged(price, h) /\ m = Merged(prices, h) /\ c = clock
  OBVIOUS
<1>3. h \in CachedPrices
  BY <1>1, <1>2 DEF PriceJob
<1>4. /\ e \in CachedPrices /\ m \in CachedPrices
      /\ \A t \in Tokens : e[t] = (IF h[t] = NoPrice THEN price[t] ELSE h[t])
                           /\ m[t] = (IF h[t] = NoPrice THEN prices[t] ELSE h[t])
  BY <1>2, <1>3, MergedType DEF CacheInv, PriceTypeOK
<1>5. /\ price' = e /\ prices' = m /\ priceJob' = [priceJob EXCEPT ![j] = IdleJob]
      /\ timers' = SetEntries(Known(h)) \cup Expiring({AllPrices}, MapTtl)
      /\ UNCHANGED <<clock, straddled>>
  BY <1>1, <1>2 DEF UpdatePriceCache
<1>6. /\ priceJob' \in [PriceJobs -> PriceJob] /\ priceJob'[j].held = NoPrices
      /\ \A i \in PriceJobs : i # j => priceJob'[i] = priceJob[i]
  BY <1>5, NoPricesType DEF CacheInv, PriceTypeOK
<1>7. c \in Nat /\ PriceTtl \in Nat /\ MapTtl \in Nat
  BY <1>2, PriceAssumption DEF CacheInv, PriceTypeOK, Instant
<1>8. timers' = timers \cup {[key |-> k, at |-> c + PriceTtl] : k \in Known(h)}
                       \cup {[key |-> AllPrices, at |-> c + MapTtl]}
  BY <1>2, <1>5 DEF SetEntries, Expiring
<1>9. /\ timers \subseteq timers'
      /\ \A x \in timers' : x.key \in Tokens \cup {AllPrices} /\ x.at \in Nat /\ x.at >= clock
  <2>1. \A k \in Known(h) : k \in Tokens
    BY DEF Known
  <2> QED
    BY <1>2, <1>7, <1>8, <2>1 DEF CacheInv, PriceTypeOK, TimersWait
<1>10. PriceTypeOK' /\ TimersWait'
  BY <1>4, <1>5, <1>6, <1>9 DEF CacheInv, PriceTypeOK, TimersWait
<1>11. \A t, p : (Timed(t, p) => Timed(t, p)') /\ (MapTimed(p) => MapTimed(p)')
  BY <1>9, StillTimed
<1>12. ASSUME ~straddled, NEW t \in Tokens, h[t] # NoPrice
       PROVE  Timed(t, h[t]) /\ \A p : p = h[t] => MapTimed(p)'
  <2>1. Timed(t, h[t])
    BY <1>1, <1>2, <1>12 DEF CacheInv, HeldTimed
  <2>2. h[t] \in Nat
    BY <1>3, <1>12, InstantNotNull DEF CachedPrices
  <2>3. c <= h[t] + PriceTtl
    BY <1>2, <1>7, <2>1, <2>2 DEF Timed, CacheInv, TimersWait, PriceTypeOK
  <2>4. PICK x : x = [key |-> AllPrices, at |-> c + MapTtl]
    OBVIOUS
  <2>5. x \in timers' /\ x.key = AllPrices /\ x.at <= h[t] + PriceTtl + MapTtl
    BY <1>7, <1>8, <2>2, <2>3, <2>4
  <2> QED
    BY <2>1, <2>5 DEF MapTimed
<1>13. ~straddled => PricesTimed'
  <2> SUFFICES ASSUME ~straddled, NEW t \in Tokens, NEW p
               PROVE  /\ p = price'[t] /\ p # NoPrice => Timed(t, p)'
                      /\ p = prices'[t] /\ p # NoPrice => MapTimed(p)'
    BY PricesTimedNext
  <2> QED
    BY <1>4, <1>5, <1>11, <1>12 DEF CacheInv, PricesTimed
<1>14. ~straddled => HeldTimed'
  <2> SUFFICES ASSUME ~straddled, NEW i \in PriceJobs, NEW t \in Tokens,
                      priceJob'[i].held[t] # NoPrice, NEW p, p = priceJob'[i].held[t]
               PROVE  Timed(t, p)'
    BY HeldTimedNext
  <2> QED
    BY <1>6, <1>11, NoPricesType DEF CacheInv, HeldTimed
<1> QED
  BY <1>5, <1>10, <1>13, <1>14 DEF CacheInv

LEMMA PriceJobFailsKeeps ==
  ASSUME CacheInv, NEW j \in PriceJobs, PriceJobFails(j) PROVE CacheInv'
<1>1. /\ priceJob' = [priceJob EXCEPT ![j] = IdleJob]
      /\ UNCHANGED <<clock, price, prices, timers, straddled>>
  BY DEF PriceJobFails
<1>2. /\ priceJob' \in [PriceJobs -> PriceJob] /\ priceJob'[j].held = NoPrices
      /\ \A i \in PriceJobs : i # j => priceJob'[i] = priceJob[i]
  BY <1>1, NoPricesType DEF CacheInv, PriceTypeOK
<1>3. PriceTypeOK' /\ TimersWait'
  BY <1>1, <1>2 DEF CacheInv, PriceTypeOK, TimersWait
<1>4. \A t, p : (Timed(t, p) => Timed(t, p)') /\ (MapTimed(p) => MapTimed(p)')
  BY <1>1, StillTimed
<1>5. ~straddled => PricesTimed'
  BY <1>1, <1>4 DEF CacheInv, PricesTimed
<1>6. ~straddled => HeldTimed'
  <2> SUFFICES ASSUME ~straddled, NEW i \in PriceJobs, NEW t \in Tokens,
                      priceJob'[i].held[t] # NoPrice, NEW p, p = priceJob'[i].held[t]
               PROVE  Timed(t, p)'
    BY HeldTimedNext
  <2> QED
    BY <1>2, <1>4, NoPricesType DEF CacheInv, HeldTimed
<1> QED
  BY <1>1, <1>3, <1>5, <1>6 DEF CacheInv

\* A timer that fires takes the entry with it, so that only what is held could outlive it.
LEMMA DeleteExpiredKeeps ==
  ASSUME CacheInv, NEW r \in timers, DeleteExpired(r)
  PROVE  /\ CacheInv'
         /\ \A t, p : t # r.key /\ Timed(t, p) => Timed(t, p)'
<1>1. /\ timers' = timers \ {r} /\ UNCHANGED <<clock, priceJob>>
      /\ r.key \in Tokens \cup {AllPrices}
  BY DEF DeleteExpired, CacheInv, PriceTypeOK
<1>2. \A t, p : t # r.key /\ Timed(t, p) => Timed(t, p)'
  BY <1>1 DEF Timed
<1>3. \A p : r.key # AllPrices /\ MapTimed(p) => MapTimed(p)'
  BY <1>1 DEF MapTimed
<1>4. TimersWait'
  BY <1>1 DEF CacheInv, TimersWait
<1>5. CASE r.key = AllPrices
  <2>1. prices' = NoPrices /\ UNCHANGED <<price, straddled>>
    BY <1>5 DEF DeleteExpired
  <2>2. \A t \in Tokens : t # r.key
    BY <1>5, PriceAssumption
  <2>3. PriceTypeOK'
    BY <1>1, <2>1, NoPricesType DEF CacheInv, PriceTypeOK
  <2>4. ~straddled => PricesTimed'
    <3> SUFFICES ASSUME ~straddled, NEW t \in Tokens, NEW p
                 PROVE  /\ p = price'[t] /\ p # NoPrice => Timed(t, p)'
                        /\ p = prices'[t] /\ p # NoPrice => MapTimed(p)'
      BY PricesTimedNext
    <3> QED
      BY <1>2, <2>1, <2>2, NoPricesType DEF CacheInv, PricesTimed
  <2>5. ~straddled => HeldTimed'
    <3> SUFFICES ASSUME ~straddled, NEW i \in PriceJobs, NEW t \in Tokens,
                        priceJob'[i].held[t] # NoPrice, NEW p, p = priceJob'[i].held[t]
                 PROVE  Timed(t, p)'
      BY HeldTimedNext
    <3> QED
      BY <1>1, <1>2, <2>2 DEF CacheInv, HeldTimed
  <2> QED
    BY <1>2, <1>4, <2>1, <2>3, <2>4, <2>5 DEF CacheInv
<1>6. CASE r.key # AllPrices
  <2>1. /\ price' = [price EXCEPT ![r.key] = NoPrice] /\ UNCHANGED prices
        /\ straddled' = (straddled \/ \E j \in PriceJobs : priceJob[j].held[r.key] # NoPrice)
    BY <1>6 DEF DeleteExpired
  <2>2. PriceTypeOK'
    BY <1>1, <1>6, <2>1 DEF CacheInv, PriceTypeOK, CachedPrices
  <2>3. r.key \in Tokens /\ price'[r.key] = NoPrice /\ \A t \in Tokens : t # r.key => price'[t] = price[t]
    BY <1>1, <1>6, <2>1 DEF CacheInv, PriceTypeOK, CachedPrices
  <2>4. ~straddled' => PricesTimed'
    <3> SUFFICES ASSUME ~straddled, NEW t \in Tokens, NEW p
                 PROVE  /\ p = price'[t] /\ p # NoPrice => Timed(t, p)'
                        /\ p = prices'[t] /\ p # NoPrice => MapTimed(p)'
      BY <2>1, PricesTimedNext
    <3> QED
      BY <1>2, <1>3, <1>6, <2>1, <2>3 DEF CacheInv, PricesTimed
  <2>5. ~straddled' => HeldTimed'
    <3> SUFFICES ASSUME ~straddled, \A j \in PriceJobs : priceJob[j].held[r.key] = NoPrice,
                        NEW i \in PriceJobs, NEW t \in Tokens,
                        priceJob'[i].held[t] # NoPrice, NEW p, p = priceJob'[i].held[t]
                 PROVE  Timed(t, p)'
      BY <2>1, HeldTimedNext
    <3> QED
      BY <1>1, <1>2 DEF CacheInv, HeldTimed
  <2> QED
    BY <1>2, <1>4, <2>2, <2>4, <2>5 DEF CacheInv
<1> QED
  BY <1>5, <1>6

LEMMA PassTimeKeeps == ASSUME CacheInv, PassTime PROVE CacheInv'
<1>1. /\ clock' = clock + 1 /\ clock < MaxClock /\ \A r \in timers : r.at > clock
      /\ UNCHANGED <<price, prices, timers, priceJob, straddled>>
  BY DEF PassTime
<1>2. clock \in 0 .. MaxClock /\ MaxClock \in Nat
  BY PriceAssumption DEF CacheInv, PriceTypeOK, Instant
<1>3. clock' \in Instant
  BY <1>1, <1>2 DEF Instant
<1>4. TimersWait'
  BY <1>1, <1>2 DEF CacheInv, PriceTypeOK, TimersWait
<1> QED
  BY <1>1, <1>3, <1>4 DEF CacheInv, PriceTypeOK, PricesTimed, HeldTimed, Timed, MapTimed

LEMMA CacheSame == ASSUME CacheInv, UNCHANGED priceVars PROVE CacheInv'
BY DEF CacheInv, priceVars, PriceTypeOK, TimersWait, PricesTimed, HeldTimed, Timed, MapTimed

LEMMA JobStepKeeps == ASSUME CacheInv, NEW j \in PriceJobs, PriceJobStep(j) PROVE CacheInv'
BY ReadCachedKeeps, FetchedKeeps, UpdatePriceCacheKeeps, PriceJobFailsKeeps DEF PriceJobStep

LEMMA CacheNextInv == CacheInv /\ [PriceNext]_priceVars => CacheInv'
BY CacheSame, JobStepKeeps, DeleteExpiredKeeps, PassTimeKeeps DEF PriceNext

\* However jobs overlap and fail, and whenever timers fire, no cached price is older than
\* its lifetime, and none of the map than both, unless a timer fired while a job held it.
THEOREM CachedPricesFresh == PriceSpec => []NeverStale
BY CacheInitInv, CacheNextInv, NeverStaleFrom, PTL DEF PriceSpec

\* ------------------------------------------------------------ price history
\* A row of a current price was stored while the entry of that price could be cached.
RecentRows(kept) == \A x \in kept : ~x.past => x.at - x.of <= PriceTtl
UniqueRows(kept) == \A x, y \in kept : UniqueKey(x) = UniqueKey(y) => x = y

Undisturbed == ~straddled /\ ~overtaken
RequestsTimed ==
  \A r \in PriceRequests, t \in Tokens :
    asking[r].held[t] # NoPrice => Timed(t, asking[r].held[t])

HistoryInv ==
  /\ HistoryTypeOK
  /\ \A r \in PriceRequests : UniqueRows(asking[r].rows)
  /\ Undisturbed => /\ RequestsTimed
                    /\ RecentRows(history) /\ \A r \in PriceRequests : RecentRows(asking[r].rows)
                    /\ \A r \in PriceRequests : asking[r].oldest <= PriceTtl + MaxAge

LEMMA NewRequestType ==
  /\ NewRequest \in PriceRequest /\ NewRequest.held = NoPrices /\ NewRequest.rows = {}
  /\ NewRequest.oldest = 0
BY NoPricesType DEF NewRequest, PriceRequest

LEMMA HistoryInitInv == PriceInit /\ HistoryInit => HistoryInv
<1> SUFFICES ASSUME PriceInit, HistoryInit PROVE HistoryInv
  OBVIOUS
<1>1. \A r \in PriceRequests : asking[r] = NewRequest
  BY DEF HistoryInit
<1>2. HistoryTypeOK
  BY NewRequestType DEF HistoryInit, HistoryTypeOK
<1>3. 0 <= PriceTtl + MaxAge
  BY PriceAssumption, HistoryAssumption
<1>4. RequestsTimed
  BY <1>1, NewRequestType, NoPricesType DEF RequestsTimed
<1> QED
  BY <1>1, <1>2, <1>3, <1>4, NewRequestType
     DEF HistoryInv, HistoryInit, UniqueRows, RecentRows

LEMMA RequestsTimedNext ==
  ASSUME \A r \in PriceRequests, t \in Tokens : asking'[r].held[t] # NoPrice =>
           \A p : p = asking'[r].held[t] => Timed(t, p)'
  PROVE  RequestsTimed'
BY DEF RequestsTimed, Timed

\* A step of request r keeps the invariant if what r becomes, and the table, agree with it.
LEMMA RequestStep ==
  ASSUME HistoryInv, NEW r \in PriceRequests, NEW q \in PriceRequest, Ask(r, q),
         UNCHANGED <<together, overtaken, straddled>>, timers \subseteq timers',
         history' \subseteq PriceRow, UniqueRows(history'), UniqueRows(q.rows),
         Undisturbed =>
           /\ \A t \in Tokens : q.held[t] # NoPrice => Timed(t, q.held[t])
           /\ RecentRows(history') /\ RecentRows(q.rows)
           /\ q.oldest <= PriceTtl + MaxAge
  PROVE  HistoryInv'
<1>1. /\ asking' \in [PriceRequests -> PriceRequest] /\ asking'[r] = q
      /\ \A s \in PriceRequests : s # r => asking'[s] = asking[s]
  BY DEF Ask, HistoryInv, HistoryTypeOK
<1>2. HistoryTypeOK'
  BY <1>1 DEF HistoryInv, HistoryTypeOK, UniqueRows
<1>3. \A s \in PriceRequests : UniqueRows(asking'[s].rows)
  BY <1>1 DEF HistoryInv
<1>4. Undisturbed => RequestsTimed'
  <2> SUFFICES ASSUME Undisturbed, NEW s \in PriceRequests, NEW t \in Tokens,
                      asking'[s].held[t] # NoPrice, NEW p, p = asking'[s].held[t]
               PROVE  Timed(t, p)'
    BY RequestsTimedNext
  <2>1. Timed(t, p)
    BY <1>1 DEF HistoryInv, RequestsTimed
  <2> QED
    BY <2>1, StillTimed
<1>5. Undisturbed => /\ \A s \in PriceRequests : RecentRows(asking'[s].rows)
                     /\ \A s \in PriceRequests : asking'[s].oldest <= PriceTtl + MaxAge
  BY <1>1 DEF HistoryInv
<1>6. Undisturbed' = Undisturbed
  BY DEF Undisturbed
<1> QED
  BY <1>2, <1>3, <1>4, <1>5, <1>6 DEF HistoryInv, UniqueRows, RecentRows

\* What a request keeps when it goes on with some rows, or ends.
LEMMA KeepingType ==
  ASSUME HistoryInv, NEW r \in PriceRequests, NEW ch, Keeping(r, ch),
         ch.pc \in {"store", "fill", "fetchDay", "create", "done"}, ch.rows \in SUBSET PriceRow
  PROVE  \E q \in PriceRequest : /\ Ask(r, q) /\ q.rows = ch.rows /\ q.held = NoPrices
                                 /\ q.oldest = asking[r].oldest
<1>1. PICK old \in PriceRequest : old = asking[r]
  BY DEF HistoryInv, HistoryTypeOK
<1>2. PICK q : q = [pc |-> ch.pc, todo |-> {}, need |-> {}, held |-> NoPrices,
                    rows |-> ch.rows, oldest |-> old.oldest]
  OBVIOUS
<1>3. q \in PriceRequest
  BY <1>1, <1>2, NoPricesType DEF PriceRequest
<1> QED
  BY <1>1, <1>2, <1>3 DEF Keeping

LEMMA KeepingStep ==
  ASSUME HistoryInv, NEW r \in PriceRequests, NEW ch, Keeping(r, ch),
         ch.pc \in {"store", "fill", "fetchDay", "create", "done"}, ch.rows \in SUBSET PriceRow,
         UNCHANGED <<together, overtaken, straddled>>, timers \subseteq timers',
         history' \subseteq PriceRow, UniqueRows(history'), UniqueRows(ch.rows),
         Undisturbed => RecentRows(history') /\ RecentRows(ch.rows)
  PROVE  HistoryInv'
<1>1. PICK q \in PriceRequest : /\ Ask(r, q) /\ q.rows = ch.rows /\ q.held = NoPrices
                                /\ q.oldest = asking[r].oldest
  BY KeepingType
<1>2. \A t \in Tokens : q.held[t] = NoPrice
  BY <1>1, NoPricesType
<1>3. Undisturbed => q.oldest <= PriceTtl + MaxAge
  BY <1>1 DEF HistoryInv
<1> QED
  BY <1>1, <1>2, <1>3, RequestStep

\* Where neither the cache nor the table changes.
LEMMA AskingOnly ==
  ASSUME HistoryInv, OnlyAsking
  PROVE  /\ UNCHANGED <<priceVars, together, overtaken, straddled, clock>> /\ timers \subseteq timers'
         /\ history' \subseteq PriceRow /\ UniqueRows(history')
         /\ Undisturbed => RecentRows(history')
BY DEF OnlyAsking, priceVars, HistoryInv, HistoryTypeOK, UniqueRows, RecentRows

LEMMA RowlessStep ==
  ASSUME HistoryInv, NEW r \in PriceRequests, OnlyAsking, NEW pc \in {"done"},
         Keeping(r, [pc |-> pc, rows |-> {}])
  PROVE  HistoryInv'
<1>1. PICK ch : ch = [pc |-> pc, rows |-> {}]
  OBVIOUS
<1>2. /\ ch.pc = "done" /\ ch.rows \in SUBSET PriceRow /\ UniqueRows(ch.rows) /\ RecentRows(ch.rows)
  BY <1>1 DEF UniqueRows, RecentRows
<1> QED
  BY <1>1, <1>2, AskingOnly, KeepingStep

LEMMA AskCurrentKeeps ==
  ASSUME HistoryInv, NEW r \in CurrentRequests, AskCurrent(r) PROVE HistoryInv'
<1>1. PICK ts \in Asked[r], use \in BOOLEAN :
       Ask(r, [NewRequest EXCEPT !.pc = "look", !.todo = IF use THEN ts ELSE {},
                                 !.need = IF use THEN {} ELSE ts])
  BY DEF AskCurrent
<1>2. PICK q : q = [NewRequest EXCEPT !.pc = "look", !.todo = IF use THEN ts ELSE {},
                                      !.need = IF use THEN {} ELSE ts]
  OBVIOUS
<1>3. ts \in SUBSET Tokens
  BY HistoryAssumption
<1>4. q \in PriceRequest /\ q.held = NoPrices /\ q.rows = {} /\ q.oldest = 0
  BY <1>2, <1>3, NewRequestType DEF PriceRequest
<1>5. 0 <= PriceTtl + MaxAge
  BY PriceAssumption, HistoryAssumption
<1>6. UniqueRows(q.rows) /\ RecentRows(q.rows) /\ \A t \in Tokens : q.held[t] = NoPrice
  BY <1>4, NoPricesType DEF UniqueRows, RecentRows
<1> QED
  BY <1>1, <1>2, <1>4, <1>5, <1>6, AskingOnly, RequestStep DEF AskCurrent, PriceRequests

\* A price that is timed is no older than its lifetime.
LEMMA TimedIsYoung ==
  ASSUME CacheInv, NEW t, NEW p \in Instant, Timed(t, p)
  PROVE  clock <= p + PriceTtl
<1>1. p \in Nat /\ PriceTtl \in Nat /\ clock \in Nat
  BY InstantNotNull, PriceAssumption DEF CacheInv, PriceTypeOK
<1> QED
  BY <1>1 DEF Timed, CacheInv, PriceTypeOK, TimersWait

LEMMA RowsNowType ==
  ASSUME CacheInv, NEW h \in CachedPrices, NEW kept, kept = RowsNow(h)
  PROVE  /\ kept \in SUBSET PriceRow /\ UniqueRows(kept)
         /\ (\A t \in Tokens : h[t] # NoPrice => clock <= h[t] + PriceTtl) => RecentRows(kept)
<1>1. PICK c \in Instant : c = clock
  BY DEF CacheInv, PriceTypeOK
<1>2. \A t \in Known(h) : t \in Tokens /\ h[t] # NoPrice /\ h[t] \in Instant
  BY DEF Known, CachedPrices
<1>3. kept = {[token |-> t, at |-> c, granularity |-> "minute", of |-> h[t], past |-> FALSE] : t \in Known(h)}
  BY <1>1 DEF RowsNow
<1>4. \A x \in kept : /\ x \in PriceRow /\ x.token \in Known(h) /\ x.at = c /\ x.of = h[x.token]
                      /\ x = [token |-> x.token, at |-> c, granularity |-> "minute",
                              of |-> h[x.token], past |-> FALSE]
  <2> SUFFICES ASSUME NEW x \in kept
               PROVE  /\ x \in PriceRow /\ x.token \in Known(h) /\ x.at = c /\ x.of = h[x.token]
                      /\ x = [token |-> x.token, at |-> c, granularity |-> "minute",
                              of |-> h[x.token], past |-> FALSE]
    OBVIOUS
  <2>1. PICK t \in Known(h) : x = [token |-> t, at |-> c, granularity |-> "minute",
                                   of |-> h[t], past |-> FALSE]
    BY <1>3
  <2>2. t \in Tokens /\ h[t] \in Instant
    BY <1>2
  <2>3. x.token = t
    BY <2>1
  <2> QED
    BY <2>1, <2>2, <2>3 DEF PriceRow, Granularities
<1>5. UniqueRows(kept)
  <2> SUFFICES ASSUME NEW x \in kept, NEW y \in kept, UniqueKey(x) = UniqueKey(y) PROVE x = y
    BY DEF UniqueRows
  <2>1. x.token = y.token
    BY DEF UniqueKey
  <2> QED
    BY <1>4, <2>1
<1>6. ASSUME \A t \in Tokens : h[t] # NoPrice => clock <= h[t] + PriceTtl PROVE RecentRows(kept)
  <2> SUFFICES ASSUME NEW x \in kept PROVE x.at - x.of <= PriceTtl
    BY DEF RecentRows
  <2>1. PICK t \in Known(h) : t = x.token
    BY <1>4
  <2>2. x.at = c /\ x.of = h[t] /\ c <= h[t] + PriceTtl
    BY <1>1, <1>2, <1>4, <1>6, <2>1
  <2>3. h[t] \in Nat /\ c \in Nat /\ PriceTtl \in Nat
    BY <1>2, InstantNotNull, PriceAssumption
  <2> QED
    BY <2>2, <2>3
<1> QED
  BY <1>4, <1>5, <1>6

\* The row that answers is at most MaxAge old, and held a price at most PriceTtl old.
LEMMA LookUpKeeps ==
  ASSUME CacheInv, HistoryInv, NEW r \in PriceRequests, NEW t \in Tokens, LookUp(r, t)
  PROVE  HistoryInv'
<1>1. PICK old \in PriceRequest : old = asking[r]
  BY DEF HistoryInv, HistoryTypeOK
<1>2. OnlyAsking
  BY DEF LookUp
<1>3. /\ UniqueRows(old.rows)
      /\ Undisturbed => /\ \A u \in Tokens : old.held[u] # NoPrice => Timed(u, old.held[u])
                        /\ RecentRows(old.rows) /\ old.oldest <= PriceTtl + MaxAge
  BY <1>1 DEF HistoryInv, RequestsTimed
<1>4. CASE \E row \in LatestOf(t) :
          /\ ~IsPriceStale(row)
          /\ LET age == clock - row.of
             IN  Ask(r, [asking[r] EXCEPT
                           !.todo = @ \ {t},
                           !.oldest = IF row.past \/ age < @ THEN @ ELSE age])
  <2>1. PICK row \in LatestOf(t) :
          /\ ~IsPriceStale(row)
          /\ Ask(r, [old EXCEPT
                       !.todo = @ \ {t},
                       !.oldest = IF row.past \/ clock - row.of < @ THEN @ ELSE clock - row.of])
    BY <1>1, <1>4
  <2>2. PICK n : n = IF row.past \/ clock - row.of < old.oldest THEN old.oldest ELSE clock - row.of
    OBVIOUS
  <2>3. row \in history /\ row \in PriceRow
    BY DEF LatestOf, HistoryInv, HistoryTypeOK
  <2>4. row.of \in Nat /\ row.at \in Nat /\ clock \in Nat /\ old.oldest \in Nat
        /\ PriceTtl \in Nat /\ MaxAge \in Nat /\ row.past \in BOOLEAN
    BY <1>1, <2>3, InstantNotNull, PriceAssumption, HistoryAssumption
       DEF PriceRow, CacheInv, PriceTypeOK, PriceRequest
  <2>5. n \in Nat
    BY <2>2, <2>4
  <2>6. Undisturbed => n <= PriceTtl + MaxAge
    BY <1>3, <2>1, <2>2, <2>3, <2>4 DEF HistoryInv, RecentRows, IsPriceStale
  <2>7. PICK q : q = [old EXCEPT !.todo = @ \ {t}, !.oldest = n]
    OBVIOUS
  <2>8. q \in PriceRequest /\ q.rows = old.rows /\ q.held = old.held /\ q.oldest = n
    BY <1>1, <2>5, <2>7 DEF PriceRequest
  <2>9. Ask(r, q)
    BY <2>1, <2>2, <2>7 DEF PriceRequest
  <2> QED
    BY <1>2, <1>3, <2>6, <2>8, <2>9, AskingOnly, RequestStep
<1>5. CASE Ask(r, [asking[r] EXCEPT !.todo = @ \ {t}, !.need = @ \cup {t}])
  <2>1. PICK q : q = [old EXCEPT !.todo = @ \ {t}, !.need = @ \cup {t}]
    OBVIOUS
  <2>2. q \in PriceRequest /\ q.rows = old.rows /\ q.held = old.held /\ q.oldest = old.oldest
    BY <1>1, <2>1 DEF PriceRequest
  <2>3. Ask(r, q)
    BY <1>1, <1>5, <2>1
  <2> QED
    BY <1>2, <1>3, <2>2, <2>3, AskingOnly, RequestStep
<1> QED
  BY <1>4, <1>5 DEF LookUp

LEMMA TakeCachedKeeps ==
  ASSUME CacheInv, HistoryInv, NEW r \in PriceRequests, TakeCached(r) PROVE HistoryInv'
<1>1. PICK old \in PriceRequest : old = asking[r]
  BY DEF HistoryInv, HistoryTypeOK
<1>2. PICK h : h = [t \in Tokens |-> IF t \in old.need THEN price[t] ELSE NoPrice]
  OBVIOUS
<1>3. h \in CachedPrices /\ \A t \in Tokens : h[t] # NoPrice => h[t] = price[t] /\ h[t] \in Instant
  BY <1>2, InstantNotNull DEF CachedPrices, CacheInv, PriceTypeOK
<1>4. OnlyAsking
  BY DEF TakeCached
<1>5. Undisturbed => \A t \in Tokens : h[t] # NoPrice => Timed(t, h[t])
  BY <1>3 DEF Undisturbed, CacheInv, PricesTimed
<1>6. CASE Keeping(r, [pc |-> IF old.need = {} THEN "done" ELSE "store", rows |-> RowsNow(h)])
  <2>1. PICK ch : ch = [pc |-> IF old.need = {} THEN "done" ELSE "store", rows |-> RowsNow(h)]
    OBVIOUS
  <2>2. ch.pc \in {"done", "store"} /\ ch.rows = RowsNow(h)
    BY <2>1
  <2>3. Undisturbed => \A t \in Tokens : h[t] # NoPrice => clock <= h[t] + PriceTtl
    BY <1>3, <1>5, TimedIsYoung
  <2>4. ch.rows \in SUBSET PriceRow /\ UniqueRows(ch.rows) /\ (Undisturbed => RecentRows(ch.rows))
    BY <1>3, <2>2, <2>3, RowsNowType
  <2> QED
    BY <1>4, <1>6, <2>1, <2>2, <2>4, AskingOnly, KeepingStep
<1>7. CASE Ask(r, [old EXCEPT !.pc = "fetch", !.held = h])
  <2>1. PICK q : q = [old EXCEPT !.pc = "fetch", !.held = h]
    OBVIOUS
  <2>2. q \in PriceRequest /\ q.rows = old.rows /\ q.held = h /\ q.oldest = old.oldest
    BY <1>1, <1>3, <2>1 DEF PriceRequest
  <2>3. /\ UniqueRows(old.rows)
        /\ Undisturbed => RecentRows(old.rows) /\ old.oldest <= PriceTtl + MaxAge
    BY <1>1 DEF HistoryInv
  <2>4. Ask(r, q)
    BY <1>7, <2>1
  <2> QED
    BY <1>4, <1>5, <2>2, <2>3, <2>4, AskingOnly, RequestStep
<1> QED
  BY <1>1, <1>2, <1>6, <1>7 DEF TakeCached

LEMMA FetchCurrentKeeps ==
  ASSUME CacheInv, HistoryInv, NEW r \in PriceRequests, FetchCurrent(r)
  PROVE  CacheInv' /\ HistoryInv'
<1>1. PICK old \in PriceRequest : old = asking[r]
  BY DEF HistoryInv, HistoryTypeOK
<1>2. PICK c \in Instant : c = clock
  BY DEF CacheInv, PriceTypeOK
<1>3. PICK answered \in SUBSET (old.need \ Known(old.held)) :
        LET fresh == [t \in Tokens |-> IF t \in answered THEN c ELSE NoPrice]
            kept == RowsNow(Merged(old.held, fresh))
        IN  /\ price' = Merged(price, fresh)
            /\ timers' = SetEntries(answered)
            /\ Keeping(r, [pc |-> IF kept = {} THEN "done" ELSE "store", rows |-> kept])
  BY <1>1, <1>2 DEF FetchCurrent
<1>4. PICK f : f = [t \in Tokens |-> IF t \in answered THEN c ELSE NoPrice]
  OBVIOUS
<1>5. answered \in SUBSET Tokens /\ old.held \in CachedPrices
  BY DEF PriceRequest
<1>6. f \in CachedPrices /\ \A t \in Tokens : f[t] # NoPrice => t \in answered /\ f[t] = c
  BY <1>4, <1>5 DEF CachedPrices
<1>7. PICK h, e : h = Merged(old.held, f) /\ e = Merged(price, f)
  OBVIOUS
<1>8. /\ h \in CachedPrices /\ e \in CachedPrices
      /\ \A t \in Tokens : h[t] = (IF f[t] = NoPrice THEN old.held[t] ELSE f[t])
                           /\ e[t] = (IF f[t] = NoPrice THEN price[t] ELSE f[t])
  BY <1>5, <1>6, <1>7, MergedType DEF CacheInv, PriceTypeOK
<1>9. /\ price' = e /\ timers' = SetEntries(answered)
      /\ UNCHANGED <<clock, prices, priceJob, straddled, together, history, overtaken>>
  BY <1>3, <1>4, <1>7 DEF FetchCurrent
<1>10. /\ timers \subseteq timers'
       /\ \A x \in timers' : x.key \in Tokens \cup {AllPrices} /\ x.at \in Nat /\ x.at >= clock
       /\ \A t \in answered : Timed(t, c)'
  BY <1>2, <1>5, <1>9, FreshTimed
<1>11. PriceTypeOK' /\ TimersWait'
  BY <1>8, <1>9, <1>10 DEF CacheInv, PriceTypeOK, TimersWait
<1>12. \A t, p : (Timed(t, p) => Timed(t, p)') /\ (MapTimed(p) => MapTimed(p)')
  BY <1>10, StillTimed
<1>13. ~straddled => PricesTimed'
  <2> SUFFICES ASSUME ~straddled, NEW t \in Tokens, NEW p
               PROVE  /\ p = price'[t] /\ p # NoPrice => Timed(t, p)'
                      /\ p = prices'[t] /\ p # NoPrice => MapTimed(p)'
    BY PricesTimedNext
  <2> QED
    BY <1>6, <1>8, <1>9, <1>10, <1>12 DEF CacheInv, PricesTimed
<1>14. ~straddled => HeldTimed'
  <2> SUFFICES ASSUME ~straddled, NEW i \in PriceJobs, NEW t \in Tokens,
                      priceJob'[i].held[t] # NoPrice, NEW p, p = priceJob'[i].held[t]
               PROVE  Timed(t, p)'
    BY HeldTimedNext
  <2> QED
    BY <1>9, <1>12 DEF CacheInv, HeldTimed
<1>15. CacheInv'
  BY <1>9, <1>11, <1>13, <1>14 DEF CacheInv
<1>16. ASSUME Undisturbed, NEW t \in Tokens, h[t] # NoPrice PROVE clock <= h[t] + PriceTtl
  <2>1. CASE f[t] # NoPrice
    BY <1>2, <1>6, <1>8, <2>1, InstantNotNull, PriceAssumption
  <2>2. CASE f[t] = NoPrice
    <3>1. h[t] = old.held[t] /\ h[t] \in Instant
      BY <1>8, <1>16, <2>2 DEF CachedPrices
    <3>2. Timed(t, h[t])
      BY <1>1, <1>16, <3>1 DEF HistoryInv, RequestsTimed
    <3> QED
      BY <3>1, <3>2, TimedIsYoung
  <2> QED
    BY <2>1, <2>2
<1>17. PICK kept : kept = RowsNow(h)
  OBVIOUS
<1>18. kept \in SUBSET PriceRow /\ UniqueRows(kept) /\ (Undisturbed => RecentRows(kept))
  BY <1>8, <1>16, <1>17, RowsNowType
<1>19. PICK ch : ch = [pc |-> IF kept = {} THEN "done" ELSE "store", rows |-> kept]
  OBVIOUS
<1>20. Keeping(r, ch) /\ ch.pc \in {"done", "store"} /\ ch.rows = kept
  BY <1>3, <1>4, <1>7, <1>17, <1>19
<1>21. /\ history' \subseteq PriceRow /\ UniqueRows(history')
       /\ Undisturbed => RecentRows(history')
  BY <1>9 DEF HistoryInv, HistoryTypeOK, UniqueRows, RecentRows
<1>22. HistoryInv'
  BY <1>9, <1>10, <1>18, <1>20, <1>21, KeepingStep
<1> QED
  BY <1>15, <1>22

LEMMA StoreKeeps ==
  ASSUME HistoryInv, NEW r \in PriceRequests, Store(r) PROVE HistoryInv'
<1>1. PICK kept : kept = asking[r].rows
  OBVIOUS
<1>2. /\ kept \subseteq PriceRow /\ UniqueRows(kept)
      /\ Undisturbed => RecentRows(kept)
  BY <1>1 DEF HistoryInv, HistoryTypeOK, PriceRequest
<1>3. history' = {x \in history : \A y \in kept : UniqueKey(x) # UniqueKey(y)} \cup kept
  BY <1>1 DEF Store
<1>4. history' \subseteq PriceRow /\ UniqueRows(history')
  BY <1>2, <1>3 DEF HistoryInv, HistoryTypeOK, UniqueRows
<1>5. Undisturbed => RecentRows(history')
  BY <1>2, <1>3 DEF HistoryInv, RecentRows
<1>6. PICK ch : ch = [pc |-> "done", rows |-> {}]
  OBVIOUS
<1>7. ch.pc = "done" /\ ch.rows \in SUBSET PriceRow /\ UniqueRows(ch.rows) /\ RecentRows(ch.rows)
  BY <1>6 DEF UniqueRows, RecentRows
<1>8. Keeping(r, ch) /\ UNCHANGED <<together, overtaken, straddled>> /\ timers \subseteq timers'
  BY <1>6 DEF Store, priceVars
<1> QED
  BY <1>4, <1>5, <1>7, <1>8, KeepingStep

\* ----------------------------------------------------------- rows of a date
LEMMA DayOfType == \A d \in Instant : DayOf(d) \in Instant
<1> SUFFICES ASSUME NEW d \in Instant PROVE DayOf(d) \in Instant
  OBVIOUS
<1>1. d \in Nat /\ Day \in Nat /\ Day > 0 /\ MaxClock \in Nat /\ d <= MaxClock
  BY PriceAssumption, HistoryAssumption DEF Instant
<1>2. d % Day \in Nat /\ d % Day <= d
  BY <1>1
<1> QED
  BY <1>1, <1>2 DEF DayOf, Instant

LEMMA RowOfType ==
  ASSUME NEW t \in Tokens, NEW d \in Instant, NEW g \in Granularities
  PROVE  /\ RowOf(t, d, g) \in PriceRow /\ RowOf(t, d, g).past
         /\ UniqueKey(RowOf(t, d, g)) = <<t, d, g>>
BY DayOfType DEF RowOf, PriceRow, UniqueKey

LEMMA AskDateKeeps ==
  ASSUME HistoryInv, NEW r \in PriceRequests, AskDate(r) PROVE HistoryInv'
<1>1. PICK t \in AskedByDate, date \in Instant :
        \/ Keeping(r, [pc |-> "done", rows |-> {}])
        \/ Keeping(r, [pc |-> "fetchDay", rows |-> {RowOf(t, date, "day")}])
  BY DEF AskDate
<1>2. OnlyAsking
  BY DEF AskDate
<1>3. CASE Keeping(r, [pc |-> "done", rows |-> {}])
  BY <1>2, <1>3, RowlessStep
<1>4. CASE Keeping(r, [pc |-> "fetchDay", rows |-> {RowOf(t, date, "day")}])
  <2>1. PICK x : x = RowOf(t, date, "day")
    OBVIOUS
  <2>2. x \in PriceRow /\ x.past
    BY <2>1, RowOfType, HistoryAssumption DEF Granularities
  <2>3. PICK ch : ch = [pc |-> "fetchDay", rows |-> {x}]
    OBVIOUS
  <2>4. ch.pc = "fetchDay" /\ ch.rows \in SUBSET PriceRow /\ UniqueRows(ch.rows) /\ RecentRows(ch.rows)
    BY <2>2, <2>3 DEF UniqueRows, RecentRows
  <2> QED
    BY <1>2, <1>4, <2>1, <2>3, <2>4, AskingOnly, KeepingStep
<1> QED
  BY <1>1, <1>3, <1>4

LEMMA AskRangeKeeps ==
  ASSUME HistoryInv, NEW r \in PriceRequests, AskRange(r) PROVE HistoryInv'
<1>1. PICK t \in AskedByDate, start \in Instant, end \in Instant, g \in Granularities :
        \/ Keeping(r, [pc |-> "done", rows |-> {}])
        \/ Keeping(r, [pc |-> "fill",
                       rows |-> {RowOf(t, date, g) :
                                   date \in {d \in start .. end : (d - start) % Day = 0}}])
  BY DEF AskRange
<1>2. OnlyAsking
  BY DEF AskRange
<1>3. CASE Keeping(r, [pc |-> "done", rows |-> {}])
  BY <1>2, <1>3, RowlessStep
<1>4. CASE Keeping(r, [pc |-> "fill",
                       rows |-> {RowOf(t, date, g) :
                                   date \in {d \in start .. end : (d - start) % Day = 0}}])
  <2>1. PICK dates : dates = {d \in start .. end : (d - start) % Day = 0}
    OBVIOUS
  <2>2. \A d \in dates : d \in Instant
    <3>1. start \in Nat /\ end \in Nat /\ end <= MaxClock /\ MaxClock \in Nat
      BY PriceAssumption DEF Instant
    <3>2. \A d \in start .. end : d \in Instant
      BY <3>1 DEF Instant
    <3> QED
      BY <2>1, <3>2
  <2>3. PICK kept : kept = {RowOf(t, d, g) : d \in dates}
    OBVIOUS
  <2>4. \A x \in kept : \E d \in dates : x = RowOf(t, d, g) /\ x \in PriceRow /\ x.past
                                         /\ UniqueKey(x) = <<t, d, g>>
    BY <2>2, <2>3, RowOfType, HistoryAssumption
  <2>5. kept \in SUBSET PriceRow /\ UniqueRows(kept) /\ RecentRows(kept)
    BY <2>4 DEF UniqueRows, RecentRows
  <2>6. PICK ch : ch = [pc |-> "fill", rows |-> kept]
    OBVIOUS
  <2>7. ch.pc = "fill" /\ ch.rows = kept
    BY <2>6
  <2> QED
    BY <1>2, <1>4, <2>1, <2>3, <2>5, <2>6, <2>7, AskingOnly, KeepingStep
<1> QED
  BY <1>1, <1>3, <1>4

\* Some of the rows that a request keeps may be dropped.
LEMMA FewerRowsStep ==
  ASSUME HistoryInv, NEW r \in PriceRequests, OnlyAsking, NEW kept \in SUBSET asking[r].rows,
         NEW pc \in {"create", "done", "store"}, Keeping(r, [pc |-> pc, rows |-> kept])
  PROVE  HistoryInv'
<1>1. PICK ch : ch = [pc |-> pc, rows |-> kept]
  OBVIOUS
<1>2. /\ ch.pc = pc /\ ch.rows \in SUBSET PriceRow /\ UniqueRows(ch.rows)
      /\ Undisturbed => RecentRows(ch.rows)
  BY <1>1 DEF HistoryInv, HistoryTypeOK, PriceRequest, UniqueRows, RecentRows
<1> QED
  BY <1>1, <1>2, AskingOnly, KeepingStep

LEMMA FetchDayKeeps ==
  ASSUME HistoryInv, NEW r \in PriceRequests, FetchDay(r) PROVE HistoryInv'
BY FewerRowsStep DEF FetchDay

LEMMA FillDaysKeeps ==
  ASSUME HistoryInv, NEW r \in PriceRequests, FillDays(r) PROVE HistoryInv'
<1>1. PICK kept \in SUBSET Begun(asking[r].rows) :
        Keeping(r, [pc |-> IF kept = {} THEN "done" ELSE "store", rows |-> kept])
  BY DEF FillDays
<1>2. kept \in SUBSET asking[r].rows
  BY DEF Begun
<1>3. PICK pc : pc = IF kept = {} THEN "done" ELSE "store"
  OBVIOUS
<1> QED
  BY <1>1, <1>2, <1>3, FewerRowsStep DEF FillDays

LEMMA RequestFailsKeeps ==
  ASSUME HistoryInv, NEW r \in PriceRequests, RequestFails(r) PROVE HistoryInv'
BY RowlessStep DEF RequestFails

LEMMA CreateDayKeeps ==
  ASSUME HistoryInv, NEW r \in PriceRequests, CreateDay(r) PROVE HistoryInv'
<1>1. PICK kept : kept = {x \in asking[r].rows : \A y \in history : UniqueKey(x) # UniqueKey(y)}
  OBVIOUS
<1>2. /\ kept \subseteq PriceRow /\ UniqueRows(kept)
      /\ Undisturbed => RecentRows(kept)
  BY <1>1 DEF HistoryInv, HistoryTypeOK, PriceRequest, UniqueRows, RecentRows
<1>3. history' = history \cup kept
  BY <1>1 DEF CreateDay
<1>4. history' \subseteq PriceRow /\ UniqueRows(history')
  BY <1>1, <1>2, <1>3 DEF HistoryInv, HistoryTypeOK, UniqueRows
<1>5. Undisturbed => RecentRows(history')
  BY <1>2, <1>3 DEF HistoryInv, RecentRows
<1>6. PICK ch : ch = [pc |-> "done", rows |-> {}]
  OBVIOUS
<1>7. ch.pc = "done" /\ ch.rows \in SUBSET PriceRow /\ UniqueRows(ch.rows) /\ RecentRows(ch.rows)
  BY <1>6 DEF UniqueRows, RecentRows
<1>8. Keeping(r, ch) /\ UNCHANGED <<together, overtaken, straddled>> /\ timers \subseteq timers'
  BY <1>6 DEF CreateDay, priceVars
<1> QED
  BY <1>4, <1>5, <1>7, <1>8, KeepingStep

\* Steps of the cache beside requests that hold what they held.
LEMMA BesideCache ==
  ASSUME HistoryInv, UNCHANGED <<historyVars, straddled>>,
         \A r \in PriceRequests, t \in Tokens : \A p :
           p = asking[r].held[t] /\ Timed(t, p) => Timed(t, p)'
  PROVE  HistoryInv'
<1>1. UNCHANGED <<together, history, asking, overtaken>>
  BY DEF historyVars
<1>2. Undisturbed => RequestsTimed'
  <2> SUFFICES ASSUME Undisturbed, NEW r \in PriceRequests, NEW t \in Tokens,
                      asking'[r].held[t] # NoPrice, NEW p, p = asking'[r].held[t]
               PROVE  Timed(t, p)'
    BY RequestsTimedNext
  <2> QED
    BY <1>1 DEF HistoryInv, RequestsTimed
<1>3. HistoryTypeOK'
  BY <1>1 DEF HistoryInv, HistoryTypeOK, UniqueKey
<1>4. Undisturbed' = Undisturbed
  BY <1>1 DEF Undisturbed
<1> QED
  BY <1>1, <1>2, <1>3, <1>4 DEF HistoryInv, UniqueRows, UniqueKey, RecentRows

LEMMA CacheGrows ==
  ASSUME CacheInv, NEW j \in PriceJobs, PriceJobStep(j)
  PROVE  timers \subseteq timers' /\ UNCHANGED straddled
BY DEF PriceJobStep, ReadCached, Fetched, UpdatePriceCache, PriceJobFails, SetEntries

LEMMA CacheStepBeside ==
  ASSUME CacheInv, HistoryInv, PassTime \/ \E j \in PriceJobs : PriceJobStep(j),
         UNCHANGED historyVars
  PROVE  HistoryInv'
<1>1. timers \subseteq timers' /\ UNCHANGED straddled
  BY CacheGrows DEF PassTime
<1> QED
  BY <1>1, StillTimed, BesideCache

LEMMA TimerBeside ==
  ASSUME CacheInv, HistoryInv, NEW timer \in timers, DeleteExpired(timer),
         overtaken' = (overtaken \/ \E r \in PriceRequests : \E t \in Tokens :
                                       t = timer.key /\ asking[r].held[t] # NoPrice),
         UNCHANGED <<together, history, asking>>
  PROVE  HistoryInv'
<1>1. straddled' \in BOOLEAN /\ (straddled => straddled')
  BY DeleteExpiredKeeps DEF DeleteExpired, CacheInv, PriceTypeOK
<1>2. HistoryTypeOK'
  BY DEF HistoryInv, HistoryTypeOK, UniqueKey
<1>3. Undisturbed' => Undisturbed
  BY <1>1 DEF Undisturbed
<1>4. Undisturbed' => RequestsTimed'
  <2> SUFFICES ASSUME Undisturbed', NEW r \in PriceRequests, NEW t \in Tokens,
                      asking'[r].held[t] # NoPrice, NEW p, p = asking'[r].held[t]
               PROVE  Timed(t, p)'
    BY RequestsTimedNext
  <2>1. Timed(t, p)
    BY <1>3 DEF HistoryInv, RequestsTimed
  <2>2. t # timer.key
    BY DEF Undisturbed
  <2> QED
    BY <2>1, <2>2, DeleteExpiredKeeps
<1> QED
  BY <1>2, <1>3, <1>4 DEF HistoryInv, UniqueRows, UniqueKey, RecentRows

LEMMA HistoryNextInv ==
  ASSUME CacheInv, HistoryInv, HistoryNext
  PROVE  CacheInv' /\ HistoryInv'
<1>1. CASE /\ PassTime \/ \E j \in PriceJobs \cap together : PriceJobStep(j)
           /\ UNCHANGED historyVars
  BY <1>1, CacheStepBeside, PassTimeKeeps, JobStepKeeps
<1>2. CASE \E timer \in timers :
             /\ DeleteExpired(timer)
             /\ overtaken' = (overtaken \/ \E r \in PriceRequests : \E t \in Tokens :
                                       t = timer.key /\ asking[r].held[t] # NoPrice)
             /\ UNCHANGED <<together, history, asking>>
  BY <1>2, TimerBeside, DeleteExpiredKeeps
<1>3. CASE \E r \in CurrentRequests \cap together :
             \/ AskCurrent(r) \/ TakeCached(r) \/ FetchCurrent(r)
             \/ \E t \in Tokens : LookUp(r, t)
  <2>1. PICK r \in CurrentRequests \cap together :
             \/ AskCurrent(r) \/ TakeCached(r) \/ FetchCurrent(r)
             \/ \E t \in Tokens : LookUp(r, t)
    BY <1>3
  <2>2. r \in PriceRequests /\ r \in CurrentRequests
    BY DEF PriceRequests
  <2>3. CASE FetchCurrent(r)
    BY <2>2, <2>3, FetchCurrentKeeps
  <2>4. CASE AskCurrent(r) \/ TakeCached(r) \/ \E t \in Tokens : LookUp(r, t)
    <3>1. HistoryInv'
      BY <2>2, <2>4, AskCurrentKeeps, TakeCachedKeeps, LookUpKeeps
    <3>2. UNCHANGED priceVars
      BY <2>4 DEF AskCurrent, TakeCached, LookUp, OnlyAsking
    <3> QED
      BY <3>1, <3>2, CacheSame
  <2> QED
    BY <2>1, <2>3, <2>4
<1>4. CASE \/ \E r \in DatedRequests \cap together :
                AskDate(r) \/ AskRange(r) \/ FetchDay(r) \/ FillDays(r) \/ CreateDay(r)
           \/ \E r \in PriceRequests \cap together : Store(r) \/ RequestFails(r)
  <2>1. PICK r \in PriceRequests :
          \/ AskDate(r) \/ AskRange(r) \/ FetchDay(r) \/ FillDays(r) \/ CreateDay(r)
          \/ Store(r) \/ RequestFails(r)
    BY <1>4 DEF PriceRequests
  <2>2. HistoryInv'
    BY <2>1, AskDateKeeps, AskRangeKeeps, FetchDayKeeps, FillDaysKeeps, CreateDayKeeps,
       StoreKeeps, RequestFailsKeeps
  <2>3. UNCHANGED priceVars
    BY <2>1 DEF AskDate, AskRange, FetchDay, FillDays, CreateDay, Store, RequestFails, OnlyAsking
  <2> QED
    BY <2>2, <2>3, CacheSame
<1> QED
  BY <1>1, <1>2, <1>3, <1>4 DEF HistoryNext

LEMMA AnswersFrom == HistoryInv => HistoryTypeOK /\ AnswersAreRecent
BY DEF HistoryInv, AnswersAreRecent, Undisturbed

\* ------------------------------------------------------------- the whole server
\* While the requests for prices are not in focus, none of them has begun; the timers of
\* the price jobs then find no price that a request holds.
RequestsWait ==
  focus # "history" => /\ history = {} /\ overtaken = FALSE /\ together \in Together
                       /\ asking = [r \in PriceRequests |-> NewRequest]

TablesInv == MarketInv /\ RewardInv /\ HookInv /\ AccountsInv /\ MetadataInv
ServicesInv == focus \in Focuses /\ TablesInv /\ CacheInv /\ HistoryInv /\ RequestsWait

LEMMA ServicesInitInv == ServicesInit => ServicesInv
<1> SUFFICES ASSUME ServicesInit PROVE ServicesInv
  OBVIOUS
<1>1. TablesInv
  BY MarketInitInv, RewardInitInv, HookInitInv, AccountsInit_Inv, MetadataInit_Inv
     DEF ServicesInit, TablesInv
<1>2. CacheInv /\ HistoryInv
  BY CacheInitInv, HistoryInitInv DEF ServicesInit
<1>3. RequestsWait
  BY DEF ServicesInit, HistoryInit, RequestsWait
<1> QED
  BY <1>1, <1>2, <1>3 DEF ServicesInit, ServicesInv

\* A step of the server is a step or a stutter of each service with tables of its own.
LEMMA ServesOne ==
  ASSUME [ServicesNext]_servicesVars
  PROVE  /\ [MarketNext]_marketVars /\ [RewardNext]_rewardVars /\ [HookNext]_hookVars
         /\ [AccountsNext]_accountVars /\ [MetadataNext]_metadataVars
<1>1. CASE MarketServes
  BY <1>1 DEF MarketServes
<1>2. CASE RewardsServe
  BY <1>2 DEF RewardsServe
<1>3. CASE WebhooksServe
  BY <1>3 DEF WebhooksServe
<1>4. CASE PricesServe
  BY <1>4 DEF PricesServe
<1>5. CASE HistoryServes
  BY <1>5 DEF HistoryServes
<1>6. CASE AccountsServe
  BY <1>6 DEF AccountsServe
<1>7. CASE TokensServe
  BY <1>7 DEF TokensServe
<1>8. CASE UNCHANGED servicesVars
  BY <1>8 DEF servicesVars
<1> QED
  BY <1>1, <1>2, <1>3, <1>4, <1>5, <1>6, <1>7, <1>8 DEF ServicesNext

\* The cache of prices is left alone, or the jobs run without requests, or beside them.
LEMMA ServesPrices ==
  ASSUME [ServicesNext]_servicesVars
  PROVE  /\ UNCHANGED focus
         /\ \/ UNCHANGED <<priceVars, historyVars>>
            \/ focus # "history" /\ PriceNext /\ UNCHANGED historyVars
            \/ focus = "history" /\ HistoryNext
<1>1. CASE MarketServes
  BY <1>1 DEF MarketServes, Serve
<1>2. CASE RewardsServe
  BY <1>2 DEF RewardsServe, Serve
<1>3. CASE WebhooksServe
  BY <1>3 DEF WebhooksServe, Serve
<1>4. CASE PricesServe
  BY <1>4 DEF PricesServe, Serve
<1>5. CASE HistoryServes
  BY <1>5 DEF HistoryServes, Serve
<1>6. CASE AccountsServe
  BY <1>6 DEF AccountsServe, Serve
<1>7. CASE TokensServe
  BY <1>7 DEF TokensServe, Serve
<1>8. CASE UNCHANGED servicesVars
  BY <1>8 DEF servicesVars
<1> QED
  BY <1>1, <1>2, <1>3, <1>4, <1>5, <1>6, <1>7, <1>8 DEF ServicesNext

LEMMA HistorySame ==
  ASSUME HistoryInv, UNCHANGED <<priceVars, historyVars>> PROVE HistoryInv'
BY DEF HistoryInv, priceVars, historyVars, HistoryTypeOK, UniqueRows, UniqueKey, Undisturbed,
       RequestsTimed, Timed, RecentRows

LEMMA RequestsStillWait ==
  ASSUME RequestsWait, focus # "history", UNCHANGED <<focus, historyVars>>
  PROVE  RequestsWait' /\ HistoryInv'
<1>1. UNCHANGED <<together, history, asking, overtaken>>
  BY DEF historyVars
<1>2. RequestsWait'
  BY <1>1 DEF RequestsWait
<1>3. /\ history' = {} /\ overtaken' = FALSE /\ together' \in Together
      /\ asking' = [r \in PriceRequests |-> NewRequest]
  BY <1>1 DEF RequestsWait
<1>4. HistoryTypeOK'
  BY <1>3, NewRequestType DEF HistoryTypeOK
<1>5. 0 <= PriceTtl + MaxAge
  BY PriceAssumption, HistoryAssumption
<1>6. \A r \in PriceRequests : asking'[r] = NewRequest
  BY <1>3
<1>7. RequestsTimed'
  BY <1>6, NewRequestType, NoPricesType, RequestsTimedNext
<1> QED
  BY <1>2, <1>3, <1>4, <1>5, <1>6, <1>7, NewRequestType DEF HistoryInv, UniqueRows, RecentRows

LEMMA ServicesNextInv == ServicesInv /\ [ServicesNext]_servicesVars => ServicesInv'
<1> SUFFICES ASSUME ServicesInv, [ServicesNext]_servicesVars PROVE ServicesInv'
  OBVIOUS
<1>1. TablesInv'
  BY ServesOne, MarketNextInv, RewardNextInv, HookStepInv, AccountsNext_Inv, MetadataNext_Inv
     DEF ServicesInv, TablesInv
<1>2. UNCHANGED focus /\ focus \in Focuses
  BY ServesPrices DEF ServicesInv
<1>3. CASE UNCHANGED <<priceVars, historyVars>>
  <2>1. RequestsWait'
    BY <1>2, <1>3 DEF ServicesInv, RequestsWait, historyVars
  <2> QED
    BY <1>1, <1>2, <1>3, <2>1, CacheSame, HistorySame DEF ServicesInv
<1>4. CASE focus # "history" /\ PriceNext /\ UNCHANGED historyVars
  BY <1>1, <1>2, <1>4, CacheNextInv, RequestsStillWait DEF ServicesInv
<1>5. CASE focus = "history" /\ HistoryNext
  <2>1. RequestsWait'
    BY <1>2, <1>5 DEF RequestsWait
  <2> QED
    BY <1>1, <1>2, <1>5, <2>1, HistoryNextInv DEF ServicesInv
<1> QED
  BY <1>3, <1>4, <1>5, ServesPrices

LEMMA ServicesInvAlways == ServicesSpec => []ServicesInv
BY ServicesInitInv, ServicesNextInv, PTL DEF ServicesSpec

\* Tables, caches, timers, rows and the local variables of every request and job of the
\* server keep their types, however its requests overlap, fail and die.
THEOREM ServicesTypeCorrect == ServicesSpec => []ServicesTypeOK
<1>1. ServicesInv => ServicesTypeOK
  BY MarketInvTypes, RewardInvTypes, AnswersFrom
     DEF ServicesInv, TablesInv, ServicesTypeOK, HookInv, AccountsInv, MetadataInv, CacheInv
<1> QED
  BY <1>1, ServicesInvAlways, PTL

\* The server is a server of each of these services: what is proved of one of them holds
\* of the server.
THEOREM ServicesImplementEach ==
  ServicesSpec => MarketSpec /\ RewardSpec /\ HookSpec /\ AccountsSpec /\ MetadataSpec
<1>1. ServicesInit => MarketInit /\ RewardInit /\ HookInit /\ AccountsInit /\ MetadataInit
  BY DEF ServicesInit
<1> QED
  BY <1>1, ServesOne, PTL
     DEF ServicesSpec, MarketSpec, RewardSpec, HookSpec, AccountsSpec, MetadataSpec

\* Beside requests that fetch prices and hold them over an await, no cached price is older
\* than its lifetime, and none of the map than both, unless a timer fired while a job held it.
THEOREM ServedPricesFresh == ServicesSpec => []NeverStale
<1>1. ServicesInv => NeverStale
  BY NeverStaleFrom DEF ServicesInv
<1> QED
  BY <1>1, ServicesInvAlways, PTL

\* Two caches lie behind one another, each of which counts anew: a price answered out of
\* the table is no older than both lifetimes together, but for the two exceptions named.
THEOREM AnswersNeverOlder == ServicesSpec => []AnswersAreRecent
<1>1. ServicesInv => AnswersAreRecent
  BY AnswersFrom DEF ServicesInv
<1> QED
  BY <1>1, ServicesInvAlways, PTL
===============================================================================
