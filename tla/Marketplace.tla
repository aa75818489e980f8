------------------------------ MODULE Marketplace ------------------------------
(* The table asset_marketplace and the requests that read it, await, and write  *)
(* it: sale listings (single and in batches), bids, accepting and rejecting a   *)
(* bid, buying, cancelling and updating listings, and the transfer of an asset. *)
(* One step per database call. The assets exist and have a balance; a price is  *)
(* positive and below 100.                                                      *)
EXTENDS Integers, Sequences, FiniteSets

CONSTANTS
  Null,       \* no wallet, no instant
  Assets, Wallets,
  FirstOwner, \* the owner of every asset at the start
  Prices,     \* numbers below 100, stored as text
  Expiries,   \* the instants a request may name; odd, while the clock is even
  MaxNow,     \* bound on the clock
  Calls,      \* requests
  Batches,    \* sequences of assets a seller lists together
  Casts,      \* what the requests of one behaviour ask for
  Alone       \* those of them whose requests are made one after the other

Kinds == {"sell", "bid", "accept", "reject", "buy", "cancel", "update", "transfer"}
Statuses == {"ACTIVE", "COMPLETED", "CANCELLED"}

ASSUME MarketAssumption ==
  /\ Null \notin Wallets /\ Null \notin Expiries
  /\ FirstOwner \in Wallets
  /\ Prices \subseteq 1 .. 99
  /\ Expiries \subseteq {t \in Nat : t % 2 = 1}
  /\ MaxNow \in Nat
  /\ Casts \subseteq [Calls -> Kinds]
  /\ Alone \subseteq Casts
  \* A batch that names an asset twice is refused.
  /\ \A b \in Batches : b \in Seq(Assets) /\ \A m, n \in DOMAIN b : b[m] = b[n] => m = n

VARIABLES owner,   \* blockchain_assets.owner_address
          rows,    \* asset_marketplace, the id of a row being its index
          now,
          market,  \* the request that each call is, with its local variables
          made     \* what each call asks for

marketVars == <<owner, rows, now, market, made>>

\* ------------------------------------------------------------------- rows
Row == [asset : Assets, type : {"SALE", "BID"}, price : Prices, seller : Wallets,
        buyer : Wallets \cup {Null}, status : Statuses, expires : Expiries \cup {Null}]

IsExpired(row) == row.expires # Null /\ now > row.expires
IsActiveByStatus(row) == row.status = "ACTIVE"
IsActive(row) == row.status = "ACTIVE" /\ ~IsExpired(row)

Future == {t \in Expiries : t > now}

CanBeAcceptedBy(row, w) ==
  IsActive(row) /\ (row.type = "SALE" <=> w # row.seller)

CanBeModifiedBy(row, w) == w = (IF row.type = "SALE" THEN row.seller ELSE row.buyer)

\* findActiveSalesForAsset and findActiveBidsForAsset.
FindActive(type, asset) ==
  {i \in DOMAIN rows : /\ rows[i].type = type /\ rows[i].asset = asset
                       /\ rows[i].status = "ACTIVE"
                       /\ rows[i].expires \in Future \cup {Null}}

\* The place of a price in the order of its text: "1", "10", ..., "19", "2", ...
TextOrder(p) == IF p < 10 THEN 11 * p ELSE 11 * (p \div 10) + 1 + (p % 10)

\* findBestBidForAsset: the first in descending order of a text column.
FindBest(asset) ==
  LET bids == FindActive("BID", asset)
  IN  {i \in bids : \A j \in bids : TextOrder(rows[j].price) <= TextOrder(rows[i].price)}

\* update with a row that was read: an expiry it does not have is not written.
WriteRow(i, row) ==
  [rows EXCEPT ![i] = [row EXCEPT !.expires = IF @ = Null THEN rows[i].expires ELSE @]]

\* update with the columns a seller named.
WriteColumnsOfRead(i, price, expires) ==
  WriteRow(i, [rows[i] EXCEPT !.status = "ACTIVE", !.price = IF price = Null THEN @ ELSE price])

WriteColumns(i, price, expires) ==
  [rows EXCEPT ![i].price = IF price = Null THEN @ ELSE price,
               ![i].expires = IF expires = Null THEN @ ELSE expires]

\* --------------------------------------------------------------- requests
Request == [pc : {"idle", "asset", "sales", "best", "mine", "insert", "read", "write",
                  "end"},
            who : Wallets \cup {Null}, todo : Seq(Assets \cup Nat),
            valid : Seq(Assets \cup Nat), price : Prices \cup {Null},
            expires : Expiries \cup {Null}, row : Row \cup {Null},
            other : Wallets \cup {Null}]

Idle == [pc |-> "idle", who |-> Null, todo |-> <<>>, valid |-> <<>>, price |-> Null,
         expires |-> Null, row |-> Null, other |-> Null]

Start(c, kind, pc, request) ==
  /\ made[c] = kind /\ market[c].pc = "idle"
  /\ made \notin Alone \/ \A d \in Calls : market[d].pc \in {"idle", "end"}
  /\ market' = [market EXCEPT ![c] = [request EXCEPT !.pc = pc]]
  /\ UNCHANGED <<owner, rows, now, made>>

\* The request goes on at pc with new local variables; a finished one keeps none.
Go(c, pc, request) ==
  /\ market' = [market EXCEPT ![c] = [(IF pc = "end" THEN Idle ELSE request) EXCEPT !.pc = pc]]
  /\ UNCHANGED <<now, made>>

At(c, kind, pc) == made[c] = kind /\ market[c].pc = pc

Read(c, pc, request) == Go(c, pc, request) /\ UNCHANGED <<owner, rows>>
Skipped(c) == [market[c] EXCEPT !.todo = Tail(@)]
Accepted(c) == [market[c] EXCEPT !.todo = Tail(@), !.valid = Append(@, Head(market[c].todo))]

\* --------------------------------------------------------------- sell, bid
Sell(c) ==
  \E w \in Wallets, batch \in Batches, p \in Prices, t \in Expiries \cup {Null} :
    Start(c, "sell", "asset",
          [Idle EXCEPT !.who = w, !.todo = batch, !.price = p, !.expires = t])

\* findById of the next asset: only its owner may sell it.
FindToSell(c) ==
  /\ At(c, "sell", "asset") /\ market[c].todo # <<>>
  /\ IF owner[Head(market[c].todo)] = market[c].who
       THEN Read(c, "sales", market[c])
       ELSE Read(c, "asset", Skipped(c))

CheckSales(c) ==
  /\ At(c, "sell", "sales")
  /\ IF /\ FindActive("SALE", Head(market[c].todo)) = {}
        /\ market[c].expires \in Future \cup {Null}
       THEN Read(c, "asset", Accepted(c))
       ELSE Read(c, "asset", Skipped(c))

\* createMany; a request none of whose assets is valid is refused.
InsertSales(c) ==
  /\ At(c, "sell", "asset") /\ market[c].todo = <<>>
  /\ LET q == market[c]
         Sale(n) == [asset |-> q.valid[n], type |-> "SALE", price |-> q.price,
                     seller |-> q.who, buyer |-> Null, status |-> "ACTIVE",
                     expires |-> q.expires]
     IN  rows' = rows \o [n \in DOMAIN q.valid |-> Sale(n)]
  /\ Go(c, "end", Idle) /\ UNCHANGED owner

BidNoSeller(c) ==
  \E w \in Wallets, a \in Assets, p \in Prices, t \in Future \cup {Null} :
    /\ owner[a] # w
    /\ Start(c, "bid", "best", [Idle EXCEPT !.who = w, !.todo = <<a>>, !.price = p,
                                            !.expires = t])

\* The bidder reads the asset; the owner it sees becomes the seller of the bid.
Bid(c) ==
  \E w \in Wallets, a \in Assets, p \in Prices, t \in Future \cup {Null} :
    /\ owner[a] # w
    /\ Start(c, "bid", "best", [Idle EXCEPT !.who = w, !.todo = <<a>>, !.price = p,
                                            !.expires = t, !.other = owner[a]])

CheckBestBid(c) ==
  /\ At(c, "bid", "best")
  /\ IF \A i \in FindBest(Head(market[c].todo)) : rows[i].price < market[c].price
       THEN Read(c, "mine", market[c])
       ELSE Read(c, "end", Idle)

CheckOwnBid(c) ==
  /\ At(c, "bid", "mine")
  /\ IF \E i \in FindActive("BID", Head(market[c].todo)) : rows[i].buyer = market[c].who
       THEN Read(c, "end", Idle)
       ELSE Read(c, "insert", market[c])

InsertBid(c) ==
  /\ At(c, "bid", "insert")
  /\ LET q == market[c]
     IN  rows' = Append(rows, [asset |-> Head(q.todo), type |-> "BID", price |-> q.price,
                               seller |-> q.other, buyer |-> q.who, status |-> "ACTIVE",
                               expires |-> q.expires])
  /\ Go(c, "end", Idle) /\ UNCHANGED owner

\* ------------------------------------------------------- accept, reject, buy
\* manageBid: the row, a sale as well as a bid, is read, checked and changed in memory.
Accept(c) ==
  \E w \in Wallets, i \in DOMAIN rows :
    /\ CanBeAcceptedBy(rows[i], w)
    /\ Start(c, "accept", "write", [Idle EXCEPT !.todo = <<i>>,
               !.row = [rows[i] EXCEPT !.status = "COMPLETED"]])

Reject(c) ==
  \E w \in Wallets, i \in DOMAIN rows :
    /\ CanBeModifiedBy(rows[i], w)
    /\ Start(c, "reject", "write", [Idle EXCEPT !.todo = <<i>>,
               !.row = [rows[i] EXCEPT !.status = "CANCELLED"]])

\* buyToken: the newest sale of the asset that the buyer may take.
Buy(c) ==
  \E w \in Wallets, a \in Assets :
    LET open == {i \in DOMAIN rows : /\ rows[i].asset = a /\ rows[i].type = "SALE"
                                     /\ CanBeAcceptedBy(rows[i], w)}
    IN  \E i \in open :
          /\ \A j \in open : j <= i
          /\ Start(c, "buy", "write", [Idle EXCEPT !.todo = <<i>>,
                     !.row = [rows[i] EXCEPT !.status = "COMPLETED"]])

\* update(id, entity): every column that the entity has.
WriteStatus(c) ==
  /\ made[c] \in {"accept", "reject", "buy"} /\ market[c].pc = "write"
  /\ rows' = WriteRow(Head(market[c].todo), market[c].row)
  /\ Go(c, "end", Idle) /\ UNCHANGED owner

\* ----------------------------------------------------------- cancel, update
\* One listing, or two different ones.
Listings == {<<i>> : i \in DOMAIN rows} \cup
            {l \in [1 .. 2 -> DOMAIN rows] : l[1] # l[2]}

Cancel(c) ==
  \E w \in Wallets, batch \in Listings :
    Start(c, "cancel", "read", [Idle EXCEPT !.who = w, !.todo = batch])

CheckToCancel(c) ==
  /\ At(c, "cancel", "read") /\ market[c].todo # <<>>
  /\ LET row == rows[Head(market[c].todo)]
     IN  Read(c, "read", IF row.seller = market[c].who /\ IsActive(row)
                           THEN Accepted(c) ELSE Skipped(c))

\* cancelListings: one statement that takes only rows still active.
CancelListings(c) ==
  /\ At(c, "cancel", "read") /\ market[c].todo = <<>>
  /\ rows' = [i \in DOMAIN rows |->
               IF rows[i].status = "ACTIVE" /\ \E n \in DOMAIN market[c].valid : market[c].valid[n] = i
                 THEN [rows[i] EXCEPT !.status = "CANCELLED"]
                 ELSE rows[i]]
  /\ Go(c, "end", Idle) /\ UNCHANGED owner

Update(c) ==
  \E w \in Wallets, batch \in Listings, p \in Prices \cup {Null}, t \in Expiries \cup {Null} :
    /\ p # Null \/ t # Null
    /\ Start(c, "update", "read",
             [Idle EXCEPT !.who = w, !.todo = batch, !.price = p, !.expires = t])

CheckToUpdate(c) ==
  /\ At(c, "update", "read")
  /\ LET q == market[c]
     IN  IF q.todo = <<>> THEN Read(c, "end", Idle)
         ELSE IF /\ rows[Head(q.todo)].seller = q.who
                 /\ IsActive(rows[Head(q.todo)])
                 /\ q.expires \in Future \cup {Null}
                THEN Read(c, "write", q)
                ELSE Read(c, "read", Skipped(c))

UpdateListing(c) ==
  /\ At(c, "update", "write")
  /\ rows' = WriteColumns(Head(market[c].todo), market[c].price, market[c].expires)
  /\ Go(c, "read", Skipped(c)) /\ UNCHANGED owner

\* ------------------------------------------------------------ transfer, time
\* transferToken: the owner named by the caller is compared with the row read.
Transfer(c) ==
  \E w \in Wallets, a \in Assets :
    Start(c, "transfer", "write", [Idle EXCEPT !.todo = <<a>>, !.other = w])

WriteOwner(c) ==
  /\ At(c, "transfer", "write")
  /\ owner' = [owner EXCEPT ![Head(market[c].todo)] = market[c].other]
  /\ Go(c, "end", Idle) /\ UNCHANGED rows

Tick ==
  /\ now < MaxNow
  /\ now' = now + 2
  /\ UNCHANGED <<owner, rows, market, made>>

\* ------------------------------------------------------------ specification
MarketInit ==
  /\ owner = [a \in Assets |-> FirstOwner]
  /\ rows = <<>>
  /\ now = 0
  /\ market = [c \in Calls |-> Idle]
  /\ made \in Casts

MarketStep(c) ==
  \/ Sell(c) \/ FindToSell(c) \/ CheckSales(c) \/ InsertSales(c)
  \/ Bid(c) \/ CheckBestBid(c) \/ CheckOwnBid(c) \/ InsertBid(c)
  \/ Accept(c) \/ Reject(c) \/ Buy(c) \/ WriteStatus(c)
  \/ Cancel(c) \/ CheckToCancel(c) \/ CancelListings(c)
  \/ Update(c) \/ CheckToUpdate(c) \/ UpdateListing(c)
  \/ Transfer(c) \/ WriteOwner(c)

MarketNext == Tick \/ \E c \in Calls : MarketStep(c)

MarketSpec == MarketInit /\ [][MarketNext]_marketVars

\* --------------------------------------------------------------- properties
\* Rows, the owners and the local variables of the requests have their types.
MarketTypeOK ==
  /\ owner \in [Assets -> Wallets]
  /\ \A i \in DOMAIN rows : rows[i] \in Row
  /\ now \in 0 .. MaxNow + 1 /\ made \in Casts
  /\ \A c \in Calls : market[c] \in Request

\* No listing that was sold, accepted, rejected or cancelled is ever offered again,
\* whichever requests overlap and however late an update or a stale row is written.
NeverReactivated ==
  [][\A i \in DOMAIN rows : rows[i].status # "ACTIVE" => rows'[i].status # "ACTIVE"]_marketVars

\* While requests do not overlap an asset has one sale on offer at most, whatever
\* expires in the course of them: an expired listing cannot be brought back.
OneActiveSale ==
  made \in Alone => \A a \in Assets : Cardinality(FindActive("SALE", a)) <= 1

\* CreateBidUseCase refuses a bid with "Bid must be higher than the current best bid":
\* a bid that is inserted is above every active bid of its asset.
BidRaises ==
  [][\A n \in DOMAIN rows' \ DOMAIN rows :
       rows'[n].type = "BID" =>
         \A i \in FindActive("BID", rows'[n].asset) : rows[i].price < rows'[n].price]_marketVars
=============================================================================
