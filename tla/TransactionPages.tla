--------------------------- MODULE TransactionPages ---------------------------
(* GetUserStakingTransactionsUseCase: a client reads a wallet's transactions    *)
(* page by page. No page is kept: each request asks the subgraph for the newest *)
(* transactions, which may be more than the request before was given, sorts     *)
(* them and looks up a price for each, and drops those it finds no price for.   *)
EXTENDS Integers, FiniteSets, Sequences

CONSTANTS
  Limit,     \* 100, the transactions getUserTransactions returns
  PageSize,  \* limit of the client's requests
  MaxTransactions, \* bound on the history
  Orders     \* what the client may sort by: <<sort_by, sort_order>>

Types == {"deposit", "withdrawal"}

ASSUME PagesAssumption ==
  /\ Limit \in Nat \ {0} /\ PageSize \in Nat \ {0} /\ MaxTransactions \in Nat
  /\ Orders \subseteq {"date", "type"} \X {"asc", "desc"}

VARIABLES indexed, \* the wallet's transactions in the subgraph, as they were mined
          request, \* the client's query and its request in flight
          atFirst, \* the transactions listed when the first page was served
          shown,   \* the transactions on the pages so far
          dropped  \* a transaction was dropped for want of a price

pageVars == <<indexed, request, atFirst, shown, dropped>>

Transaction == [type : Types, at : 0 .. MaxTransactions]
Transactions == DOMAIN indexed
PageRequest == [pc : {"idle", "subgraph", "status", "prices", "end"},
                order : Orders, types : SUBSET Types, page : Nat, data : SUBSET Nat]

\* ----------------------------------------------------------------- subgraph
\* The subgraph orders by timestamp; the service puts deposits before withdrawals.
NewestFirst(a, b) ==
  LET x == indexed[a]  y == indexed[b]
  IN  \/ x.at > y.at
      \/ x.at = y.at /\ x.type = "deposit" /\ y.type = "withdrawal"
      \/ x.at = y.at /\ x.type = y.type /\ a > b

Position(a, txs, Before(_, _)) == Cardinality({b \in txs : Before(b, a)})

Newest(txs) == {a \in txs : Position(a, txs, NewestFirst) < Limit}

\* The newest deposits and the newest withdrawals, and of them the newest.
GetUserTransactions ==
  Newest(UNION {Newest({a \in Transactions : indexed[a].type = t}) : t \in Types})

\* ----------------------------------------------------------------- the page
\* sortTransactions is stable: what compares equal keeps its order.
SortsBefore(a, b) ==
  LET By == request.order[1]
      Less(x, y) == CASE By = "date" -> x.at < y.at
                      [] By = "type" -> x.type = "deposit" /\ y.type = "withdrawal"
      x == indexed[a]
      y == indexed[b]
  IN  \/ IF request.order[2] = "asc" THEN Less(x, y) ELSE Less(y, x)
      \/ ~Less(x, y) /\ ~Less(y, x) /\ NewestFirst(a, b)

PageFromZero(txs) ==
  {a \in txs : Position(a, txs, SortsBefore) \div PageSize = request.page}
Page(txs) ==
  {a \in txs : Position(a, txs, SortsBefore) \div PageSize = request.page - 1}

HasNext(txs) == request.page * PageSize < Cardinality(txs)

Continue(pc) == request' = [request EXCEPT !.pc = pc]

\* ------------------------------------------------------------------ actions
\* A transaction is mined and indexed, at the time of the last one or later.
Index ==
  /\ request.pc # "end" /\ Len(indexed) < MaxTransactions
  /\ \E t \in Types, later \in {0, 1} :
       indexed' = Append(indexed,
         [type |-> t,
          at |-> later + IF indexed = <<>> THEN 0 ELSE indexed[Len(indexed)].at])
  /\ UNCHANGED <<request, atFirst, shown, dropped>>

\* The first page, or the next one.
RequestPage ==
  /\ request.pc = "idle" /\ Continue("subgraph")
  /\ UNCHANGED <<indexed, atFirst, shown, dropped>>

QuerySubgraph ==
  /\ request.pc = "subgraph"
  /\ request' = [request EXCEPT !.pc = "status", !.data = GetUserTransactions]
  /\ UNCHANGED <<indexed, atFirst, shown, dropped>>

\* How far the subgraph is behind the chain; then the filters of the request.
GetSyncStatus ==
  /\ request.pc = "status"
  /\ request' = [request EXCEPT !.pc = "prices",
                   !.data = {a \in @ : indexed[a].type \in request.types}]
  /\ UNCHANGED <<indexed, atFirst, shown, dropped>>

\* The answer holds the page of what is left when every price was looked up.
EnrichTransactions ==
  /\ request.pc = "prices"
  /\ \E priced \in SUBSET request.data :
       /\ atFirst' = IF request.page = 1 THEN request.data ELSE atFirst
       /\ shown' = shown \cup Page(priced)
       /\ dropped' = (dropped \/ priced # request.data)
       /\ request' = [request EXCEPT !.data = {}, !.page = @ + 1,
                        !.pc = IF HasNext(priced) THEN "idle" ELSE "end"]
  /\ UNCHANGED indexed

\* The subgraph does not answer or reports an error: the client asks again.
RequestFails ==
  /\ request.pc \in {"subgraph", "status"}
  /\ request' = [request EXCEPT !.pc = "idle", !.data = {}]
  /\ UNCHANGED <<indexed, atFirst, shown, dropped>>

\* ------------------------------------------------------------ specification
FirstRequests ==
  [pc : {"idle"}, order : Orders, types : SUBSET Types \ {{}}, page : {1}, data : {{}}]

PagesInit ==
  /\ indexed = <<>>
  /\ request \in FirstRequests
  /\ atFirst = {} /\ shown = {} /\ dropped = FALSE

PagesNext ==
  \/ Index \/ RequestPage \/ QuerySubgraph \/ GetSyncStatus \/ EnrichTransactions
  \/ RequestFails

PagesSpec == PagesInit /\ [][PagesNext]_pageVars

\* --------------------------------------------------------------- properties
\* The history, the request and the pages have their types.
PagesTypeOK ==
  /\ indexed \in Seq(Transaction) /\ request \in PageRequest
  /\ request.data \cup shown \cup atFirst \subseteq Transactions
  /\ dropped \in BOOLEAN

\* A transaction is past the newest Limit, so that no request is given it any more.
PushedOut(a) == a \notin GetUserTransactions

\* However the history grows between its requests, a client that has read the last page
\* has seen every transaction that was there at the first and still is among the newest
\* Limit, unless a price was missing. Sorted by ascending date it may miss one as soon
\* as one that was there is pushed out, for that moves the others to an earlier page.
NothingMissed ==
  request.pc = "end" /\ ~dropped =>
    \A a \in atFirst :
      \/ a \in shown \/ PushedOut(a)
      \/ request.order = <<"date", "asc">> /\ \E b \in atFirst : PushedOut(b)
=============================================================================
