------------------------- MODULE ServiceTables_proofs -------------------------
(* Theorems about four services of the API server, for any number of requests,  *)
(* jobs and rows: linked accounts, the metadata of tokens, the contributions of *)
(* developers and the outbound webhooks. Each keeps a table that several        *)
(* requests read, await something and write back.                               *)
EXTENDS LinkedAccounts, TokenMetadata, DeveloperRewards, WebhookSubscriptions,
        FiniteSetTheorems, TLAPS

\* ------------------------------------------------------------ linked accounts
\* An account has two owners only where two users linked it at once. The
\* invariant says of every request that may still save what the property says
\* of the rows: one that passed its check knows no other owner, and no other
\* user's request passed it too, unless the account is contested.
Saving(l) == link[l].pc = "save"

\* A request that goes on has a user and an account.
LinksFilled ==
  \A l \in Links : link[l].pc # "idle" => link[l].user \in Users /\ link[l].account \in Accounts

SaversMeet ==
  \A l, m \in Links :
    Saving(l) /\ Saving(m) /\ link[l].account = link[m].account
      /\ link[l].user # link[m].user => link[l].account \in contested

SaverMeetsRow ==
  \A l \in Links, u \in Users :
    Saving(l) /\ <<u, link[l].account>> \in linked /\ link[l].user # u
      => link[l].account \in contested

RowsMeet ==
  \A a \in Accounts, u, v \in Users :
    <<u, a>> \in linked /\ <<v, a>> \in linked /\ u # v => a \in contested

AccountsInv == AccountsTypeOK /\ LinksFilled /\ SaversMeet /\ SaverMeetsRow /\ RowsMeet

\* What a request becomes when it is answered.
LEMMA NoLinkType == NoLink \in LinkRequest /\ NoLink.pc = "idle"
  BY DEF NoLink, LinkRequest

LEMMA AccountsInit_Inv == AccountsInit => AccountsInv
  BY NoLinkType DEF AccountsInit, AccountsInv, AccountsTypeOK, LinksFilled, SaversMeet,
     SaverMeetsRow, RowsMeet, Saving

LEMMA AccountsNext_Inv == AccountsInv /\ [AccountsNext]_accountVars => AccountsInv'
<1>1. SUFFICES ASSUME AccountsInv, [AccountsNext]_accountVars PROVE AccountsInv'
  OBVIOUS
<1>2. /\ AccountsTypeOK /\ LinksFilled /\ SaversMeet /\ SaverMeetsRow /\ RowsMeet
      /\ linked \subseteq Users \X Accounts /\ link \in [Links -> LinkRequest]
  BY <1>1 DEF AccountsInv, AccountsTypeOK
<1>3. ASSUME NEW l \in Links, LinkAccount(l) PROVE AccountsInv'
  <2>1. PICK u \in Users, a \in Accounts :
          link' = [link EXCEPT ![l] = [pc |-> "find", user |-> u, account |-> a]]
    BY <1>3 DEF LinkAccount
  <2>2. UNCHANGED <<linked, contested>>
    BY <1>3 DEF LinkAccount
  <2>3. AccountsTypeOK' /\ LinksFilled'
    BY <1>2, <2>1, <2>2 DEF AccountsTypeOK, LinkRequest, LinksFilled
  <2>4. \A m \in Links : Saving(m)' => Saving(m) /\ link'[m] = link[m]
    BY <1>2, <2>1 DEF Saving
  <2> QED
    BY <1>2, <2>2, <2>3, <2>4 DEF AccountsInv, SaversMeet, SaverMeetsRow, RowsMeet
<1>4. ASSUME NEW l \in Links, CheckOwner(l) PROVE AccountsInv'
  <2> DEFINE u == link[l].user  a == link[l].account
  <2>1. link[l].pc = "find" /\ u \in Users /\ a \in Accounts /\ UNCHANGED linked
    BY <1>2, <1>4 DEF CheckOwner, LinksFilled
  <2>2. CASE Answer(l) /\ UNCHANGED contested
    <3>1. AccountsTypeOK' /\ LinksFilled'
      BY <1>2, <2>1, <2>2, NoLinkType DEF Answer, AccountsTypeOK, LinksFilled
    <3>2. \A m \in Links : Saving(m)' => Saving(m) /\ link'[m] = link[m]
      BY <1>2, <2>2, NoLinkType DEF Answer, Saving
    <3> QED
      BY <1>2, <2>1, <2>2, <3>1, <3>2 DEF AccountsInv, SaversMeet, SaverMeetsRow, RowsMeet
  <2>3. CASE ~Answer(l) \/ ~UNCHANGED contested
    <3>1. PICK owner \in FindByTypeAndIdentifier(u, a) : owner \in {Nobody, u}
      BY <1>4, <2>3 DEF CheckOwner
    <3>2. /\ link' = [link EXCEPT ![l].pc = "save"]
          /\ contested' = contested \cup
               {b \in Accounts : b = a /\ \E m \in Links :
                  link[m].pc = "save" /\ link[m].account = b /\ link[m].user # u}
      BY <1>4, <2>3 DEF CheckOwner
    <3>3. AccountsTypeOK' /\ LinksFilled'
      BY <1>2, <2>1, <3>2 DEF AccountsTypeOK, LinkRequest, LinksFilled
    <3>4. /\ \A m \in Links : m # l => link'[m] = link[m]
          /\ link'[l].user = u /\ link'[l].account = a
          /\ contested \subseteq contested'
      BY <1>2, <3>2 DEF LinkRequest
    <3>5. \A m \in Links : Saving(m) /\ link[m].account = a /\ link[m].user # u
                             => a \in contested'
      BY <2>1, <3>2 DEF Saving
    <3>6. \A v \in Users : <<v, a>> \in linked /\ v # u => a \in contested
      BY <1>2, <2>1, <3>1, AccountsAssumption
      DEF FindByTypeAndIdentifier, OwnersOf, RowsMeet
    <3> HIDE DEF u, a
    <3>7. SaversMeet'
      BY <1>2, <3>4, <3>5 DEF SaversMeet, Saving
    <3>8. SaverMeetsRow'
      BY <1>2, <2>1, <3>4, <3>6 DEF SaverMeetsRow, Saving
    <3> QED
      BY <1>2, <2>1, <3>3, <3>4, <3>7, <3>8 DEF AccountsInv, RowsMeet
  <2> QED
    BY <2>2, <2>3
<1>5. ASSUME NEW l \in Links, Save(l) PROVE AccountsInv'
  <2> DEFINE u == link[l].user  a == link[l].account
  <2>1. /\ Saving(l) /\ u \in Users /\ a \in Accounts
        /\ linked' = linked \cup {<<u, a>>} /\ Answer(l) /\ UNCHANGED contested
    BY <1>2, <1>5 DEF Save, LinksFilled, Saving
  <2>2. AccountsTypeOK' /\ LinksFilled'
    BY <1>2, <2>1, NoLinkType DEF Answer, AccountsTypeOK, LinksFilled
  <2>3. \A m \in Links : Saving(m)' => Saving(m) /\ link'[m] = link[m]
    BY <1>2, <2>1, NoLinkType DEF Answer, Saving
  <2>4. \A v \in Users, b \in Accounts : <<v, b>> \in linked' =>
          <<v, b>> \in linked \/ (v = u /\ b = a)
    BY <2>1
  <2> HIDE DEF u, a
  <2>5. SaversMeet'
    BY <1>2, <2>1, <2>3 DEF SaversMeet
  <2>6. SaverMeetsRow'
    BY <1>2, <2>1, <2>2, <2>3, <2>4 DEF SaverMeetsRow, SaversMeet, LinksFilled, Saving, u, a
  <2>7. RowsMeet'
    BY <1>2, <2>1, <2>4 DEF RowsMeet, SaverMeetsRow, u, a
  <2> QED
    BY <2>2, <2>5, <2>6, <2>7 DEF AccountsInv
<1>6. CASE UnlinkAccount
  <2>1. linked' \subseteq linked /\ UNCHANGED <<link, contested>>
    BY <1>6 DEF UnlinkAccount
  <2> QED
    BY <1>2, <2>1 DEF AccountsInv, AccountsTypeOK, LinksFilled, SaversMeet, SaverMeetsRow,
       RowsMeet, Saving
<1>7. ASSUME NEW l \in Links, LinkFails(l) PROVE AccountsInv'
  <2>1. Answer(l) /\ UNCHANGED <<linked, contested>>
    BY <1>7 DEF LinkFails
  <2>2. AccountsTypeOK' /\ LinksFilled'
    BY <1>2, <2>1, NoLinkType DEF Answer, AccountsTypeOK, LinksFilled
  <2>3. \A m \in Links : Saving(m)' => Saving(m) /\ link'[m] = link[m]
    BY <1>2, <2>1, NoLinkType DEF Answer, Saving
  <2> QED
    BY <1>2, <2>1, <2>2, <2>3 DEF AccountsInv, SaversMeet, SaverMeetsRow, RowsMeet
<1>8. CASE UNCHANGED accountVars
  BY <1>2, <1>8 DEF accountVars, AccountsInv, AccountsTypeOK, LinksFilled, SaversMeet,
     SaverMeetsRow, RowsMeet, Saving
<1> QED
  BY <1>1, <1>3, <1>4, <1>5, <1>6, <1>7, <1>8 DEF AccountsNext

LEMMA RowsMeet_OneOwner == AccountsTypeOK /\ RowsMeet => OneOwner
<1>1. SUFFICES ASSUME AccountsTypeOK, RowsMeet, NEW a \in Accounts, a \notin contested
               PROVE ~(Cardinality(OwnersOf(a)) > 1)
  BY DEF OneOwner
<1>2. \A u, v \in OwnersOf(a) : u = v
  BY <1>1 DEF RowsMeet, OwnersOf
<1>3. CASE OwnersOf(a) = {}
  BY <1>3, FS_EmptySet
<1>4. CASE OwnersOf(a) # {}
  <2>1. PICK u : OwnersOf(a) = {u}
    BY <1>2, <1>4
  <2> QED
    BY <2>1, FS_Singleton
<1> QED
  BY <1>3, <1>4

\* Whatever is linked, linked again and unlinked, and whichever request fails: an account
\* has one owner in linked_accounts, but where two users linked it at once.
THEOREM AccountHasOneOwner == AccountsSpec => []OneOwner
<1>1. AccountsInv => OneOwner
  BY RowsMeet_OneOwner DEF AccountsInv
<1> QED
  BY <1>1, AccountsInit_Inv, AccountsNext_Inv, PTL DEF AccountsSpec

\* ------------------------------------------------------------- token metadata
\* A pool that was synced is listed as an LP token. Rows are never deleted and
\* no update changes is_lp_token, for it keeps that of the row it read; so a
\* row that an execution holds agrees in it with the row in the table, and a
\* row without it is one that CacheTokenMetadataUseCase created.
\* The row an execution found is still there, and as much an LP token as it was.
RowsKept ==
  \A f \in Fetches :
    LET q == fetch[f]
    IN  q.existing # NoToken => /\ token[q.address] # NoToken
                                /\ token[q.address].isLpToken = q.existing.isLpToken

PlainCreated ==
  \A a \in Addresses : token[a] # NoToken => token[a].isLpToken \/ a \in plain

SyncedStored == \A a \in synced : token[a] # NoToken

MetadataInv == MetadataTypeOK /\ RowsKept /\ PlainCreated /\ SyncedStored

\* No row of the table is NoToken.
LEMMA RowNotNull == \A row \in TokenRow : row # NoToken
<1>1. TokenRow \subseteq [isLpToken : BOOLEAN, totalSupply : Nat]
  BY MetadataAssumption DEF TokenRow, Supply
<1> QED
  BY <1>1, MetadataAssumption

LEMMA NoFetchType == NoFetch \in Fetch /\ NoFetch.existing = NoToken
<1>1. (CHOOSE a \in Addresses : TRUE) \in Addresses
  BY MetadataAssumption
<1> QED
  BY <1>1, MetadataAssumption DEF NoFetch, Fetch, Supply

LEMMA MetadataInit_Inv == MetadataInit => MetadataInv
<1>1. SUFFICES ASSUME MetadataInit PROVE MetadataInv
  OBVIOUS
<1>2. MetadataTypeOK
  BY <1>1, NoFetchType, MetadataAssumption DEF MetadataInit, MetadataTypeOK, Supply
<1> QED
  BY <1>1, <1>2, NoFetchType
  DEF MetadataInit, MetadataInv, RowsKept, PlainCreated, SyncedStored

\* The table changes in one row, which is created, or written by an update that leaves
\* is_lp_token alone.
RowWritten(address, row) ==
  /\ token' = [token EXCEPT ![address] = row]
  /\ token[address] = NoToken \/ token[address].isLpToken = row.isLpToken

\* The steps that leave the table alone change one execution, which holds no row
\* afterwards, or one that agrees with the table.
LEMMA TableKept ==
  ASSUME MetadataInv, MetadataTypeOK', NEW f \in Fetches, NEW q, UNCHANGED <<token, plain>>,
         fetch' = [fetch EXCEPT ![f] = q],
         \/ q.existing = NoToken
         \/ q.existing = token[q.address]
         \/ q.existing = fetch[f].existing /\ q.address = fetch[f].address,
         \A a \in synced' : a \in synced \/ token[a] # NoToken
  PROVE  MetadataInv'
<1>1. fetch \in [Fetches -> Fetch] /\ token \in [Addresses -> TokenRow \cup {NoToken}]
  BY DEF MetadataInv, MetadataTypeOK
<1>2. RowsKept'
  <2>1. SUFFICES ASSUME NEW g \in Fetches, fetch'[g].existing # NoToken
                 PROVE /\ token[fetch'[g].address] # NoToken
                       /\ token[fetch'[g].address].isLpToken = fetch'[g].existing.isLpToken
    BY DEF RowsKept
  <2>2. CASE g = f
    BY <1>1, <2>1, <2>2 DEF MetadataInv, RowsKept
  <2>3. CASE g # f
    BY <1>1, <2>1, <2>3 DEF MetadataInv, RowsKept
  <2> QED
    BY <2>2, <2>3
<1> QED
  BY <1>2 DEF MetadataInv, PlainCreated, SyncedStored

\* A step that writes a row answers its execution.
LEMMA TableWritten ==
  ASSUME MetadataInv, MetadataTypeOK', NEW f \in Fetches, NEW a \in Addresses,
         NEW row \in TokenRow, RowWritten(a, row),
         fetch' = [fetch EXCEPT ![f] = NoFetch],
         plain \subseteq plain', row.isLpToken \/ a \in plain',
         synced' \subseteq synced \cup {a}
  PROVE  MetadataInv'
<1>1. fetch \in [Fetches -> Fetch] /\ token \in [Addresses -> TokenRow \cup {NoToken}]
  BY DEF MetadataInv, MetadataTypeOK
<1>2. /\ token'[a] = row /\ row # NoToken
      /\ \A b \in Addresses : b # a => token'[b] = token[b]
  BY <1>1, RowNotNull DEF RowWritten
<1>3. RowsKept'
  <2>1. SUFFICES ASSUME NEW g \in Fetches, fetch'[g].existing # NoToken
                 PROVE /\ token'[fetch'[g].address] # NoToken
                       /\ token'[fetch'[g].address].isLpToken = fetch'[g].existing.isLpToken
    BY DEF RowsKept
  <2>2. g # f /\ fetch'[g] = fetch[g] /\ fetch[g].address \in Addresses
    BY <1>1, <2>1, NoFetchType DEF Fetch
  <2>3. /\ token[fetch[g].address] # NoToken
        /\ token[fetch[g].address].isLpToken = fetch[g].existing.isLpToken
    BY <2>1, <2>2 DEF MetadataInv, RowsKept
  <2>4. CASE fetch[g].address = a
    BY <1>2, <2>2, <2>3, <2>4 DEF RowWritten
  <2>5. CASE fetch[g].address # a
    BY <1>2, <2>2, <2>3, <2>5
  <2> QED
    BY <2>4, <2>5
<1>4. PlainCreated'
  BY <1>2 DEF MetadataInv, PlainCreated
<1>5. SyncedStored'
  BY <1>2 DEF MetadataInv, SyncedStored, MetadataTypeOK
<1> QED
  BY <1>3, <1>4, <1>5 DEF MetadataInv

LEMMA MetadataNext_Inv == MetadataInv /\ [MetadataNext]_metadataVars => MetadataInv'
<1>1. SUFFICES ASSUME MetadataInv, [MetadataNext]_metadataVars PROVE MetadataInv'
  OBVIOUS
<1>2. /\ MetadataInv /\ MetadataTypeOK
      /\ supply \in [Addresses -> Supply] /\ fetch \in [Fetches -> Fetch]
      /\ token \in [Addresses -> TokenRow \cup {NoToken}]
      /\ synced \subseteq Addresses /\ plain \subseteq Addresses
  BY <1>1 DEF MetadataInv, MetadataTypeOK
<1>3. ASSUME NEW f \in Fetches, NEW kind \in {"cache", "pool"}, NEW a \in Addresses,
             NEW force \in BOOLEAN, Begin(f, kind, a, force)
      PROVE MetadataInv'
  <2> DEFINE q == [NoFetch EXCEPT !.pc = "find", !.kind = kind, !.address = a, !.force = force]
  <2>1. fetch' = [fetch EXCEPT ![f] = q] /\ UNCHANGED <<supply, token, synced, plain>>
    BY <1>3 DEF Begin
  <2>2. q \in Fetch /\ q.existing = NoToken
    BY NoFetchType DEF Fetch
  <2> HIDE DEF q
  <2>3. MetadataTypeOK'
    BY <1>2, <2>1, <2>2 DEF MetadataTypeOK
  <2> QED
    BY <1>2, <2>1, <2>2, <2>3, TableKept
<1>4. ASSUME NEW f \in Fetches,
             GetByAddress(f) \/ CacheTokens(f) \/ RefreshStaleTokens(f) \/ SyncLpTokens(f)
      PROVE MetadataInv'
  BY <1>3, <1>4 DEF GetByAddress, CacheTokens, RefreshStaleTokens, SyncLpTokens
\* An execution that is answered while the table is left alone.
<1>5. ASSUME NEW f \in Fetches, Return(f), UNCHANGED <<supply, token, plain>>,
             \A a \in synced' : a \in synced \/ (a \in Addresses /\ token[a] # NoToken)
      PROVE MetadataInv'
  <2>1. fetch' = [fetch EXCEPT ![f] = NoFetch]
    BY <1>5 DEF Return
  <2>2. MetadataTypeOK'
    BY <1>2, <1>5, <2>1, NoFetchType DEF MetadataTypeOK
  <2> QED
    BY <1>2, <1>5, <2>1, <2>2, NoFetchType, TableKept
<1>6. ASSUME NEW f \in Fetches, FindByAddress(f) PROVE MetadataInv'
  <2> DEFINE row == token[fetch[f].address]
             q == [fetch[f] EXCEPT !.pc = "chain", !.existing = row]
  <2>1. UNCHANGED <<supply, token, synced, plain>>
    BY <1>6 DEF FindByAddress
  <2>2. CASE Return(f)
    BY <1>5, <2>1, <2>2
  <2>3. CASE ~Return(f)
    <3>1. fetch' = [fetch EXCEPT ![f].pc = "chain", ![f].existing = row]
      BY <1>6, <2>3 DEF FindByAddress
    <3>2. fetch' = [fetch EXCEPT ![f] = q]
      BY <1>2, <3>1
    <3>3. q \in Fetch /\ q.existing = token[q.address]
      BY <1>2 DEF Fetch
    <3> HIDE DEF q, row
    <3>4. MetadataTypeOK'
      BY <1>2, <2>1, <3>2, <3>3 DEF MetadataTypeOK
    <3> QED
      BY <1>2, <2>1, <3>2, <3>3, <3>4, TableKept
  <2> QED
    BY <2>2, <2>3
<1>7. ASSUME NEW f \in Fetches, FetchTokenMetadata(f) PROVE MetadataInv'
  <2> DEFINE q == [fetch[f] EXCEPT !.pc = "save", !.read = supply[fetch[f].address]]
  <2>1. /\ UNCHANGED <<supply, token, synced, plain>>
        /\ fetch' = [fetch EXCEPT ![f].pc = "save", ![f].read = supply[fetch[f].address]]
    BY <1>7 DEF FetchTokenMetadata
  <2>2. fetch' = [fetch EXCEPT ![f] = q]
    BY <1>2, <2>1
  <2>3. q \in Fetch /\ q.existing = fetch[f].existing /\ q.address = fetch[f].address
    BY <1>2 DEF Fetch
  <2> HIDE DEF q
  <2>4. MetadataTypeOK'
    BY <1>2, <2>1, <2>2, <2>3 DEF MetadataTypeOK
  <2> QED
    BY <1>2, <2>1, <2>2, <2>3, <2>4, TableKept
<1>8. ASSUME NEW f \in Fetches, CreateToken(f) PROVE MetadataInv'
  <2> DEFINE a == fetch[f].address  row == Created(fetch[f])
  <2>1. a \in Addresses /\ row \in TokenRow /\ (row.isLpToken <=> fetch[f].kind = "pool")
    BY <1>2 DEF Fetch, Created, TokenRow
  <2>2. UNCHANGED supply
    BY <1>8 DEF CreateToken
  <2>3. CASE token[a] = NoToken
    <3>1. /\ token' = [token EXCEPT ![a] = row]
          /\ plain' = plain \cup {b \in {a} : fetch[f].kind = "cache"}
          /\ synced' = synced \cup {b \in {a} : fetch[f].kind = "pool"}
          /\ fetch' = [fetch EXCEPT ![f] = NoFetch]
      BY <1>8, <2>3 DEF CreateToken, Succeed, Return
    <3>2. fetch[f].kind \in {"cache", "pool"}
      BY <1>2 DEF Fetch
    <3> HIDE DEF a, row
    <3>3. MetadataTypeOK'
      BY <1>2, <2>1, <2>2, <3>1, NoFetchType DEF MetadataTypeOK
    <3>4. /\ RowWritten(a, row) /\ plain \subseteq plain' /\ synced' \subseteq synced \cup {a}
          /\ row.isLpToken \/ a \in plain'
      BY <2>1, <2>3, <3>1, <3>2 DEF RowWritten
    <3> QED
      BY <1>2, <2>1, <3>1, <3>3, <3>4, TableWritten
  <2>4. CASE token[a] # NoToken
    <3>1. Return(f) /\ UNCHANGED <<token, synced, plain>>
      BY <1>8, <2>4 DEF CreateToken
    <3> QED
      BY <1>5, <2>2, <3>1
  <2> QED
    BY <2>3, <2>4
<1>9. ASSUME NEW f \in Fetches, UpdateToken(f) PROVE MetadataInv'
  <2> DEFINE a == fetch[f].address  row == Updated(fetch[f])
  <2>1. /\ fetch[f].existing # NoToken /\ UNCHANGED <<supply, plain>> /\ Return(f)
        /\ synced' = synced \cup {b \in {a} : fetch[f].kind = "pool"}
        /\ token' = [token EXCEPT ![a] = row] \/ UNCHANGED token
    BY <1>9 DEF UpdateToken, Succeed
  <2>2. /\ a \in Addresses /\ fetch[f].existing \in TokenRow /\ fetch[f].read \in Supply
        /\ token[a] # NoToken /\ token[a].isLpToken = fetch[f].existing.isLpToken
    BY <1>2, <2>1 DEF Fetch, MetadataInv, RowsKept
  <2>3. row \in TokenRow /\ row.isLpToken = fetch[f].existing.isLpToken
    BY <2>2 DEF Updated, TokenRow
  <2> HIDE DEF a, row
  <2>4. CASE token' = [token EXCEPT ![a] = row]
    <3>1. fetch' = [fetch EXCEPT ![f] = NoFetch] /\ synced' \subseteq synced \cup {a}
      BY <2>1 DEF Return
    <3>2. MetadataTypeOK'
      BY <1>2, <2>1, <2>2, <2>3, <2>4, <3>1, NoFetchType DEF MetadataTypeOK
    <3>3. RowWritten(a, row) /\ (row.isLpToken \/ a \in plain')
      BY <1>2, <2>1, <2>2, <2>3, <2>4 DEF RowWritten, MetadataInv, PlainCreated
    <3> QED
      BY <1>2, <2>1, <2>2, <2>3, <3>1, <3>2, <3>3, TableWritten
  <2>5. CASE UNCHANGED token
    BY <1>5, <2>1, <2>2, <2>5
  <2> QED
    BY <2>1, <2>4, <2>5
<1>10. ASSUME NEW f \in Fetches, FetchFails(f) PROVE MetadataInv'
  BY <1>5, <1>10 DEF FetchFails
<1>11. CASE MintSupply
  <2>1. PICK a \in Addresses : supply[a] < MaxSupply /\ supply' = [supply EXCEPT ![a] = @ + 1]
    BY <1>11 DEF MintSupply
  <2>2. UNCHANGED <<token, fetch, synced, plain>>
    BY <1>11 DEF MintSupply
  <2>3. MetadataTypeOK'
    BY <1>2, <2>1, <2>2, MetadataAssumption DEF MetadataTypeOK, Supply
  <2> QED
    BY <1>2, <2>2, <2>3 DEF MetadataInv, RowsKept, PlainCreated, SyncedStored
<1>12. CASE UNCHANGED metadataVars
  BY <1>2, <1>12 DEF metadataVars, MetadataInv, MetadataTypeOK, RowsKept, PlainCreated,
     SyncedStored
<1> QED
  BY <1>1, <1>4, <1>6, <1>7, <1>8, <1>9, <1>10, <1>11, <1>12 DEF MetadataNext

\* Rows, executions and supplies keep their types, whatever overlaps and fails.
THEOREM MetadataTypeCorrect == MetadataSpec => []MetadataTypeOK
<1>1. MetadataInv => MetadataTypeOK
  BY DEF MetadataInv
<1> QED
  BY <1>1, MetadataInit_Inv, MetadataNext_Inv, PTL DEF MetadataSpec

\* A synced pool stays an LP token whatever caches and refreshes its row meanwhile, but
\* where CacheTokenMetadataUseCase created the row.
THEOREM SyncedPoolsAreFound == MetadataSpec => []PoolsAreFound
<1>1. MetadataInv => PoolsAreFound
  BY DEF MetadataInv, MetadataTypeOK, PlainCreated, SyncedStored, PoolsAreFound
<1> QED
  BY <1>1, MetadataInit_Inv, MetadataNext_Inv, PTL DEF MetadataSpec

\* ---------------------------------------------------------- developer rewards
\* What an execution still has to do names rows of the table, and the rows it will
\* write are among those it read, which name what they name in the table; those a
\* distribution read were verified.
TodoStored ==
  \A e \in Executions :
    reward[e].pc # "idle" => reward[e].todo \subseteq DOMAIN contributions
TodoRead ==
  \A e \in Executions : reward[e].pc \in {"verify", "save", "mark"} =>
    \A i \in reward[e].todo :
      i \in DOMAIN reward[e].read /\ reward[e].read[i].details = contributions[i].details
MarksVerified ==
  \A e \in Executions : reward[e].pc = "mark" =>
    \A i \in reward[e].todo : reward[e].read[i].verified

DistributedVerified ==
  \A i \in DOMAIN contributions : contributions[i].distributed => contributions[i].verified

DetailsGiven ==
  \A e \in Executions : reward[e].pc \in {"check", "insert"} => reward[e].details \in Contributions

\* Until two submissions overlap one at most is under way, and what it has compared
\* with a row differs from it.
Underway(e) == reward[e].pc \notin {"idle", "end"}
OneAtATime == overlapped \/ \A e, f \in Submissions : Underway(e) /\ Underway(f) => e = f
Compared ==
  overlapped \/ \A e \in Submissions : reward[e].pc \in {"check", "insert"} =>
    \A i \in DOMAIN contributions :
      (reward[e].pc = "check" => i \notin reward[e].todo) =>
        contributions[i].details \cap reward[e].details = {}

RewardInv ==
  /\ contributions \in Seq(Contribution) /\ Len(contributions) <= MaxRows
  /\ verdicts \in [Rows -> BOOLEAN \cup {NoRow}]
  /\ reward \in [Executions -> RewardExecution]
  /\ TodoStored /\ TodoRead /\ MarksVerified /\ DetailsGiven /\ DistributedVerified
  /\ OneAtATime /\ Compared /\ NoDuplicate

LEMMA NothingRead == \A S : <<>> \in UNION {[ids -> S] : ids \in SUBSET Rows}
<1> TAKE S
<1>1. <<>> \in [{} -> S]
  OBVIOUS
<1> QED
  BY <1>1

LEMMA RowsReadType ==
  ASSUME RewardInv, NEW ids \in SUBSET DOMAIN contributions
  PROVE  /\ ids \in SUBSET Rows
         /\ RowsRead(ids) \in UNION {[k -> Contribution] : k \in SUBSET Rows}
         /\ DOMAIN RowsRead(ids) = ids
         /\ \A i \in ids : RowsRead(ids)[i] = contributions[i]
<1>1. ids \in SUBSET Rows
  BY RewardAssumption DEF Rows, RewardInv
<1>2. RowsRead(ids) \in [ids -> Contribution]
  BY DEF RowsRead, RewardInv
<1> QED
  BY <1>1, <1>2 DEF RowsRead

\* What an execution that goes on becomes, field by field.
Becomes(r, pc, details, todo) == r.pc = pc /\ r.details = details /\ r.todo = todo

LEMMA ExecutionTypes ==
  /\ NoExecution \in RewardExecution /\ Becomes(NoExecution, "idle", {}, {})
  /\ [NoExecution EXCEPT !.pc = "end"] \in RewardExecution
  /\ Becomes([NoExecution EXCEPT !.pc = "end"], "end", {}, {})
  /\ NoExecution.read = <<>>
  BY NothingRead DEF NoExecution, RewardExecution, Becomes

LEMMA NextExecution ==
  ASSUME NEW q \in RewardExecution
  PROVE  /\ \A pc \in {"insert", "save"} :
              /\ [q EXCEPT !.pc = pc] \in RewardExecution
              /\ Becomes([q EXCEPT !.pc = pc], pc, q.details, q.todo)
              /\ [q EXCEPT !.pc = pc].read = q.read
         /\ \A i : /\ [q EXCEPT !.todo = @ \ {i}] \in RewardExecution
                   /\ Becomes([q EXCEPT !.todo = @ \ {i}], q.pc, q.details, q.todo \ {i})
                   /\ [q EXCEPT !.todo = @ \ {i}].read = q.read
<1>1. q = [pc |-> q.pc, details |-> q.details, todo |-> q.todo, read |-> q.read]
  BY DEF RewardExecution
<1> QED
  BY <1>1 DEF Becomes, RewardExecution

\* A step of e replaces its local variables only.
LEMMA StepOfOne ==
  ASSUME RewardInv, NEW e \in Executions, NEW r \in RewardExecution, Step(e, r)
  PROVE  /\ reward' \in [Executions -> RewardExecution]
         /\ reward'[e] = r
         /\ \A f \in Executions : f # e => reward'[f] = reward[f]
BY DEF RewardInv, Step

LEMMA RewardInitInv == RewardInit => RewardInv
BY ExecutionTypes, RewardAssumption
DEF RewardInit, RewardInv, TodoStored, TodoRead, MarksVerified, DetailsGiven, DistributedVerified,
    OneAtATime, Compared, NoDuplicate, Underway, Executions, Becomes

\* A step of e that inserts no row keeps the invariant, if what e becomes agrees with
\* it and if every row goes on naming what it names.
RowsNameTheSame ==
  /\ contributions' \in Seq(Contribution) /\ Len(contributions') = Len(contributions)
  /\ \A i \in DOMAIN contributions : contributions'[i].details = contributions[i].details

LEMMA StepKeeps ==
  ASSUME RewardInv, NEW e \in Executions, NEW r \in RewardExecution, Step(e, r),
         RowsNameTheSame, DistributedVerified', UNCHANGED overlapped,
         verdicts' \in [Rows -> BOOLEAN \cup {NoRow}],
         r.pc # "idle" => r.todo \subseteq DOMAIN contributions,
         r.pc \in {"verify", "save", "mark"} =>
           \A i \in r.todo : i \in DOMAIN r.read /\ r.read[i].details = contributions[i].details,
         r.pc = "mark" => \A i \in r.todo : r.read[i].verified,
         r.pc \in {"check", "insert"} => r.details \in Contributions,
         e \in Submissions /\ r.pc \notin {"idle", "end"} => Underway(e),
         overlapped \/ (e \in Submissions /\ r.pc \in {"check", "insert"} =>
           \A i \in DOMAIN contributions : (r.pc = "check" => i \notin r.todo) =>
             contributions[i].details \cap r.details = {})
  PROVE  RewardInv'
<1>1. /\ reward' \in [Executions -> RewardExecution] /\ reward'[e] = r
      /\ \A f \in Executions : f # e => reward'[f] = reward[f]
  BY StepOfOne
<1>2. DOMAIN contributions' = DOMAIN contributions
  BY DEF RowsNameTheSame, RewardInv
<1>3. TodoStored'
  BY <1>1, <1>2 DEF RewardInv, TodoStored
<1>4. TodoRead'
  <2> SUFFICES ASSUME NEW f \in Executions, reward'[f].pc \in {"verify", "save", "mark"},
                      NEW i \in reward'[f].todo
               PROVE  /\ i \in DOMAIN reward'[f].read
                      /\ reward'[f].read[i].details = contributions'[i].details
    BY DEF TodoRead
  <2>1. i \in DOMAIN contributions
    BY <1>1, <1>2, <1>3 DEF TodoStored
  <2>2. /\ i \in DOMAIN reward'[f].read
        /\ reward'[f].read[i].details = contributions[i].details
    BY <1>1 DEF RewardInv, TodoRead
  <2> QED
    BY <2>1, <2>2 DEF RowsNameTheSame
<1>5. MarksVerified' /\ DetailsGiven'
  BY <1>1 DEF RewardInv, MarksVerified, DetailsGiven
<1>6. NoDuplicate'
  BY <1>2 DEF RewardInv, NoDuplicate, RowsNameTheSame
<1>7. OneAtATime'
  BY <1>1 DEF RewardInv, OneAtATime, Underway, Executions
<1>8. Compared'
  BY <1>1, <1>2 DEF RewardInv, Compared, RowsNameTheSame, Executions
<1> QED
  BY <1>1, <1>3, <1>4, <1>5, <1>6, <1>7, <1>8 DEF RewardInv, RowsNameTheSame

LEMMA QuietRows ==
  ASSUME RewardInv, UNCHANGED contributions
  PROVE  RowsNameTheSame /\ DistributedVerified'
BY DEF RewardInv, RowsNameTheSame, DistributedVerified

LEMMA EndKeeps ==
  ASSUME RewardInv, NEW e \in Executions, End(e), UNCHANGED overlapped,
         RowsNameTheSame, DistributedVerified', verdicts' \in [Rows -> BOOLEAN \cup {NoRow}]
  PROVE  RewardInv'
<1>1. PICK r : r = [NoExecution EXCEPT !.pc = "end"]
  OBVIOUS
<1>2. r \in RewardExecution /\ r.pc = "end" /\ r.todo = {} /\ Step(e, r)
  BY <1>1, ExecutionTypes DEF Becomes, End
<1> QED
  BY <1>2, StepKeeps

\* The row that a verification or a distribution writes back.
LEMMA OverwrittenRow ==
  ASSUME RewardInv, NEW i \in DOMAIN contributions, NEW c \in Contribution, c.verified,
         c.details = contributions[i].details,
         contributions' = [contributions EXCEPT ![i] = c]
  PROVE  RowsNameTheSame /\ DistributedVerified'
<1>1. /\ contributions' \in Seq(Contribution) /\ Len(contributions') = Len(contributions)
      /\ contributions'[i] = c
      /\ \A j \in DOMAIN contributions : j # i => contributions'[j] = contributions[j]
      /\ DOMAIN contributions' = DOMAIN contributions
  BY DEF RewardInv
<1> QED
  BY <1>1 DEF RewardInv, RowsNameTheSame, DistributedVerified

LEMMA ReadRow ==
  ASSUME RewardInv, NEW e \in Executions, reward[e].pc \in {"verify", "save", "mark"},
         NEW i \in reward[e].todo
  PROVE  /\ i \in DOMAIN contributions /\ reward[e].read[i] \in Contribution
         /\ reward[e].read[i].details = contributions[i].details
<1>1. reward[e] \in RewardExecution
  BY DEF RewardInv
<1>2. PICK ids \in SUBSET Rows : reward[e].read \in [ids -> Contribution]
  BY <1>1 DEF RewardExecution
<1> QED
  BY <1>2 DEF RewardInv, TodoStored, TodoRead

LEMMA WrittenRow ==
  ASSUME NEW c \in Contribution
  PROVE  /\ [c EXCEPT !.verified = TRUE] \in Contribution
         /\ [c EXCEPT !.verified = TRUE].verified
         /\ [c EXCEPT !.verified = TRUE].details = c.details
         /\ [c EXCEPT !.distributed = TRUE] \in Contribution
         /\ [c EXCEPT !.distributed = TRUE].verified = c.verified
         /\ [c EXCEPT !.distributed = TRUE].details = c.details
BY DEF Contribution

LEMMA RewardNextInv == RewardInv /\ [RewardNext]_rewardVars => RewardInv'
<1> SUFFICES ASSUME RewardInv, [RewardNext]_rewardVars PROVE RewardInv'
  OBVIOUS
<1>0. verdicts \in [Rows -> BOOLEAN \cup {NoRow}]
  BY DEF RewardInv
<1>1. CASE UNCHANGED rewardVars
  BY <1>1 DEF rewardVars, RewardInv, TodoStored, TodoRead, MarksVerified,
              DetailsGiven, DistributedVerified, OneAtATime, Compared, NoDuplicate, Underway
<1>2. CASE ForgetVerdict
  <2>1. verdicts' \in [Rows -> BOOLEAN \cup {NoRow}]
    BY <1>0, <1>2 DEF ForgetVerdict
  <2> QED
    BY <1>2, <2>1 DEF ForgetVerdict, RewardInv, TodoStored, TodoRead, MarksVerified,
              DetailsGiven, DistributedVerified, OneAtATime, Compared, NoDuplicate, Underway
<1> SUFFICES ASSUME NEW e \in Executions,
                    \/ ProcessContribution(e) \/ CheckDuplicate(e) \/ Validate(e)
                    \/ InsertContribution(e)
                    \/ VerifyContribution(e) \/ PerformVerification(e) \/ SaveVerified(e)
                    \/ DistributeRewards(e) \/ MarkDistributed(e)
                    \/ ExecutionFails(e)
             PROVE  RewardInv'
  BY <1>1, <1>2 DEF RewardNext
<1>3. reward[e] \in RewardExecution
  BY DEF RewardInv
<1>4. CASE ProcessContribution(e)
  <2>0. PICK d \in Contributions :
          Step(e, [NoExecution EXCEPT !.pc = "check", !.details = d, !.todo = DOMAIN contributions])
    BY <1>4 DEF ProcessContribution
  <2>1. PICK r :
          /\ r = [NoExecution EXCEPT !.pc = "check", !.details = d, !.todo = DOMAIN contributions]
          /\ Step(e, r)
    BY <2>0
  <2>2. DOMAIN contributions \in SUBSET Rows
    BY RowsReadType
  <2>3. r \in RewardExecution /\ Becomes(r, "check", d, DOMAIN contributions)
    BY <2>1, <2>2, NothingRead DEF NoExecution, RewardExecution, Becomes
  <2>4. /\ reward' \in [Executions -> RewardExecution] /\ reward'[e] = r
        /\ \A f \in Executions : f # e => reward'[f] = reward[f]
    BY <2>1, <2>3, StepOfOne
  <2>9. UNCHANGED contributions
    BY <1>4 DEF ProcessContribution
  <2>8. TodoStored'
    BY <2>3, <2>4, <2>9 DEF RewardInv, TodoStored, Becomes
  <2>10. TodoRead'
    BY <2>3, <2>4, <2>9 DEF RewardInv, TodoRead, Becomes
  <2>5. MarksVerified' /\ DetailsGiven' /\ DistributedVerified'
    BY <2>3, <2>4, <2>9 DEF RewardInv, MarksVerified, DetailsGiven, DistributedVerified, Becomes
  <2>6. OneAtATime'
    BY <1>4, <2>4 DEF ProcessContribution, OneAtATime, Underway, Executions
  <2>7. Compared' /\ NoDuplicate'
    BY <1>4, <2>3, <2>4 DEF ProcessContribution, RewardInv, Compared, NoDuplicate, Becomes,
                            Executions
  <2> QED
    BY <1>4, <2>4, <2>5, <2>6, <2>7, <2>8, <2>10 DEF ProcessContribution, RewardInv
<1>5. CASE CheckDuplicate(e)
  <2>1. PICK i \in reward[e].todo :
          IF AreActionDetailsEqual(contributions[i].details, reward[e].details)
            THEN End(e) ELSE Step(e, [reward[e] EXCEPT !.todo = @ \ {i}])
    BY <1>5 DEF CheckDuplicate
  <2>2. RowsNameTheSame /\ DistributedVerified' /\ verdicts' \in [Rows -> BOOLEAN \cup {NoRow}]
    BY <1>0, <1>5, QuietRows DEF CheckDuplicate
  <2>3. CASE End(e)
    BY <1>5, <2>2, <2>3, EndKeeps DEF CheckDuplicate
  <2>4. CASE ~ AreActionDetailsEqual(contributions[i].details, reward[e].details)
    <3>1. PICK r : r = [reward[e] EXCEPT !.todo = @ \ {i}]
      OBVIOUS
    <3>2. /\ r \in RewardExecution /\ Step(e, r)
          /\ Becomes(r, "check", reward[e].details, reward[e].todo \ {i})
      BY <1>3, <1>5, <2>1, <2>4, <3>1, NextExecution DEF CheckDuplicate
    <3>3. contributions[i].details \cap reward[e].details = {}
      BY <2>4 DEF AreActionDetailsEqual
    <3>4. r.todo \subseteq DOMAIN contributions /\ Underway(e)
      BY <1>5, <3>2 DEF RewardInv, TodoStored, Becomes, CheckDuplicate, Underway
    <3>5. overlapped \/ \A j \in DOMAIN contributions : j \notin r.todo =>
                          contributions[j].details \cap r.details = {}
      BY <1>5, <3>2, <3>3 DEF RewardInv, Compared, Becomes, CheckDuplicate
    <3> QED
      BY <1>5, <2>2, <3>2, <3>4, <3>5, StepKeeps DEF CheckDuplicate, Becomes, RewardInv, DetailsGiven
  <2> QED
    BY <2>1, <2>3, <2>4
<1>6. CASE Validate(e)
  <2>2. RowsNameTheSame /\ DistributedVerified' /\ verdicts' \in [Rows -> BOOLEAN \cup {NoRow}]
    BY <1>0, <1>6, QuietRows DEF Validate
  <2>3. CASE End(e)
    BY <1>6, <2>2, <2>3, EndKeeps DEF Validate
  <2>4. CASE Step(e, [reward[e] EXCEPT !.pc = "insert"])
    <3>1. PICK r : r = [reward[e] EXCEPT !.pc = "insert"]
      OBVIOUS
    <3>2. /\ r \in RewardExecution /\ Step(e, r)
          /\ Becomes(r, "insert", reward[e].details, reward[e].todo)
      BY <1>3, <2>4, <3>1, NextExecution
    <3>3. r.todo = {} /\ Underway(e) /\ r.details \in Contributions
      BY <1>6, <3>2 DEF Becomes, Validate, Underway, RewardInv, DetailsGiven
    <3>4. overlapped \/ \A j \in DOMAIN contributions :
                          contributions[j].details \cap r.details = {}
      BY <1>6, <3>2 DEF RewardInv, Compared, Becomes, Validate
    <3> QED
      BY <1>6, <2>2, <3>2, <3>3, <3>4, StepKeeps DEF Validate, Becomes
  <2> QED
    BY <1>6, <2>3, <2>4 DEF Validate
<1>7. CASE InsertContribution(e)
  <2>1. PICK r : r = [NoExecution EXCEPT !.pc = "end"]
    OBVIOUS
  <2>2. r \in RewardExecution /\ Becomes(r, "end", {}, {}) /\ Step(e, r)
    BY <1>7, <2>1, ExecutionTypes DEF InsertContribution, End
  <2>3. /\ reward' \in [Executions -> RewardExecution] /\ reward'[e] = r
        /\ \A f \in Executions : f # e => reward'[f] = reward[f]
    BY <2>2, StepOfOne
  <2>4. PICK c : c = [details |-> reward[e].details, verified |-> FALSE, distributed |-> FALSE]
    OBVIOUS
  <2>5. /\ reward[e].details \in Contributions
        /\ c \in Contribution /\ c.details = reward[e].details /\ ~c.distributed
    BY <1>7, <2>4 DEF Contribution, InsertContribution, RewardInv, DetailsGiven
  <2>6. /\ contributions' \in Seq(Contribution) /\ Len(contributions') = Len(contributions) + 1
        /\ contributions'[Len(contributions) + 1] = c
        /\ \A i \in DOMAIN contributions : contributions'[i] = contributions[i]
        /\ DOMAIN contributions' = DOMAIN contributions \cup {Len(contributions) + 1}
    BY <1>7, <2>4, <2>5 DEF InsertContribution, RewardInv
  <2>7. Len(contributions') <= MaxRows
    BY <1>7, <2>6, RewardAssumption DEF InsertContribution, RewardInv
  <2>8. TodoStored' /\ DetailsGiven'
    BY <2>2, <2>3, <2>6 DEF RewardInv, TodoStored, DetailsGiven, Becomes
  <2>9. TodoRead' /\ MarksVerified'
    <3> SUFFICES ASSUME NEW f \in Executions, reward'[f].pc \in {"verify", "save", "mark"},
                        NEW i \in reward'[f].todo
                 PROVE  /\ i \in DOMAIN reward'[f].read
                        /\ reward'[f].read[i].details = contributions'[i].details
                        /\ reward'[f].pc = "mark" => reward'[f].read[i].verified
      BY DEF TodoRead, MarksVerified
    <3>1. f # e /\ reward'[f] = reward[f]
      BY <2>2, <2>3 DEF Becomes
    <3>2. i \in DOMAIN contributions
      BY <3>1 DEF RewardInv, TodoStored
    <3> QED
      BY <2>6, <3>1, <3>2 DEF RewardInv, TodoRead, MarksVerified
  <2>10. DistributedVerified'
    BY <2>5, <2>6 DEF RewardInv, DistributedVerified
  <2>11. OneAtATime'
    BY <1>7, <2>2, <2>3 DEF InsertContribution, RewardInv, OneAtATime, Underway, Becomes, Executions
  <2>12. CASE overlapped
    BY <1>7, <2>3, <2>6, <2>7, <2>8, <2>9, <2>10, <2>11, <2>12
       DEF InsertContribution, RewardInv, Compared, NoDuplicate
  <2>13. CASE ~overlapped
    <3>1. \A f \in Submissions : reward'[f].pc \notin {"check", "insert"}
      BY <1>7, <2>2, <2>3, <2>13 DEF InsertContribution, RewardInv, OneAtATime, Underway, Becomes, Executions
    <3>2. Compared'
      BY <3>1 DEF Compared
    <3>3. \A i \in DOMAIN contributions : contributions[i].details \cap c.details = {}
      BY <1>7, <2>5, <2>13 DEF InsertContribution, RewardInv, Compared
    <3>4. NoDuplicate'
      BY <2>6, <2>13, <3>3 DEF RewardInv, NoDuplicate
    <3> QED
      BY <1>7, <2>3, <2>6, <2>7, <2>8, <2>9, <2>10, <2>11, <3>2, <3>4
         DEF InsertContribution, RewardInv
  <2> QED
    BY <2>12, <2>13
<1>8. CASE VerifyContribution(e)
  <2>1. PICK i \in DOMAIN contributions :
          IF contributions[i].verified THEN End(e)
          ELSE Step(e, [NoExecution EXCEPT !.pc = "verify", !.todo = {i}, !.read = RowsRead({i})])
    BY <1>8 DEF VerifyContribution
  <2>2. RowsNameTheSame /\ DistributedVerified' /\ verdicts' \in [Rows -> BOOLEAN \cup {NoRow}]
    BY <1>0, <1>8, QuietRows DEF VerifyContribution
  <2>3. CASE End(e)
    BY <1>8, <2>2, <2>3, EndKeeps DEF VerifyContribution
  <2>4. CASE ~contributions[i].verified
    <3>1. PICK r : r = [NoExecution EXCEPT !.pc = "verify", !.todo = {i}, !.read = RowsRead({i})]
      OBVIOUS
    <3>4. /\ {i} \in SUBSET Rows /\ DOMAIN RowsRead({i}) = {i}
          /\ RowsRead({i}) \in UNION {[k -> Contribution] : k \in SUBSET Rows}
          /\ RowsRead({i})[i] = contributions[i]
      <4>1. {i} \in SUBSET DOMAIN contributions
        OBVIOUS
      <4> QED
        BY <4>1, RowsReadType
    <3>2. r \in RewardExecution /\ Becomes(r, "verify", {}, {i}) /\ r.read = RowsRead({i})
      BY <3>1, <3>4 DEF NoExecution, RewardExecution, Becomes
    <3>3. Step(e, r) /\ e \notin Submissions
      BY <1>8, <2>1, <2>4, <3>1, RewardAssumption DEF VerifyContribution
    <3> QED
      BY <1>8, <2>2, <3>2, <3>3, <3>4, StepKeeps DEF Becomes, VerifyContribution
  <2> QED
    BY <2>1, <2>3, <2>4
<1>9. CASE PerformVerification(e)
  <2>1. PICK i \in reward[e].todo :
        \E valid \in (IF verdicts[i] = NoRow THEN BOOLEAN ELSE {verdicts[i]}) :
          /\ verdicts' = [verdicts EXCEPT ![i] = valid]
          /\ IF valid THEN Step(e, [reward[e] EXCEPT !.pc = "save"]) ELSE End(e)
    BY <1>9 DEF PerformVerification
  <2>2. i \in Rows
    BY <1>3 DEF RewardExecution
  <2>3. verdicts' \in [Rows -> BOOLEAN \cup {NoRow}]
    BY <1>0, <2>1, <2>2
  <2>7. End(e) \/ Step(e, [reward[e] EXCEPT !.pc = "save"])
    BY <2>1
  <2>4. RowsNameTheSame /\ DistributedVerified'
    BY <1>9, QuietRows DEF PerformVerification
  <2>5. CASE End(e)
    BY <1>9, <2>3, <2>4, <2>5, EndKeeps DEF PerformVerification
  <2>6. CASE Step(e, [reward[e] EXCEPT !.pc = "save"])
    <3>1. PICK r : r = [reward[e] EXCEPT !.pc = "save"]
      OBVIOUS
    <3>2. /\ r \in RewardExecution /\ Step(e, r) /\ r.read = reward[e].read
          /\ Becomes(r, "save", reward[e].details, reward[e].todo)
      BY <1>3, <2>6, <3>1, NextExecution
    <3>3. r.todo \subseteq DOMAIN contributions /\ e \notin Submissions
      BY <1>9, <3>2, RewardAssumption DEF RewardInv, TodoStored, Becomes, PerformVerification
    <3>4. \A j \in r.todo : j \in DOMAIN r.read /\ r.read[j].details = contributions[j].details
      BY <1>9, <3>2 DEF RewardInv, TodoRead, Becomes, PerformVerification
    <3> QED
      BY <1>9, <2>3, <2>4, <3>2, <3>3, <3>4, StepKeeps DEF PerformVerification, Becomes
  <2> QED
    BY <2>5, <2>6, <2>7
<1>10. CASE SaveVerified(e)
  <2>1. PICK i \in reward[e].todo :
          contributions' = [contributions EXCEPT ![i] = [reward[e].read[i] EXCEPT !.verified = TRUE]]
    BY <1>10 DEF SaveVerified
  <2>3. PICK q, c : q = reward[e].read[i] /\ c = [q EXCEPT !.verified = TRUE]
    OBVIOUS
  <2>4. /\ i \in DOMAIN contributions /\ q \in Contribution
        /\ q.details = contributions[i].details
    BY <1>10, <2>3, ReadRow DEF SaveVerified
  <2>5. c \in Contribution /\ c.verified /\ c.details = contributions[i].details
    BY <2>3, <2>4, WrittenRow
  <2>2. RowsNameTheSame /\ DistributedVerified'
    BY <2>1, <2>3, <2>4, <2>5, OverwrittenRow
  <2> QED
    BY <1>0, <1>10, <2>2, EndKeeps DEF SaveVerified
<1>11. CASE DistributeRewards(e)
  <2>1. RowsNameTheSame /\ DistributedVerified' /\ verdicts' \in [Rows -> BOOLEAN \cup {NoRow}]
    BY <1>0, <1>11, QuietRows DEF DistributeRewards
  <2>2. CASE End(e)
    BY <1>11, <2>1, <2>2, EndKeeps DEF DistributeRewards
  <2>3. PICK ids : ids = FindVerifiedUndistributed
    OBVIOUS
  <2>4. CASE Step(e, [NoExecution EXCEPT !.pc = "mark", !.todo = ids, !.read = RowsRead(ids)])
    <3>1. PICK r : r = [NoExecution EXCEPT !.pc = "mark", !.todo = ids, !.read = RowsRead(ids)]
      OBVIOUS
    <3>2. ids \subseteq DOMAIN contributions /\ \A i \in ids : contributions[i].verified
      BY <2>3 DEF FindVerifiedUndistributed
    <3>3. r \in RewardExecution /\ Becomes(r, "mark", {}, ids) /\ r.read = RowsRead(ids)
      BY <3>1, <3>2, RowsReadType DEF NoExecution, RewardExecution, Becomes
    <3>4. Step(e, r) /\ e \notin Submissions
      BY <1>11, <2>4, <3>1, RewardAssumption DEF DistributeRewards
    <3> QED
      BY <1>11, <2>1, <3>2, <3>3, <3>4, RowsReadType, StepKeeps DEF Becomes, DistributeRewards
  <2> QED
    BY <1>11, <2>2, <2>3, <2>4 DEF DistributeRewards
<1>12. CASE MarkDistributed(e)
  <2>1. PICK i \in reward[e].todo :
          /\ \/ contributions' = [contributions EXCEPT ![i] =
                                    [reward[e].read[i] EXCEPT !.distributed = TRUE]]
             \/ UNCHANGED contributions
          /\ IF reward[e].todo = {i} THEN End(e)
                                     ELSE Step(e, [reward[e] EXCEPT !.todo = @ \ {i}])
    BY <1>12 DEF MarkDistributed
  <2>2. reward[e].read[i].verified
    BY <1>12 DEF RewardInv, MarksVerified, MarkDistributed
  <2>3. RowsNameTheSame /\ DistributedVerified'
    <3>1. CASE UNCHANGED contributions
      BY <3>1, QuietRows
    <3>2. PICK q, c : q = reward[e].read[i] /\ c = [q EXCEPT !.distributed = TRUE]
      OBVIOUS
    <3>3. /\ i \in DOMAIN contributions /\ q \in Contribution
          /\ q.details = contributions[i].details
      BY <1>12, <3>2, ReadRow DEF MarkDistributed
    <3>4. c \in Contribution /\ c.verified /\ c.details = contributions[i].details
      BY <2>2, <3>2, <3>3, WrittenRow
    <3>5. CASE contributions' = [contributions EXCEPT ![i] = c]
      BY <3>3, <3>4, <3>5, OverwrittenRow
    <3> QED
      BY <2>1, <3>1, <3>2, <3>5
  <2>4. CASE End(e)
    BY <1>0, <1>12, <2>3, <2>4, EndKeeps DEF MarkDistributed
  <2>5. CASE Step(e, [reward[e] EXCEPT !.todo = @ \ {i}])
    <3>1. PICK r : r = [reward[e] EXCEPT !.todo = @ \ {i}]
      OBVIOUS
    <3>2. /\ r \in RewardExecution /\ Step(e, r) /\ r.read = reward[e].read
          /\ Becomes(r, "mark", reward[e].details, reward[e].todo \ {i})
      BY <1>3, <1>12, <2>5, <3>1, NextExecution DEF MarkDistributed
    <3>3. r.todo \subseteq DOMAIN contributions /\ e \notin Submissions
      BY <1>12, <3>2, RewardAssumption DEF RewardInv, TodoStored, Becomes, MarkDistributed
    <3>4. \A j \in r.todo : /\ j \in DOMAIN r.read /\ r.read[j].details = contributions[j].details
                            /\ r.read[j].verified
      BY <1>12, <3>2 DEF RewardInv, TodoRead, MarksVerified, Becomes, MarkDistributed
    <3> QED
      BY <1>0, <1>12, <2>3, <3>2, <3>3, <3>4, StepKeeps DEF MarkDistributed, Becomes
  <2> QED
    BY <2>1, <2>4, <2>5
<1>13. CASE ExecutionFails(e)
  BY <1>0, <1>13, QuietRows, EndKeeps DEF ExecutionFails
<1> QED
  BY <1>4, <1>5, <1>6, <1>7, <1>8, <1>9, <1>10, <1>11, <1>12, <1>13

\* What a step writes into the table: a new row, or one row that stays verified.
LEMMA RewardStepVerified ==
  RewardInv /\ RewardNext =>
    \A i \in DOMAIN contributions :
      /\ contributions[i].verified => contributions'[i].verified
      /\ contributions'[i].distributed => contributions'[i].verified
<1> SUFFICES ASSUME RewardInv, RewardNext, NEW i \in DOMAIN contributions
             PROVE  /\ contributions[i].verified => contributions'[i].verified
                    /\ contributions'[i].distributed => contributions'[i].verified
  OBVIOUS
<1>1. contributions[i].distributed => contributions[i].verified
  BY DEF RewardInv, DistributedVerified
<1>2. CASE contributions'[i] = contributions[i]
  BY <1>1, <1>2
<1>3. CASE \E e \in Executions : InsertContribution(e)
  BY <1>2, <1>3 DEF InsertContribution, RewardInv
<1>4. CASE \E e \in Executions : SaveVerified(e)
  <2>0. PICK e \in Executions : SaveVerified(e)
    BY <1>4
  <2>1. PICK j \in reward[e].todo :
          contributions' = [contributions EXCEPT ![j] = [reward[e].read[j] EXCEPT !.verified = TRUE]]
    BY <2>0 DEF SaveVerified
  <2>2. reward[e].read[j] \in Contribution
    BY <2>0, ReadRow DEF SaveVerified
  <2>3. [reward[e].read[j] EXCEPT !.verified = TRUE].verified
    BY <2>2, WrittenRow
  <2> QED
    BY <1>2, <2>1, <2>3 DEF RewardInv
<1>5. CASE \E e \in Executions : MarkDistributed(e)
  <2>0. PICK e \in Executions : MarkDistributed(e)
    BY <1>5
  <2>1. PICK j \in reward[e].todo :
          \/ contributions' = [contributions EXCEPT ![j] =
                                 [reward[e].read[j] EXCEPT !.distributed = TRUE]]
          \/ UNCHANGED contributions
    BY <2>0 DEF MarkDistributed
  <2>2. reward[e].read[j] \in Contribution /\ reward[e].read[j].verified
    BY <2>0, ReadRow DEF MarkDistributed, RewardInv, MarksVerified
  <2>3. [reward[e].read[j] EXCEPT !.distributed = TRUE].verified
    BY <2>2, WrittenRow
  <2> QED
    BY <1>2, <2>1, <2>3 DEF RewardInv
<1>6. CASE UNCHANGED contributions
  BY <1>2, <1>6
<1> QED
  BY <1>3, <1>4, <1>5, <1>6 DEF RewardNext, ForgetVerdict, ProcessContribution, CheckDuplicate,
     Validate, VerifyContribution, PerformVerification, DistributeRewards, ExecutionFails

LEMMA RewardInvTypes == RewardInv => RewardTypeOK
BY DEF RewardInv, RewardTypeOK

\* Unless two submissions of a wallet overlapped, no two of its contributions name the
\* same operation, contract, transaction or pull request, for any number of executions.
THEOREM ContributionsDistinct == RewardSpec => []NoDuplicate
<1>1. RewardInv => NoDuplicate
  BY DEF RewardInv
<1> QED
  BY RewardInitInv, RewardNextInv, <1>1, PTL DEF RewardSpec

\* The whole rows that verifications and distributions write back, however stale they
\* are, never take a verification away and never mark an unverified row as distributed.
THEOREM VerificationsStay == RewardSpec => VerifiedStays
<1>1. RewardInv /\ [RewardNext]_rewardVars =>
        [\A i \in DOMAIN contributions :
           /\ contributions[i].verified => contributions'[i].verified
           /\ contributions'[i].distributed => contributions'[i].verified]_rewardVars
  BY RewardStepVerified
<1> QED
  BY RewardInitInv, RewardNextInv, <1>1, PTL DEF RewardSpec, VerifiedStays

\* ---------------------------------------------------------- outbound webhooks
\* A request under way names a subscription; an update also the URL of its row.
HooksReady ==
  \A h \in Hooks :
    hook[h].pc \in {"svix", "row"} =>
      /\ hook[h].id \in Creations
      /\ h \in Creations => hook[h].id = h
      /\ h \in Creations \cup Updates => hook[h].url \in Urls

\* While it is created a subscription has no row, and at first no endpoint either.
CreationsFirst ==
  \A h \in Creations :
    /\ hook[h].pc \in {"idle", "svix"} => endpoint[h] = None
    /\ hook[h].pc = "row" => endpoint[h] # None
    /\ hook[h].pc \in {"idle", "svix", "row"} => subscription[h] = None

\* Other requests name subscriptions whose creation has ended, and a deletion that has
\* come to the row has removed the endpoint.
OthersLater ==
  \A h \in Hooks \ Creations :
    hook[h].pc \in {"svix", "row"} =>
      /\ hook[hook[h].id].pc = "end"
      /\ h \in Deletions /\ hook[h].pc = "row" => endpoint[hook[h].id] = None

HookInv == HookTypeOK /\ HooksReady /\ CreationsFirst /\ OthersLater /\ EndpointsMatchRows

USE HookAssumption DEF Hooks

LEMMA HookInitInv == HookInit => HookInv
BY DEF HookInit, HookInv, HookTypeOK, HooksReady, CreationsFirst, OthersLater,
       EndpointsMatchRows, HookRequest, NoHook

\* A step of request h replaces its local variables by r.
Moved(h, r) == hook' = [hook EXCEPT ![h] = r]

\* What a step of h does to the rest of the invariant is decided by r and by what
\* becomes of the endpoint and the row of one subscription.
LEMMA MoveType ==
  ASSUME HookTypeOK, NEW h \in Hooks, NEW r \in HookRequest, Moved(h, r)
  PROVE  /\ hook' \in [Hooks -> HookRequest]
         /\ hook'[h] = r
         /\ \A g \in Hooks : g # h => hook'[g] = hook[g]
BY DEF HookTypeOK, Moved

LEMMA EndRequest ==
  /\ [NoHook EXCEPT !.pc = "end"] \in HookRequest
  /\ \A q \in HookRequest : [q EXCEPT !.pc = "row"] \in HookRequest
BY DEF HookRequest, NoHook

LEMMA ProceedMoves ==
  ASSUME HookTypeOK, NEW h \in Hooks, NEW pc \in {"row", "end"}, Proceed(h, pc)
  PROVE  \E r \in HookRequest :
           /\ Moved(h, r) /\ r.pc = pc
           /\ pc = "row" => r.id = hook[h].id /\ r.url = hook[h].url
<1>1. CASE pc = "row"
  <2> DEFINE r == [hook[h] EXCEPT !.pc = "row"]
  <2>1. hook[h] \in HookRequest
    BY DEF HookTypeOK
  <2>2. r \in HookRequest /\ r.pc = "row" /\ r.id = hook[h].id /\ r.url = hook[h].url
    BY <2>1, EndRequest DEF HookRequest
  <2>3. Moved(h, r)
    BY <1>1, <2>1 DEF Proceed, Moved
  <2> QED
    BY <1>1, <2>2, <2>3
<1>2. CASE pc = "end"
  <2> DEFINE r == [NoHook EXCEPT !.pc = "end"]
  <2>1. r \in HookRequest /\ r.pc = "end"
    BY EndRequest DEF NoHook
  <2>2. Moved(h, r)
    BY <1>2 DEF Proceed, Moved
  <2> QED
    BY <1>2, <2>1, <2>2
<1> QED
  BY <1>1, <1>2

LEMMA HookStepInv == HookInv /\ [HookNext]_hookVars => HookInv'
<1> SUFFICES ASSUME HookInv, [HookNext]_hookVars PROVE HookInv'
  OBVIOUS
<1> USE DEF HookInv
<1> DEFINE Known(h, r) ==
      /\ h \in Hooks /\ r \in HookRequest /\ Moved(h, r)
      /\ hook'[h] = r /\ \A g \in Hooks : g # h => hook'[g] = hook[g]
\* A request begins: it has read that the subscription is stored, or creates one.
<1>1. ASSUME NEW h \in Hooks, NEW r \in HookRequest, BeginHook(h, r),
             r.pc \in {"svix", "row"}, r.id \in Creations,
             h \in Creations => r.pc = "svix" /\ r.id = h /\ r.url \in Urls,
             h \in Updates => r.url \in Urls,
             h \in Deletions => r.pc = "svix",
             h \notin Creations => subscription[r.id] # None
      PROVE  HookInv'
  <2>1. Moved(h, r) /\ hook[h].pc = "idle" /\ UNCHANGED <<endpoint, subscription, broken>>
    BY <1>1 DEF BeginHook, Moved
  <2>2. Known(h, r)
    BY <1>1, <2>1, MoveType
  <2>3. h \notin Creations => hook[r.id].pc = "end"
    BY <1>1 DEF CreationsFirst, HookTypeOK, HookRequest
  <2>4. HookTypeOK'
    BY <2>1, <1>1, MoveType DEF HookTypeOK
  <2>5. HooksReady'
    BY <1>1, <2>2 DEF HooksReady
  <2>6. CreationsFirst'
    BY <1>1, <2>1, <2>2 DEF CreationsFirst
  <2>7. OthersLater'
    BY <1>1, <2>1, <2>2, <2>3 DEF OthersLater, HooksReady
  <2>8. EndpointsMatchRows'
    BY <1>1, <2>1, <2>2 DEF EndpointsMatchRows, Between
  <2> QED
    BY <2>4, <2>5, <2>6, <2>7, <2>8
\* A request goes on: its new pc, and what it changes, are one of the cases below.
<1>2. ASSUME NEW h \in Hooks, NEW pc \in {"row", "end"}, Proceed(h, pc),
             hook[h].pc \in {"svix", "row"},
             pc = "row" => hook[h].pc = "svix",
             HookTypeOK',
             \* endpoints and rows of other subscriptions stay
             \A id \in Creations : id # hook[h].id =>
                /\ endpoint'[id] = endpoint[id] /\ subscription'[id] = subscription[id],
             broken \subseteq broken',
             h \in Creations => (pc = "row" => endpoint'[h] # None /\ subscription'[h] = None),
             h \in Deletions => (pc = "row" => endpoint'[hook[h].id] = None),
             h \notin Creations =>
                (endpoint[hook[h].id] = None => endpoint'[hook[h].id] = None),
             \/ (endpoint'[hook[h].id] = None <=> subscription'[hook[h].id] = None)
             \/ pc = "row" /\ h \notin Updates
             \/ hook[h].id \in broken'
             \/ /\ endpoint'[hook[h].id] = None <=> endpoint[hook[h].id] = None
                /\ subscription'[hook[h].id] = None <=> subscription[hook[h].id] = None
                /\ hook[h].pc = "svix" \/ h \in Updates
      PROVE  HookInv'
  <2>1. PICK r \in HookRequest :
          /\ Moved(h, r) /\ r.pc = pc
          /\ pc = "row" => r.id = hook[h].id /\ r.url = hook[h].url
    BY <1>2, ProceedMoves
  <2>2. Known(h, r)
    BY <2>1, MoveType
  <2>3. hook[h].id \in Creations /\ (h \in Creations => hook[h].id = h)
    BY <1>2 DEF HooksReady
  <2>4. HooksReady'
    BY <1>2, <2>1, <2>2, <2>3 DEF HooksReady
  <2>5. CreationsFirst'
    <3> SUFFICES ASSUME NEW c \in Creations
                 PROVE  /\ hook'[c].pc \in {"idle", "svix"} => endpoint'[c] = None
                        /\ hook'[c].pc = "row" => endpoint'[c] # None
                        /\ hook'[c].pc \in {"idle", "svix", "row"} => subscription'[c] = None
      BY DEF CreationsFirst
    <3>1. CASE c = h
      BY <1>2, <2>1, <2>2, <2>3, <3>1
    <3>2. CASE c # h /\ c = hook[h].id
      <4>1. h \notin Creations /\ hook[c].pc = "end"
        BY <1>2, <2>3, <3>2 DEF OthersLater
      <4> QED
        BY <2>2, <3>2, <4>1
    <3>3. CASE c # h /\ c # hook[h].id
      BY <1>2, <2>2, <3>3 DEF CreationsFirst
    <3> QED
      BY <3>1, <3>2, <3>3
  <2>6. OthersLater'
    <3> SUFFICES ASSUME NEW g \in Hooks \ Creations, hook'[g].pc \in {"svix", "row"}
                 PROVE  /\ hook'[hook'[g].id].pc = "end"
                        /\ g \in Deletions /\ hook'[g].pc = "row" => endpoint'[hook'[g].id] = None
      BY DEF OthersLater
    <3>1. /\ hook'[g].id = hook[g].id /\ hook[g].pc \in {"svix", "row"}
          /\ hook[g].id \in Creations
      BY <1>2, <2>1, <2>2 DEF HooksReady
    <3>2. hook[hook[g].id].pc = "end"
      BY <3>1 DEF OthersLater
    <3>3. hook[g].id # h
      BY <1>2, <3>2
    <3>4. ASSUME g \in Deletions, hook'[g].pc = "row" PROVE endpoint'[hook[g].id] = None
      <4>1. CASE g = h
        BY <1>2, <2>1, <2>2, <3>4, <4>1
      <4>2. CASE g # h
        <5>1. endpoint[hook[g].id] = None
          BY <2>2, <3>4, <4>2, <3>1 DEF OthersLater
        <5>2. h \in Creations => hook[h].id # hook[g].id
          BY <2>3, <3>3
        <5> QED
          BY <1>2, <5>1, <5>2, <3>1
      <4> QED
        BY <4>1, <4>2
    <3> QED
      BY <2>2, <3>1, <3>2, <3>3, <3>4
  <2>7. EndpointsMatchRows'
    <3> SUFFICES ASSUME NEW id \in Creations
                 PROVE  \/ endpoint'[id] = None <=> subscription'[id] = None
                        \/ \E g \in Hooks \ Updates : hook'[g].pc = "row" /\ hook'[g].id = id
                        \/ id \in broken'
      BY DEF EndpointsMatchRows, Between
    <3>1. \/ endpoint[id] = None <=> subscription[id] = None
          \/ \E g \in Hooks \ Updates : hook[g].pc = "row" /\ hook[g].id = id
          \/ id \in broken
      BY DEF EndpointsMatchRows, Between
    <3>2. CASE id # hook[h].id
      BY <1>2, <2>2, <3>1, <3>2
    <3>3. CASE id = hook[h].id /\ pc = "row" /\ h \notin Updates
      BY <2>1, <2>2, <3>3
    <3>4. CASE id = hook[h].id /\ ~(pc = "row" /\ h \notin Updates)
      BY <1>2, <2>2, <3>1, <3>4
    <3> QED
      BY <3>2, <3>3, <3>4
  <2> QED
    BY <1>2, <2>4, <2>5, <2>6, <2>7
<1>3. ASSUME NEW h \in Hooks, CreateSubscription(h) PROVE HookInv'
  <2>1. PICK u \in Urls : BeginHook(h, [NoHook EXCEPT !.pc = "svix", !.id = h, !.url = u])
    BY <1>3 DEF CreateSubscription
  <2> DEFINE r == [NoHook EXCEPT !.pc = "svix", !.id = h, !.url = u]
  <2>2. h \in Creations
    BY <1>3 DEF CreateSubscription
  <2>3. r \in HookRequest /\ r.pc = "svix" /\ r.id = h /\ r.url = u
    BY <2>2 DEF HookRequest, NoHook
  <2> QED
    BY <1>1, <2>1, <2>2, <2>3
<1>4. ASSUME NEW h \in Hooks, DeleteSubscription(h) PROVE HookInv'
  <2>1. PICK id \in Stored : BeginHook(h, [NoHook EXCEPT !.pc = "svix", !.id = id])
    BY <1>4 DEF DeleteSubscription
  <2> DEFINE r == [NoHook EXCEPT !.pc = "svix", !.id = id]
  <2>2. h \in Deletions /\ id \in Creations /\ subscription[id] # None
    BY <1>4 DEF DeleteSubscription, Stored
  <2>3. r \in HookRequest /\ r.pc = "svix" /\ r.id = id
    BY <2>2 DEF HookRequest, NoHook
  <2> QED
    BY <1>1, <2>1, <2>2, <2>3
<1>5. ASSUME NEW h \in Hooks, UpdateSubscription(h) PROVE HookInv'
  <2>1. PICK id \in Stored, f \in SUBSET Fields, u \in Urls :
          BeginHook(h, [pc |-> IF f \subseteq {"status"} THEN "row" ELSE "svix", id |-> id,
                        url |-> subscription[id], fields |-> f,
                        newUrl |-> IF "url" \in f THEN u ELSE None])
    BY <1>5 DEF UpdateSubscription
  <2> DEFINE r == [pc |-> IF f \subseteq {"status"} THEN "row" ELSE "svix", id |-> id,
                   url |-> subscription[id], fields |-> f,
                   newUrl |-> IF "url" \in f THEN u ELSE None]
  <2>2. h \in Updates /\ id \in Creations /\ subscription[id] # None /\ subscription[id] \in Urls
    BY <1>5 DEF UpdateSubscription, Stored, HookTypeOK
  <2>3. r \in HookRequest /\ r.pc \in {"svix", "row"} /\ r.id = id /\ r.url \in Urls
    BY <2>2 DEF HookRequest
  <2> QED
    BY <1>1, <2>1, <2>2, <2>3
<1>6. ASSUME NEW h \in Hooks, CreateEndpoint(h) PROVE HookInv'
  <2>1. /\ h \in Creations /\ hook[h].pc = "svix" /\ Proceed(h, "row")
        /\ endpoint' = [endpoint EXCEPT ![h] = hook[h].url]
        /\ UNCHANGED <<subscription, broken>>
    BY <1>6 DEF CreateEndpoint
  <2>2. hook[h].id = h /\ hook[h].url \in Urls /\ subscription[h] = None
    BY <2>1 DEF HooksReady, CreationsFirst
  <2>3. HookTypeOK'
    BY <2>1, <2>2, ProceedMoves, MoveType DEF HookTypeOK
  <2>4. endpoint'[h] # None /\ \A id \in Creations : id # h => endpoint'[id] = endpoint[id]
    BY <2>1, <2>2 DEF HookTypeOK
  <2> QED
    BY <1>2, <2>1, <2>2, <2>3, <2>4
<1>7. ASSUME NEW h \in Hooks, InsertSubscription(h) PROVE HookInv'
  <2>1. /\ h \in Creations /\ hook[h].pc = "row" /\ Proceed(h, "end")
        /\ subscription' = [subscription EXCEPT ![h] = hook[h].url]
        /\ UNCHANGED <<endpoint, broken>>
    BY <1>7 DEF InsertSubscription
  <2>2. hook[h].id = h /\ hook[h].url \in Urls /\ endpoint[h] # None
    BY <2>1 DEF HooksReady, CreationsFirst
  <2>3. HookTypeOK'
    BY <2>1, <2>2, ProceedMoves, MoveType DEF HookTypeOK
  <2>4. subscription'[h] # None /\ \A id \in Creations : id # h => subscription'[id] = subscription[id]
    BY <2>1, <2>2 DEF HookTypeOK
  <2> QED
    BY <1>2, <2>1, <2>2, <2>3, <2>4
<1>8. ASSUME NEW h \in Hooks, DeleteEndpoint(h) PROVE HookInv'
  <2> DEFINE pc == IF endpoint[hook[h].id] = None THEN "end" ELSE "row"
  <2>1. /\ h \in Deletions /\ hook[h].pc = "svix" /\ Proceed(h, pc)
        /\ endpoint' = [endpoint EXCEPT ![hook[h].id] = None]
        /\ UNCHANGED <<subscription, broken>>
    BY <1>8 DEF DeleteEndpoint
  <2>2. hook[h].id \in Creations
    BY <2>1 DEF HooksReady
  <2>3. HookTypeOK'
    BY <2>1, <2>2, ProceedMoves, MoveType DEF HookTypeOK
  <2>4. /\ endpoint'[hook[h].id] = None
        /\ \A id \in Creations : id # hook[h].id => endpoint'[id] = endpoint[id]
    BY <2>1, <2>2 DEF HookTypeOK
  <2>5. pc \in {"row", "end"} /\ h \notin Creations /\ h \notin Updates
    BY <2>1
  <2> QED
    BY <1>2, <2>1, <2>2, <2>3, <2>4, <2>5
<1>9. ASSUME NEW h \in Hooks, DeleteRow(h) PROVE HookInv'
  <2>1. /\ h \in Deletions /\ hook[h].pc = "row" /\ Proceed(h, "end")
        /\ subscription' = [subscription EXCEPT ![hook[h].id] = None]
        /\ UNCHANGED <<endpoint, broken>>
    BY <1>9 DEF DeleteRow
  <2>2. hook[h].id \in Creations /\ endpoint[hook[h].id] = None /\ h \notin Creations
    BY <2>1 DEF HooksReady, OthersLater
  <2>3. HookTypeOK'
    BY <2>1, <2>2, ProceedMoves, MoveType DEF HookTypeOK
  <2>4. /\ subscription'[hook[h].id] = None
        /\ \A id \in Creations : id # hook[h].id => subscription'[id] = subscription[id]
    BY <2>1, <2>2 DEF HookTypeOK
  <2> QED
    BY <1>2, <2>1, <2>2, <2>3, <2>4
<1>10. ASSUME NEW h \in Hooks, UpdateEndpoint(h) PROVE HookInv'
  <2>1. h \in Updates /\ hook[h].pc = "svix" /\ UNCHANGED <<subscription, broken>>
    BY <1>10 DEF UpdateEndpoint
  <2>2. hook[h].id \in Creations /\ hook[h].url \in Urls /\ h \notin Creations /\ h \notin Deletions
    BY <2>1 DEF HooksReady
  <2> DEFINE id == hook[h].id
             url == IF hook[h].newUrl # None THEN hook[h].newUrl ELSE hook[h].url
  <2>3. url \in Urls
    BY <2>2 DEF HookTypeOK, HookRequest
  <2>4. CASE endpoint[id] = None
    <3>1. Proceed(h, "end") /\ endpoint' = endpoint
      BY <1>10, <2>4 DEF UpdateEndpoint
    <3>2. HookTypeOK'
      BY <2>1, <3>1, ProceedMoves, MoveType DEF HookTypeOK
    <3> QED
      BY <1>2, <2>1, <2>2, <3>1, <3>2
  <2>5. CASE endpoint[id] # None
    <3> DEFINE pc == IF "url" \in hook[h].fields THEN "end" ELSE "row"
    <3>1. Proceed(h, pc) /\ endpoint' = [endpoint EXCEPT ![id] = url] /\ pc \in {"row", "end"}
      BY <1>10, <2>5 DEF UpdateEndpoint
    <3>2. HookTypeOK'
      BY <2>1, <2>2, <2>3, <3>1, ProceedMoves, MoveType DEF HookTypeOK
    <3>3. endpoint'[id] # None /\ \A i \in Creations : i # id => endpoint'[i] = endpoint[i]
      BY <2>2, <2>3, <3>1 DEF HookTypeOK
    <3> HIDE DEF pc
    <3> QED
      BY <1>2, <2>1, <2>2, <2>5, <3>1, <3>2, <3>3
  <2> QED
    BY <2>4, <2>5
<1>11. ASSUME NEW h \in Hooks, WriteSubscription(h) PROVE HookInv'
  <2>1. /\ h \in Updates /\ hook[h].pc = "row" /\ Proceed(h, "end")
        /\ subscription' = [subscription EXCEPT ![hook[h].id] =
                              IF @ = None THEN None ELSE hook[h].url]
        /\ UNCHANGED <<endpoint, broken>>
    BY <1>11 DEF WriteSubscription
  <2>2. hook[h].id \in Creations /\ hook[h].url \in Urls /\ h \notin Creations /\ h \notin Deletions
    BY <2>1 DEF HooksReady
  <2>3. HookTypeOK'
    BY <2>1, <2>2, ProceedMoves, MoveType DEF HookTypeOK
  <2>4. /\ subscription'[hook[h].id] = None <=> subscription[hook[h].id] = None
        /\ \A id \in Creations : id # hook[h].id => subscription'[id] = subscription[id]
    BY <2>1, <2>2 DEF HookTypeOK
  <2> QED
    BY <1>2, <2>1, <2>2, <2>3, <2>4
<1>12. ASSUME NEW h \in Hooks, CallFails(h) PROVE HookInv'
  <2>1. /\ hook[h].pc \in {"svix", "row"} /\ Proceed(h, "end")
        /\ broken' = IF hook[h].pc = "row" /\ h \notin Updates
                       THEN broken \cup {hook[h].id} ELSE broken
        /\ UNCHANGED <<endpoint, subscription>>
    BY <1>12 DEF CallFails
  <2>2. hook[h].id \in Creations
    BY <2>1 DEF HooksReady
  <2>3. HookTypeOK'
    BY <2>1, <2>2, ProceedMoves, MoveType DEF HookTypeOK
  <2>4. broken \subseteq broken' /\ (hook[h].pc = "row" /\ h \notin Updates => hook[h].id \in broken')
    BY <2>1
  <2> QED
    BY <1>2, <2>1, <2>2, <2>3, <2>4
<1>13. CASE UNCHANGED hookVars
  BY <1>13 DEF hookVars, HookTypeOK, HooksReady, CreationsFirst, OthersLater,
       EndpointsMatchRows, Between
<1> QED
  BY <1>3, <1>4, <1>5, <1>6, <1>7, <1>8, <1>9, <1>10, <1>11, <1>12, <1>13 DEF HookNext

\* Endpoints, rows and requests keep their types, however requests overlap and fail.
THEOREM HookTypeCorrect == HookSpec => []HookTypeOK
<1>1. HookInv => HookTypeOK
  BY DEF HookInv
<1> QED
  BY HookInitInv, HookStepInv, <1>1, PTL DEF HookSpec

\* A row and its endpoint exist together but while a creation or deletion is between
\* its two calls or after it died there, for any number of overlapping requests.
THEOREM RowsHaveEndpoints == HookSpec => []EndpointsMatchRows
<1>1. HookInv => EndpointsMatchRows
  BY DEF HookInv
<1> QED
  BY HookInitInv, HookStepInv, <1>1, PTL DEF HookSpec

HIDE HookAssumption DEF Hooks
===============================================================================
