---------------------------- MODULE TokenMetadata ----------------------------
(* The rows of token_metadata. CacheTokenMetadataUseCase fills and refreshes    *)
(* them from the contract of a token, SyncLpTokensUseCase from that of a pool,  *)
(* which is the LP token. Each looks for the row, asks the chain and writes.    *)
(* Lists of tokens are executions for one token, one after the other.           *)
EXTENDS Naturals

CONSTANTS
  NoToken,    \* there is no row
  Addresses,  \* the tokens
  Fetches,    \* executions in flight
  MaxSupply   \* bound on the total supplies

ASSUME MetadataAssumption ==
  /\ Addresses # {} /\ MaxSupply \in Nat
  /\ NoToken \notin [isLpToken : BOOLEAN, totalSupply : Nat]

VARIABLES supply,  \* the total supply of each token on the chain
          token,   \* its row
          fetch,   \* the executions
          synced,  \* tokens a pool was synced to without an error
          plain    \* tokens whose row CacheTokenMetadataUseCase created

metadataVars == <<supply, token, fetch, synced, plain>>

Supply == 0 .. MaxSupply
TokenRow == [isLpToken : BOOLEAN, totalSupply : Supply]
Fetch == [pc : {"idle", "find", "chain", "save"}, kind : {"cache", "pool"},
          address : Addresses, force : BOOLEAN,
          existing : TokenRow \cup {NoToken}, read : Supply]
NoFetch == [pc |-> "idle", kind |-> "cache", address |-> CHOOSE a \in Addresses : TRUE,
            force |-> FALSE, existing |-> NoToken, read |-> 0]

Begin(f, kind, a, force) ==
  /\ fetch[f].pc = "idle"
  /\ fetch' = [fetch EXCEPT ![f] = [NoFetch EXCEPT !.pc = "find", !.kind = kind,
                                      !.address = a, !.force = force]]
  /\ UNCHANGED <<supply, token, synced, plain>>

Return(f) == fetch' = [fetch EXCEPT ![f] = NoFetch]

\* ---------------------------------------------------------------- requests
\* A token that is asked for and has no row is cached.
GetByAddress(f) == \E a \in Addresses : token[a] = NoToken /\ Begin(f, "cache", a, FALSE)

\* cacheMultipleTokens
CacheTokens(f) == \E a \in Addresses : Begin(f, "cache", a, FALSE)

\* refreshStaleTokens finds rows; how old they are is left open.
RefreshStaleTokens(f) ==
  \E a \in Addresses : token[a] # NoToken /\ Begin(f, "cache", a, TRUE)

\* Pools that were named or discovered, or all that are known (refreshAllLpTokens).
SyncLpTokens(f) == \E a \in Addresses : Begin(f, "pool", a, FALSE)

\* A cached row that is not stale is the answer.
FindByAddress(f) ==
  LET row == token[fetch[f].address]
  IN  /\ fetch[f].pc = "find"
      /\ \/ /\ row # NoToken /\ fetch[f].kind = "cache" /\ ~fetch[f].force
            /\ Return(f)
         \/ fetch' = [fetch EXCEPT ![f].pc = "chain", ![f].existing = row]
      /\ UNCHANGED <<supply, token, synced, plain>>

FetchTokenMetadata(f) ==
  /\ fetch[f].pc = "chain"
  /\ fetch' = [fetch EXCEPT ![f].pc = "save", ![f].read = supply[fetch[f].address]]
  /\ UNCHANGED <<supply, token, synced, plain>>

\* TokenMetadataEntity.create; the pool's entity has isLpToken.
Created(q) == [isLpToken |-> q.kind = "pool", totalSupply |-> q.read]

\* update of the row that was read: what makes it an LP token stays.
UpdatedAnew(q) == Created(q)
Updated(q) == [q.existing EXCEPT !.totalSupply = q.read]

Succeed(f) ==
  /\ synced' = synced \cup {a \in {fetch[f].address} : fetch[f].kind = "pool"}
  /\ Return(f)

\* The unique index refuses a second row.
CreateToken(f) ==
  LET q == fetch[f]
  IN  /\ q.pc = "save" /\ q.existing = NoToken
      /\ IF token[q.address] = NoToken
           THEN /\ token' = [token EXCEPT ![q.address] = Created(q)]
                /\ plain' = plain \cup {a \in {q.address} : q.kind = "cache"}
                /\ Succeed(f)
           ELSE Return(f) /\ UNCHANGED <<token, synced, plain>>
      /\ UNCHANGED supply

\* A pool whose supply and verification are as they were is not written.
UpdateToken(f) ==
  LET q == fetch[f]
  IN  /\ q.pc = "save" /\ q.existing # NoToken
      /\ \/ token' = [token EXCEPT ![q.address] = Updated(q)]
         \/ q.kind = "pool" /\ q.existing.totalSupply = q.read /\ UNCHANGED token
      /\ Succeed(f) /\ UNCHANGED <<supply, plain>>

\* The contract does not answer, or a statement is rejected: an error is reported.
FetchFails(f) ==
  /\ fetch[f].pc # "idle"
  /\ Return(f) /\ UNCHANGED <<supply, token, synced, plain>>

MintSupply ==
  /\ \E a \in Addresses : supply[a] < MaxSupply
                          /\ supply' = [supply EXCEPT ![a] = @ + 1]
  /\ UNCHANGED <<token, fetch, synced, plain>>

\* ------------------------------------------------------------ specification
MetadataInit ==
  /\ supply = [a \in Addresses |-> 0] /\ token = [a \in Addresses |-> NoToken]
  /\ fetch = [f \in Fetches |-> NoFetch]
  /\ synced = {} /\ plain = {}

MetadataNext ==
  \/ \E f \in Fetches :
       \/ GetByAddress(f) \/ CacheTokens(f) \/ RefreshStaleTokens(f) \/ SyncLpTokens(f)
       \/ FindByAddress(f) \/ FetchTokenMetadata(f) \/ CreateToken(f) \/ UpdateToken(f)
       \/ FetchFails(f)
  \/ MintSupply

MetadataSpec == MetadataInit /\ [][MetadataNext]_metadataVars

\* --------------------------------------------------------------- properties
MetadataTypeOK ==
  /\ supply \in [Addresses -> Supply]
  /\ token \in [Addresses -> TokenRow \cup {NoToken}]
  /\ fetch \in [Fetches -> Fetch]
  /\ synced \subseteq Addresses /\ plain \subseteq Addresses

\* A pool that was synced is among the LP tokens and stays there, whatever caches and
\* refreshes its row at the same time; unless it was asked for as a token first, for
\* then its row is an ordinary one and a sync reports an update that leaves it so.
PoolsAreFound == \A a \in synced : token[a].isLpToken \/ a \in plain
=============================================================================
