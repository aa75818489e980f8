----------------------------- MODULE TokenRegistry -----------------------------
(***************************************************************************)
(* What blockchain_assets promises of the tokens of an ERC721 contract: a  *)
(* token's row is always as one transfer of that token left it, owner and  *)
(* block together, and only a burn of the token removes it.                *)
(***************************************************************************)
EXTENDS Integers, Sequences

CONSTANTS
  Null,
  Tokens,
  Zero,   \* the zero address
  Chain   \* the Transfer logs of the contract, in the order of the chain

VARIABLE held  \* held[t]: owner and block of token t, Null without a row

Logs == 1 .. Len(Chain)

Burns(n) == Chain[n].from # Zero /\ Chain[n].to = Zero
Mints(n) == Chain[n].from = Zero

Init == held = [t \in Tokens |-> Null]

Mint(n) == /\ Mints(n)
           /\ held' = [held EXCEPT ![Chain[n].token] =
                         [owner |-> Chain[n].to, block |-> Chain[n].block]]

Transfer(n) == /\ ~Mints(n) /\ ~Burns(n)
               /\ held[Chain[n].token] # Null
               /\ held' = [held EXCEPT ![Chain[n].token] =
                             [owner |-> Chain[n].to, block |-> Chain[n].block]]

Burn(n) == Burns(n) /\ held' = [held EXCEPT ![Chain[n].token] = Null]

Next == \E n \in Logs : Mint(n) \/ Transfer(n) \/ Burn(n)

Spec == Init /\ [][Next]_held
=============================================================================
