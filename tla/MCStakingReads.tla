---------------------------- MODULE MCStakingReads ----------------------------
(* The instance of StakingReads for TLC: four chains with a block every two     *)
(* seconds, a halt, a burst of blocks in one second, and a late first block;    *)
(* pages in every order the client may ask for but by amount.                   *)
EXTENDS StakingReads

MCChain(kind) ==
  [b \in Blocks |->
     CASE kind = "steady" -> 2 * b
       [] kind = "stall" -> IF b < 4 THEN 0 ELSE 8 + b
       [] kind = "burst" -> IF b < 2 THEN 5 * b ELSE 10 + b \div 3
       [] kind = "late" -> 5 + b]

MCChains == {MCChain(kind) : kind \in {"steady", "stall", "burst", "late"}}
MCOrders == {"date", "type"} \X {"asc", "desc"}
=============================================================================
