---------------------------- MODULE MCShardProgram ----------------------------
(***************************************************************************)
(* Instances of ShardProgram for TLC; the .cfg files give the constants.   *)
(***************************************************************************)
EXTENDS ShardProgram, TLC

\* Executions and wallets are interchangeable: no constant singles one out.
Symmetry == Permutations(Requests) \cup Permutations(RefOps)
              \cup Permutations(Wallets)
=============================================================================
