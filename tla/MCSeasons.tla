------------------------------ MODULE MCSeasons ------------------------------
(* Instances of Seasons for TLC; the .cfg files give the constants. *)
EXTENDS Seasons, TLC

CONSTANTS o1, o2, o3

\* One call at a time, which does not fail, or two that overlap and may.
MCCasts == {{o1}, {o2, o3}}

\* The overlapping calls and the chains are interchangeable.
Symmetry == Permutations({o2, o3}) \cup Permutations(Chains)
=============================================================================
