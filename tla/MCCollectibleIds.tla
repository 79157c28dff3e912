---------------------------- MODULE MCCollectibleIds ----------------------------
(***************************************************************************)
(* An instance of the generation of identifiers for TLC.                   *)
(***************************************************************************)
EXTENDS CollectibleIds, TLC

\* Sound for invariants and action properties: nothing names a seed.
Symmetry == Permutations(Seeds)
================================================================================
