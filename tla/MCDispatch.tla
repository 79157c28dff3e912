------------------------------- MODULE MCDispatch -------------------------------
(***************************************************************************)
(* Instances of the application of extrinsics for TLC.                     *)
(***************************************************************************)
EXTENDS Dispatch, TLC

\* Sound for invariants and action properties: nothing names an account or a
\* collectible.
Symmetry == Permutations(AccountId) \cup Permutations(CollectibleId)
================================================================================
