------------------------------ MODULE MCRentEvents ------------------------------
(***************************************************************************)
(* Instances of the rent pallet with its events for TLC.                   *)
(***************************************************************************)
EXTENDS RentEvents, TLC

\* Sound for invariants and action properties: nothing names an account or a
\* collectible.
Symmetry == Permutations(AccountId) \cup Permutations(CollectibleId)
================================================================================
