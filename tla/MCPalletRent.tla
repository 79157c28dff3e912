------------------------------ MODULE MCPalletRent ------------------------------
(***************************************************************************)
(* Instances of the rent pallet for TLC; their parameters are in the       *)
(* configuration files.                                                    *)
(***************************************************************************)
EXTENDS RentProperties, TLC

\* Sound for invariants and action properties: nothing names an account or a
\* collectible.
Symmetry == Permutations(AccountId) \cup Permutations(CollectibleId)
================================================================================
