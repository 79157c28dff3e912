----------------------------- MODULE CollectibleIds -----------------------------
(***************************************************************************)
(* How mint gets the identifier of a collectible: gen_collectible_id       *)
(* (pallets/rent/src/lib.rs) hashes the block's random seed, the index of  *)
(* the extrinsic and the number of the block.  PalletRent takes from here  *)
(* that an identifier is never generated twice.                            *)
(*                                                                         *)
(* The hash is taken to have no collisions, so an identifier is its        *)
(* payload.  The seed is not: RandomnessCollectiveFlip may give two blocks *)
(* the same one, and gives every extrinsic of a block the same one.        *)
(***************************************************************************)
EXTENDS Naturals

CONSTANTS
    Seeds,          \* what RandomnessCollectiveFlip can return
    MaxExtrinsics,  \* a bound of the model: how many extrinsics a block has
    LastBlock       \* a bound of the model: no block is begun after it

ASSUME BoundsAssumption == MaxExtrinsics \in Nat /\ LastBlock \in Nat

VARIABLES
    random,             \* the seed of this block
    extrinsic_index,    \* frame_system: the extrinsic being applied
    block_number,       \* frame_system: the block being built
    building,           \* between initialize_block and finalize_block
    live,               \* the identifiers in Collectibles
    generated           \* the identifiers that mint has given out

vars == << random, extrinsic_index, block_number, building, live, generated >>

CollectibleId == Seeds \X Nat \X Nat

TypeOK ==
    /\ random \in Seeds
    /\ extrinsic_index \in Nat
    /\ block_number \in Nat
    /\ building \in BOOLEAN
    /\ live \in SUBSET CollectibleId
    /\ generated \in SUBSET CollectibleId

Init ==
    /\ random \in Seeds
    /\ extrinsic_index = 0
    /\ block_number = 0
    /\ building = FALSE
    /\ live = {}
    /\ generated = {}

\* Mutant of Payload: the index of the extrinsic is left out.
PayloadPerBlock(seed, index, block) == << seed, 0, block >>

\* Mutant of Payload: the seed is relied upon to tell blocks apart.
PayloadWithoutBlock(seed, index, block) == << seed, index, 0 >>

Payload(seed, index, block) == << seed, index, block >>

GenCollectibleId == Payload(random, extrinsic_index, block_number)

\* initialize_block starts with extrinsic 0; the hook of
\* RandomnessCollectiveFlip, which comes before the rent pallet, sets the seed.
InitializeBlock(seed) ==
    /\ ~building
    /\ block_number < LastBlock
    /\ block_number' = block_number + 1
    /\ extrinsic_index' = 0
    /\ random' = seed
    /\ building' = TRUE
    /\ UNCHANGED << live, generated >>

\* An extrinsic that is applied is counted, whatever its call returns.  One
\* that panics is not applied, and leaves everything as it was.
Applied ==
    /\ building
    /\ extrinsic_index < MaxExtrinsics
    /\ extrinsic_index' = extrinsic_index + 1
    /\ UNCHANGED << random, block_number, building >>

\* The inherent that sets the timestamp is the first extrinsic of the block.
ApplyInherent ==
    /\ extrinsic_index = 0
    /\ UNCHANGED << live, generated >>
    /\ Applied

Mint ==
    /\ extrinsic_index > 0
    /\ GenCollectibleId \notin live
    /\ live' = live \cup {GenCollectibleId}
    /\ generated' = generated \cup {GenCollectibleId}
    /\ Applied

Burn(id) ==
    /\ extrinsic_index > 0
    /\ id \in live
    /\ live' = live \ {id}
    /\ UNCHANGED generated
    /\ Applied

\* Any other call, and a mint that returns an error.
ApplyOther ==
    /\ extrinsic_index > 0
    /\ UNCHANGED << live, generated >>
    /\ Applied

FinalizeBlock ==
    /\ building
    /\ extrinsic_index > 0
    /\ building' = FALSE
    /\ UNCHANGED << random, extrinsic_index, block_number, live, generated >>

Next ==
    \/ \E seed \in Seeds : InitializeBlock(seed)
    \/ ApplyInherent
    \/ Mint
    \/ \E id \in live : Burn(id)
    \/ ApplyOther
    \/ FinalizeBlock

Spec == Init /\ [][Next]_vars

--------------------------------------------------------------------------------
\* Properties

\* lib.rs:672, "Multiple collectibles can be generated in the same block,
\* retaining uniqueness": what mint would generate now was never generated
\* before, burnt collectibles included, although seeds repeat.
IdentifierIsFresh == building => GenCollectibleId \notin generated

\* A burnt collectible never comes back under its old identifier, which old
\* entries of RentableCollectibles may still name.
BurntStaysBurnt ==
    [][\A id \in generated \ live : id \notin live']_vars

\* Where a generated identifier comes from: an earlier block, or an earlier
\* extrinsic of this block.
GeneratedBefore ==
    \A id \in generated :
        \/ id[3] < block_number
        \/ id[3] = block_number /\ id[2] < extrinsic_index

================================================================================
