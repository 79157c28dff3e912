-------------------------- MODULE CollectibleIdsProofs --------------------------
(***************************************************************************)
(* Identifiers are unique for any number of seeds, blocks and extrinsics.  *)
(* Freshness alone is not inductive: nothing in it says that the numbers   *)
(* of what was generated lie behind the clock.  GeneratedBefore does.      *)
(***************************************************************************)
EXTENDS CollectibleIds, TLAPS

\* Every identifier that is live was generated, and all of them lie behind the
\* clock made of the block and the extrinsic.
IdInvariant == TypeOK /\ GeneratedBefore /\ live \subseteq generated

\* The invariant holds at genesis, where nothing is generated yet.
LEMMA InitIdInvariant == Init => IdInvariant
<1> SUFFICES ASSUME Init PROVE IdInvariant
  OBVIOUS
<1>1. building \in BOOLEAN
  BY DEF Init
<1>2. random \in Seeds /\ extrinsic_index \in Nat /\ block_number \in Nat
  BY DEF Init
<1>3. live = {} /\ generated = {}
  BY DEF Init
<1> QED
  BY <1>1, <1>2, <1>3 DEF IdInvariant, TypeOK, GeneratedBefore

\* What gen_collectible_id returns is an identifier, with these components.
LEMMA GenType ==
  ASSUME TypeOK
  PROVE  /\ GenCollectibleId \in CollectibleId
         /\ GenCollectibleId[2] = extrinsic_index
         /\ GenCollectibleId[3] = block_number
  BY DEF TypeOK, GenCollectibleId, Payload, CollectibleId

\* Every operation of a block preserves the invariant.
LEMMA NextIdInvariant == IdInvariant /\ [Next]_vars => IdInvariant'
<1> SUFFICES ASSUME IdInvariant, [Next]_vars PROVE IdInvariant'
  OBVIOUS
<1> USE DEF IdInvariant
<1>1. ASSUME NEW seed \in Seeds, InitializeBlock(seed) PROVE IdInvariant'
  <2>1. TypeOK'
    BY <1>1 DEF InitializeBlock, TypeOK
  <2>2. \A id \in generated : id[2] \in Nat /\ id[3] \in Nat
    BY DEF TypeOK, CollectibleId
  <2>3. GeneratedBefore'
    BY <1>1, <2>2 DEF InitializeBlock, TypeOK, GeneratedBefore
  <2> QED
    BY <1>1, <2>1, <2>3 DEF InitializeBlock
<1>2. ASSUME Applied, live' \subseteq live, UNCHANGED generated
      PROVE  IdInvariant'
  <2>1. TypeOK'
    BY <1>2 DEF Applied, TypeOK
  <2>2. \A id \in generated : id[2] \in Nat /\ id[3] \in Nat
    BY DEF TypeOK, CollectibleId
  <2>3. GeneratedBefore'
    BY <1>2, <2>2 DEF Applied, TypeOK, GeneratedBefore
  <2> QED
    BY <1>2, <2>1, <2>3
<1>3. CASE ApplyInherent
  BY <1>2, <1>3 DEF ApplyInherent
<1>4. CASE Mint
  <2>1. TypeOK'
    BY <1>4, GenType DEF Mint, Applied, TypeOK
  <2>2. \A id \in generated : id[2] \in Nat /\ id[3] \in Nat
    BY DEF TypeOK, CollectibleId
  <2>3. GeneratedBefore'
    BY <1>4, <2>2, GenType DEF Mint, Applied, TypeOK, GeneratedBefore
  <2> QED
    BY <1>4, <2>1, <2>3 DEF Mint
<1>5. ASSUME NEW id \in live, Burn(id) PROVE IdInvariant'
  BY <1>2, <1>5 DEF Burn
<1>6. CASE ApplyOther
  BY <1>2, <1>6 DEF ApplyOther
<1>7. CASE FinalizeBlock \/ UNCHANGED vars
  BY <1>7 DEF FinalizeBlock, vars, TypeOK, GeneratedBefore
<1> QED
  BY <1>1, <1>3, <1>4, <1>5, <1>6, <1>7 DEF Next

\* The invariant of the clock holds in every state.
THEOREM IdsLieBehindTheClock == Spec => []IdInvariant
  BY InitIdInvariant, NextIdInvariant, PTL DEF Spec

\* gen_collectible_id (lib.rs:669-682) never returns what it has returned before.
THEOREM IdentifiersAreUnique == Spec => []IdentifierIsFresh
<1>1. IdInvariant => IdentifierIsFresh
  <2> SUFFICES ASSUME IdInvariant, GenCollectibleId \in generated PROVE FALSE
    BY DEF IdentifierIsFresh
  <2> QED
    BY GenType DEF IdInvariant, GeneratedBefore, TypeOK
<1> QED
  BY <1>1, IdsLieBehindTheClock, PTL

\* What was burnt stays burnt: only mint adds to Collectibles, and what it adds
\* is new.
THEOREM BurntIdsStayBurnt == Spec => BurntStaysBurnt
<1>1. IdInvariant /\ [Next]_vars =>
          [\A id \in generated \ live : id \notin live']_vars
  <2> SUFFICES ASSUME IdInvariant, Next,
                      NEW id \in generated, id \notin live
               PROVE  id \notin live'
    BY DEF vars
  <2>1. CASE Mint
    <3>1. GenCollectibleId \notin generated
      BY GenType DEF IdInvariant, GeneratedBefore, TypeOK
    <3> QED
      BY <2>1, <3>1 DEF Mint
  <2>2. ASSUME ~Mint PROVE live' \subseteq live
    BY <2>2 DEF Next, InitializeBlock, ApplyInherent, Burn, ApplyOther, FinalizeBlock
  <2> QED
    BY <2>1, <2>2
<1> QED
  BY <1>1, IdsLieBehindTheClock, PTL DEF Spec, BurntStaysBurnt

================================================================================
