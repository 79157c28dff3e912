---------------------------- MODULE OwnershipProofs ----------------------------
(***************************************************************************)
(* Who owns a collectible, who may have it equipped, and on which terms it *)
(* is rented: the lists of LessorCollectibles, RentableCollectibles and    *)
(* AccountEquips agree with Collectibles in every reachable state, and the *)
(* terms of a rental do not change under its lessee.                       *)
(*                                                                         *)
(* The first part states what each step does to Collectibles.              *)
(***************************************************************************)
EXTENDS LeaseProofs

--------------------------------------------------------------------------------
\* What the steps do to the collectibles

\* Every collectible but id is what it was.
CollectiblesKept(id) ==
    \A i \in CollectibleId : i # id => Collectibles'[i] = Collectibles[i]

LEMMA MintEffect ==
  ASSUME TypeOK, NEW sender \in AccountId, NEW id \in CollectibleId, Mint(sender, id)
  PROVE  /\ ~Exists(id) /\ Exists(id)'
         /\ Collectibles'[id].lessor = sender
         /\ Collectibles'[id].lessee = None
         /\ Collectibles'[id].rentable = FALSE
         /\ CollectiblesKept(id)
<1>1. NewCollectible(sender) \in Collectible
  BY DEF NewCollectible, Collectible
<1>2. Collectibles'[id] = NewCollectible(sender) /\ CollectiblesKept(id)
  BY DEF Mint, TypeOK, CollectiblesKept
<1>3. /\ NewCollectible(sender) # None
      /\ NewCollectible(sender).lessor = sender
      /\ NewCollectible(sender).lessee = None
      /\ NewCollectible(sender).rentable = FALSE
  BY <1>1, NoneAssumption DEF NewCollectible
<1> QED
  BY <1>2, <1>3 DEF Mint, Exists

LEMMA BurnEffect ==
  ASSUME TypeOK, NEW sender \in AccountId, NEW id \in CollectibleId, Burn(sender, id)
  PROVE  /\ Exists(id) /\ ~Exists(id)'
         /\ Collectibles[id].lessor = sender
         /\ Collectibles[id].lessee = None
         /\ CollectiblesKept(id)
  BY DEF Burn, OwnedAndVacant, IsLessor, TypeOK, CollectiblesKept, Exists

LEMMA SetRentableEffect ==
  ASSUME TypeOK, NEW sender \in AccountId, NEW id \in CollectibleId,
         NEW price \in Prices, NEW minimum \in Periods, NEW maximum \in Periods,
         SetRentable(sender, id, price, minimum, maximum)
  PROVE  /\ Exists(id) /\ Exists(id)'
         /\ Collectibles[id].lessor = sender
         /\ Collectibles[id].lessee = None
         /\ Collectibles'[id].lessor = sender
         /\ Collectibles'[id].lessee = None
         /\ CollectiblesKept(id)
<1>1. /\ Exists(id) /\ Collectibles[id] \in Collectible
      /\ Collectibles[id].lessor = sender
      /\ Collectibles[id].lessee = None
  BY DEF SetRentable, OwnedAndVacant, IsLessor, TypeOK, Exists
<1> DEFINE c == [Collectibles[id] EXCEPT !.price_per_block = price,
                                         !.rentable = TRUE,
                                         !.minimum_rental_period = minimum,
                                         !.maximum_rental_period = maximum]
<1>2. Collectibles'[id] = c /\ CollectiblesKept(id)
  BY DEF SetRentable, Offered, TypeOK, CollectiblesKept
<1>3. c \in Collectible /\ c.lessor = sender /\ c.lessee = None
  BY <1>1, InputsAssumption DEF Collectible
<1> HIDE DEF c
<1> QED
  BY <1>1, <1>2, <1>3, NoneAssumption DEF Exists

LEMMA SetUnrentableEffect ==
  ASSUME TypeOK, NEW sender \in AccountId, NEW id \in CollectibleId,
         SetUnrentable(sender, id)
  PROVE  /\ Exists(id) /\ Exists(id)'
         /\ Collectibles'[id] = [Collectibles[id] EXCEPT !.rentable = FALSE]
         /\ Collectibles'[id].lessor = Collectibles[id].lessor
         /\ Collectibles'[id].lessee = Collectibles[id].lessee
         /\ Collectibles'[id].rentable = FALSE
         /\ CollectiblesKept(id)
<1>1. Exists(id) /\ Collectibles[id] \in Collectible
  BY DEF SetUnrentable, TypeOK, Exists
<1> DEFINE c == [Collectibles[id] EXCEPT !.rentable = FALSE]
<1>2. Collectibles'[id] = c /\ CollectiblesKept(id)
  BY DEF SetUnrentable, TypeOK, CollectiblesKept
<1>3. /\ c \in Collectible /\ c.rentable = FALSE
      /\ c.lessor = Collectibles[id].lessor
      /\ c.lessee = Collectibles[id].lessee
  BY <1>1 DEF Collectible
<1>4. c # None
  BY <1>3, NoneAssumption
<1> QED
  BY <1>1, <1>2, <1>3, <1>4 DEF Exists

\* rent and the end of a rental change nothing but the lessee.
NewLessee(id, lessee) ==
    /\ Exists(id) /\ Exists(id)'
    /\ Collectibles'[id] = [Collectibles[id] EXCEPT !.lessee = lessee]
    /\ Collectibles'[id].lessor = Collectibles[id].lessor
    /\ Collectibles'[id].lessee = lessee
    /\ Collectibles'[id].rentable = Collectibles[id].rentable
    /\ CollectiblesKept(id)

LEMMA NewLesseeEffect ==
  ASSUME TypeOK, NEW id \in CollectibleId, Exists(id),
         NEW lessee \in AccountId \cup {None},
         Collectibles' = [Collectibles EXCEPT ![id].lessee = lessee]
  PROVE  NewLessee(id, lessee)
<1> DEFINE c == [Collectibles[id] EXCEPT !.lessee = lessee]
<1>1. Collectibles[id] \in Collectible
  BY DEF TypeOK, Exists
<1>2. Collectibles'[id] = c /\ CollectiblesKept(id)
  BY DEF TypeOK, CollectiblesKept
<1>3. /\ c \in Collectible /\ c.lessee = lessee
      /\ c.lessor = Collectibles[id].lessor
      /\ c.rentable = Collectibles[id].rentable
  BY <1>1 DEF Collectible
<1>4. c # None
  BY <1>3, NoneAssumption
<1> QED
  BY <1>2, <1>3, <1>4 DEF NewLessee, Exists

LEMMA RentLessee ==
  ASSUME TypeOK, NEW sender \in AccountId, NEW id \in CollectibleId,
         NEW blocks \in Blocks, NEW recurring \in BOOLEAN,
         Rent(sender, id, blocks, recurring)
  PROVE  Collectibles[id].lessee = None /\ NewLessee(id, sender)
  BY NewLesseeEffect DEF Rent, MayRent, NotAParty

LEMMA RemovedLessee ==
  ASSUME RentalInv, NEW lessee \in AccountId, NEW id \in CollectibleId,
         Processing(id, lessee), RemoveLessee(id, lessee)
  PROVE  Collectibles[id].lessee = lessee /\ NewLessee(id, None)
<1>1. Exists(id) /\ Collectibles[id].lessee = lessee
  BY DEF Processing, RentalInv, RentalsHaveOneLessee
<1> QED
  BY <1>1, NewLesseeEffect DEF RentalInv, RemoveLessee

--------------------------------------------------------------------------------
\* Lemmas about the lists

LEMMA OwnedTypes ==
  ASSUME TypeOK
  PROVE  /\ RentableCollectibles \in Seq(CollectibleId)
         /\ \A a \in AccountId : /\ LessorCollectibles[a] \in Seq(CollectibleId)
                                 /\ AccountEquips[a] \in Seq(CollectibleId)
  BY DEF TypeOK, OwnedIds, BoundedVec

\* Retain drops elements and repeats none.
LEMMA RetainOnce ==
  ASSUME NEW S, NEW s \in Seq(S), \A i, j \in DOMAIN s : i # j => s[i] # s[j], NEW drop
  PROVE  /\ Range(Retain(s, drop)) = Range(s) \ drop
         /\ \A i, j \in DOMAIN Retain(s, drop) :
                i # j => Retain(s, drop)[i] # Retain(s, drop)[j]
<1> DEFINE t == Retain(s, drop)
<1>1. /\ Range(t) = Range(s) \ drop
      /\ \A i, j \in DOMAIN t :
             i # j => \E p, q \in DOMAIN s : p # q /\ t[i] = s[p] /\ t[j] = s[q]
  BY RetainProperties
<1> HIDE DEF t
<1>2. \A i, j \in DOMAIN t : i # j => t[i] # t[j]
  BY <1>1
<1> QED
  BY <1>1, <1>2 DEF t

\* What one account has unequipped.
LEMMA UnequipRange ==
  ASSUME TypeOK, NEW account \in AccountId, NEW id \in CollectibleId,
         AccountEquips' = Unequip(account, id), NEW a \in AccountId
  PROVE  Range(AccountEquips'[a]) =
             IF a = account THEN Range(AccountEquips[a]) \ {id} ELSE Range(AccountEquips[a])
<1>1. AccountEquips'[a] =
          IF a = account THEN Retain(AccountEquips[a], {id}) ELSE AccountEquips[a]
  BY DEF Unequip, TypeOK
<1>2. Range(Retain(AccountEquips[a], {id})) = Range(AccountEquips[a]) \ {id}
  BY OwnedTypes, RetainProperties
<1> QED
  BY <1>1, <1>2

--------------------------------------------------------------------------------
\* The list of an owner

\* No owner changes.
LEMMA OwnersStay ==
  ASSUME OwnersAreIndexed, UNCHANGED LessorCollectibles,
         \A id \in CollectibleId :
             /\ Exists(id)' <=> Exists(id)
             /\ Exists(id) => Collectibles'[id].lessor = Collectibles[id].lessor
  PROVE  OwnersAreIndexed'
  BY DEF OwnersAreIndexed, IsLessor

LEMMA MintIndexed ==
  ASSUME TypeOK, OwnersAreIndexed,
         NEW sender \in AccountId, NEW id \in CollectibleId, Mint(sender, id)
  PROVE  OwnersAreIndexed'
<1>1. /\ ~Exists(id) /\ Exists(id)' /\ Collectibles'[id].lessor = sender
      /\ \A i \in CollectibleId : i # id => Collectibles'[i] = Collectibles[i]
  BY MintEffect DEF CollectiblesKept
<1>2. /\ LessorCollectibles[sender] \in Seq(CollectibleId)
      /\ LessorCollectibles'[sender] = Append(LessorCollectibles[sender], id)
      /\ \A a \in AccountId : a # sender => LessorCollectibles'[a] = LessorCollectibles[a]
  BY OwnedTypes DEF Mint, TypeOK
<1> SUFFICES ASSUME NEW a \in AccountId
             PROVE  /\ Range(LessorCollectibles'[a]) =
                           {i \in CollectibleId : Exists(i)' /\ IsLessor(a, i)'}
                    /\ \A i, j \in DOMAIN LessorCollectibles'[a] :
                           i # j => LessorCollectibles'[a][i] # LessorCollectibles'[a][j]
  BY DEF OwnersAreIndexed
<1>3. /\ Range(LessorCollectibles[a]) =
             {i \in CollectibleId : Exists(i) /\ IsLessor(a, i)}
      /\ \A i, j \in DOMAIN LessorCollectibles[a] :
             i # j => LessorCollectibles[a][i] # LessorCollectibles[a][j]
  BY DEF OwnersAreIndexed
<1>4. CASE a # sender
  BY <1>1, <1>2, <1>3, <1>4 DEF IsLessor, Exists
<1>5. CASE a = sender
  <2>1. Range(LessorCollectibles'[sender]) = Range(LessorCollectibles[sender]) \cup {id}
    BY <1>2, AppendRange
  <2>2. Range(LessorCollectibles'[a]) =
            {i \in CollectibleId : Exists(i)' /\ IsLessor(a, i)'}
    BY <1>1, <1>3, <1>5, <2>1 DEF IsLessor, Exists
  <2>3. \A i \in DOMAIN LessorCollectibles[sender] : LessorCollectibles[sender][i] # id
    BY <1>1, <1>3, <1>5 DEF Range
  <2>4. ASSUME NEW i \in DOMAIN LessorCollectibles'[sender],
               NEW j \in DOMAIN LessorCollectibles'[sender], i # j
        PROVE  LessorCollectibles'[sender][i] # LessorCollectibles'[sender][j]
    BY <1>2, <1>3, <1>5, <2>3, <2>4
  <2> QED
    BY <1>5, <2>2, <2>4
<1> QED
  BY <1>4, <1>5

LEMMA BurnIndexed ==
  ASSUME TypeOK, OwnersAreIndexed,
         NEW sender \in AccountId, NEW id \in CollectibleId, Burn(sender, id)
  PROVE  OwnersAreIndexed'
<1>1. /\ ~Exists(id)' /\ Collectibles[id].lessor = sender
      /\ \A i \in CollectibleId : i # id => Collectibles'[i] = Collectibles[i]
  BY BurnEffect DEF CollectiblesKept
<1>2. /\ LessorCollectibles[sender] \in Seq(CollectibleId)
      /\ LessorCollectibles'[sender] = Retain(LessorCollectibles[sender], {id})
      /\ \A a \in AccountId : a # sender => LessorCollectibles'[a] = LessorCollectibles[a]
  BY OwnedTypes DEF Burn, TypeOK
<1> SUFFICES ASSUME NEW a \in AccountId
             PROVE  /\ Range(LessorCollectibles'[a]) =
                           {i \in CollectibleId : Exists(i)' /\ IsLessor(a, i)'}
                    /\ \A i, j \in DOMAIN LessorCollectibles'[a] :
                           i # j => LessorCollectibles'[a][i] # LessorCollectibles'[a][j]
  BY DEF OwnersAreIndexed
<1>3. /\ Range(LessorCollectibles[a]) =
             {i \in CollectibleId : Exists(i) /\ IsLessor(a, i)}
      /\ \A i, j \in DOMAIN LessorCollectibles[a] :
             i # j => LessorCollectibles[a][i] # LessorCollectibles[a][j]
  BY DEF OwnersAreIndexed
<1>4. CASE a # sender
  BY <1>1, <1>2, <1>3, <1>4 DEF IsLessor, Exists
<1>5. CASE a = sender
  <2>1. PICK list \in Seq(CollectibleId), drop \in SUBSET CollectibleId :
            list = LessorCollectibles[sender] /\ drop = {id}
    BY <1>2
  <2>2. PICK new : new = Retain(list, drop)
    OBVIOUS
  <2>3. LessorCollectibles'[a] = new
    BY <1>2, <1>5, <2>1, <2>2
  <2>4. \A i, j \in DOMAIN list : i # j => list[i] # list[j]
    BY <1>3, <1>5, <2>1
  <2>5. /\ Range(new) = Range(list) \ drop
        /\ \A i, j \in DOMAIN new : i # j => new[i] # new[j]
    BY <2>2, <2>4, RetainOnce
  <2>6. Range(list) = {i \in CollectibleId : Exists(i) /\ IsLessor(a, i)}
    BY <1>3, <1>5, <2>1
  <2>7. Range(new) = {i \in CollectibleId : Exists(i)' /\ IsLessor(a, i)'}
    BY <1>1, <1>5, <2>1, <2>5, <2>6 DEF IsLessor, Exists
  <2> QED
    BY <2>3, <2>5, <2>7
<1> QED
  BY <1>4, <1>5

--------------------------------------------------------------------------------
\* What accounts have equipped, and what is offered

\* The two properties in the next state, of one collectible.
EquippedNext(i) ==
    \A a \in AccountId : i \in Range(AccountEquips'[a]) =>
        Exists(i)' /\ (Collectibles'[i].lessor = a \/ Collectibles'[i].lessee = a)

OfferedNext(i) ==
    Exists(i)' /\ Collectibles'[i].rentable =>
        /\ i \notin Range(AccountEquips'[Collectibles'[i].lessor])
        /\ i \in Range(RentableCollectibles')

LEMMA ListsNext ==
  ASSUME TypeOK', \A i \in CollectibleId : EquippedNext(i) /\ OfferedNext(i)
  PROVE  EquippedByParties' /\ OfferedIsFree'
<1>1. \A a \in AccountId : AccountEquips'[a] \in Seq(CollectibleId)
  BY DEF TypeOK, OwnedIds, BoundedVec
<1>2. \A a \in AccountId : Range(AccountEquips'[a]) \subseteq CollectibleId
  BY <1>1 DEF Range
<1> QED
  BY <1>2 DEF EquippedNext, OfferedNext, EquippedByParties, OfferedIsFree, IsLessor, IsLessee

\* The two properties in this state, of one collectible.
ListsAgree(i) ==
    /\ \A a \in AccountId : i \in Range(AccountEquips[a]) =>
           Exists(i) /\ (Collectibles[i].lessor = a \/ Collectibles[i].lessee = a)
    /\ Exists(i) /\ Collectibles[i].rentable =>
           /\ i \notin Range(AccountEquips[Collectibles[i].lessor])
           /\ i \in Range(RentableCollectibles)
    /\ Exists(i) => Collectibles[i].lessor \in AccountId

LEMMA ListsNow ==
  ASSUME TypeOK, EquippedByParties, OfferedIsFree, NEW i \in CollectibleId
  PROVE  ListsAgree(i)
<1>1. Exists(i) => Collectibles[i].lessor \in AccountId
  BY DEF Exists, TypeOK, Collectible
<1> QED
  BY <1>1 DEF ListsAgree, EquippedByParties, OfferedIsFree, IsLessor, IsLessee

\* Nothing that i appears in changes, but that accounts may have unequipped it.
LEMMA ListsStay ==
  ASSUME NEW i \in CollectibleId, ListsAgree(i), Collectibles'[i] = Collectibles[i],
         \A a \in AccountId :
             i \in Range(AccountEquips'[a]) => i \in Range(AccountEquips[a]),
         i \in Range(RentableCollectibles) => i \in Range(RentableCollectibles')
  PROVE  EquippedNext(i) /\ OfferedNext(i)
  BY DEF ListsAgree, EquippedNext, OfferedNext, Exists

OwnershipInv ==
    /\ RentalInv
    /\ OwnersAreIndexed
    /\ EquippedByParties
    /\ OfferedIsFree

ListsKept(i) == EquippedNext(i) /\ OfferedNext(i)

LEMMA MintKeeps ==
  ASSUME OwnershipInv, NEW sender \in AccountId, NEW id \in CollectibleId,
         Mint(sender, id), NEW i \in CollectibleId
  PROVE  ListsKept(i)
<1>1. TypeOK /\ ListsAgree(i)
  BY ListsNow DEF OwnershipInv, RentalInv
<1>2. UNCHANGED << AccountEquips, RentableCollectibles >>
  BY DEF Mint
<1>3. CASE i # id
  BY <1>1, <1>2, <1>3, MintEffect, ListsStay DEF CollectiblesKept, ListsKept
<1>4. CASE i = id
  <2>1. ~Exists(id) /\ Collectibles'[id].rentable = FALSE
    BY <1>1, MintEffect
  <2> QED
    BY <1>1, <1>2, <1>4, <2>1 DEF ListsAgree, EquippedNext, OfferedNext, ListsKept
<1> QED
  BY <1>3, <1>4

\* Only the owner can have a vacant collectible equipped when it burns it.
LEMMA BurnKeeps ==
  ASSUME OwnershipInv, NEW sender \in AccountId, NEW id \in CollectibleId,
         Burn(sender, id), NEW i \in CollectibleId
  PROVE  ListsKept(i)
<1>1. TypeOK /\ ListsAgree(i)
  BY ListsNow DEF OwnershipInv, RentalInv
<1>2. /\ UNCHANGED RentableCollectibles
      /\ \A a \in AccountId : Range(AccountEquips'[a]) =
             IF a = sender THEN Range(AccountEquips[a]) \ {id} ELSE Range(AccountEquips[a])
  BY <1>1, UnequipRange DEF Burn
<1>3. CASE i # id
  BY <1>1, <1>2, <1>3, BurnEffect, ListsStay DEF CollectiblesKept, ListsKept
<1>4. CASE i = id
  <2>1. /\ ~Exists(id)' /\ Collectibles[id].lessor = sender
        /\ Collectibles[id].lessee = None
    BY <1>1, BurnEffect
  <2>2. \A a \in AccountId : id \notin Range(AccountEquips'[a])
    BY <1>1, <1>2, <1>4, <2>1, NoneAssumption DEF ListsAgree
  <2> QED
    BY <1>4, <2>1, <2>2 DEF EquippedNext, OfferedNext, ListsKept
<1> QED
  BY <1>3, <1>4

LEMMA SetRentableKeeps ==
  ASSUME OwnershipInv, NEW sender \in AccountId, NEW id \in CollectibleId,
         NEW price \in Prices, NEW minimum \in Periods, NEW maximum \in Periods,
         SetRentable(sender, id, price, minimum, maximum), NEW i \in CollectibleId
  PROVE  ListsKept(i)
<1>1. TypeOK /\ ListsAgree(i)
  BY ListsNow DEF OwnershipInv, RentalInv
<1>2. \A a \in AccountId : Range(AccountEquips'[a]) =
          IF a = sender THEN Range(AccountEquips[a]) \ {id} ELSE Range(AccountEquips[a])
  BY <1>1, UnequipRange DEF SetRentable
<1>3. Range(RentableCollectibles') = Range(RentableCollectibles) \cup {id}
  <2>1. RentableCollectibles' = Append(RentableCollectibles, id)
    BY DEF SetRentable
  <2> QED
    BY <1>1, <2>1, OwnedTypes, AppendRange
<1>4. /\ Collectibles[id].lessor = sender /\ Collectibles[id].lessee = None
      /\ Exists(id)' /\ Collectibles'[id].lessor = sender
      /\ CollectiblesKept(id)
  BY <1>1, SetRentableEffect
<1>5. CASE i # id
  BY <1>1, <1>2, <1>3, <1>4, <1>5, ListsStay DEF CollectiblesKept, ListsKept
<1>6. CASE i = id
  <2>1. \A a \in AccountId : id \notin Range(AccountEquips'[a])
    BY <1>1, <1>2, <1>4, <1>6, NoneAssumption DEF ListsAgree
  <2> QED
    BY <1>3, <1>4, <1>6, <2>1 DEF EquippedNext, OfferedNext, ListsKept
<1> QED
  BY <1>5, <1>6

LEMMA RentKeeps ==
  ASSUME OwnershipInv, NEW sender \in AccountId, NEW id \in CollectibleId,
         NEW blocks \in Blocks, NEW recurring \in BOOLEAN,
         Rent(sender, id, blocks, recurring), NEW i \in CollectibleId
  PROVE  ListsKept(i)
<1>1. TypeOK /\ ListsAgree(i)
  BY ListsNow DEF OwnershipInv, RentalInv
<1>2. UNCHANGED << AccountEquips, RentableCollectibles >>
  BY DEF Rent
<1>3. Collectibles[id].lessee = None /\ NewLessee(id, sender)
  BY <1>1, RentLessee
<1>4. CASE i # id
  BY <1>1, <1>2, <1>3, <1>4, ListsStay DEF NewLessee, CollectiblesKept, ListsKept
<1>5. CASE i = id
  BY <1>1, <1>2, <1>3, <1>5, NoneAssumption
     DEF NewLessee, ListsAgree, EquippedNext, OfferedNext, ListsKept
<1> QED
  BY <1>4, <1>5

LEMMA SetUnrentableKeeps ==
  ASSUME OwnershipInv, NEW sender \in AccountId, NEW id \in CollectibleId,
         SetUnrentable(sender, id), NEW i \in CollectibleId
  PROVE  ListsKept(i)
<1>1. TypeOK /\ ListsAgree(i)
  BY ListsNow DEF OwnershipInv, RentalInv
<1>2. UNCHANGED AccountEquips
  BY DEF SetUnrentable
<1>3. Range(RentableCollectibles') = Range(RentableCollectibles) \ {id}
  <2>1. RentableCollectibles' = Retain(RentableCollectibles, {id})
    BY DEF SetUnrentable
  <2> QED
    BY <1>1, <2>1, OwnedTypes, RetainProperties
<1>4. /\ Exists(id)'
      /\ Collectibles'[id].lessor = Collectibles[id].lessor
      /\ Collectibles'[id].lessee = Collectibles[id].lessee
      /\ Collectibles'[id].rentable = FALSE
      /\ CollectiblesKept(id)
  BY <1>1, SetUnrentableEffect
<1>5. CASE i # id
  BY <1>1, <1>2, <1>3, <1>4, <1>5, ListsStay DEF CollectiblesKept, ListsKept
<1>6. CASE i = id
  BY <1>1, <1>2, <1>4, <1>6 DEF ListsAgree, EquippedNext, OfferedNext, ListsKept
<1> QED
  BY <1>5, <1>6

\* The lessor may equip only what it does not offer, and a lessee is no lessor.
LEMMA EquipKeeps ==
  ASSUME OwnershipInv, NEW sender \in AccountId, NEW id \in CollectibleId,
         EquipCollectible(sender, id), NEW i \in CollectibleId
  PROVE  ListsKept(i)
<1>1. TypeOK /\ ListsAgree(i)
  BY ListsNow DEF OwnershipInv, RentalInv
<1>2. /\ UNCHANGED << Collectibles, RentableCollectibles >>
      /\ Exists(id)
      /\ \/ Collectibles[id].lessor = sender /\ ~Collectibles[id].rentable
         \/ Collectibles[id].lessor # sender /\ Collectibles[id].lessee = sender
  BY DEF EquipCollectible, MayEquip, IsLessor, IsLessee
<1>3. \A a \in AccountId : Range(AccountEquips'[a]) =
          IF a = sender THEN Range(AccountEquips[a]) \cup {id} ELSE Range(AccountEquips[a])
  <2> TAKE a \in AccountId
  <2>1. AccountEquips'[a] =
            IF a = sender THEN Append(AccountEquips[a], id) ELSE AccountEquips[a]
    BY <1>1 DEF EquipCollectible, TypeOK
  <2>2. Range(Append(AccountEquips[a], id)) = Range(AccountEquips[a]) \cup {id}
    BY <1>1, OwnedTypes, AppendRange
  <2> QED
    BY <2>1, <2>2
<1> QED
  BY <1>1, <1>2, <1>3 DEF ListsAgree, EquippedNext, OfferedNext, Exists, ListsKept

LEMMA UnequipKeeps ==
  ASSUME OwnershipInv, NEW sender \in AccountId, NEW id \in CollectibleId,
         UnequipCollectible(sender, id), NEW i \in CollectibleId
  PROVE  ListsKept(i)
<1>1. TypeOK /\ ListsAgree(i)
  BY ListsNow DEF OwnershipInv, RentalInv
<1>2. /\ UNCHANGED << Collectibles, RentableCollectibles >>
      /\ \A a \in AccountId : Range(AccountEquips'[a]) =
             IF a = sender THEN Range(AccountEquips[a]) \ {id} ELSE Range(AccountEquips[a])
  BY <1>1, UnequipRange DEF UnequipCollectible
<1> QED
  BY <1>1, <1>2, ListsStay DEF ListsKept

\* The lessee that the hook removes no longer has it equipped.
LEMMA RemoveLesseeKeeps ==
  ASSUME OwnershipInv, NEW lessee \in AccountId, NEW id \in CollectibleId,
         Processing(id, lessee), RemoveLessee(id, lessee), NEW i \in CollectibleId
  PROVE  ListsKept(i)
<1>1. TypeOK /\ ListsAgree(i)
  BY ListsNow DEF OwnershipInv, RentalInv
<1>2. /\ UNCHANGED RentableCollectibles
      /\ \A a \in AccountId : Range(AccountEquips'[a]) =
             IF a = lessee THEN Range(AccountEquips[a]) \ {id} ELSE Range(AccountEquips[a])
  BY <1>1, UnequipRange DEF RemoveLessee
<1>3. Collectibles[id].lessee = lessee /\ NewLessee(id, None)
  BY RemovedLessee DEF OwnershipInv
<1>4. CASE i # id
  BY <1>1, <1>2, <1>3, <1>4, ListsStay DEF NewLessee, CollectiblesKept, ListsKept
<1>5. CASE i = id
  BY <1>1, <1>2, <1>3, <1>5
     DEF NewLessee, ListsAgree, EquippedNext, OfferedNext, ListsKept
<1> QED
  BY <1>4, <1>5

LEMMA UntouchedKeeps ==
  ASSUME OwnershipInv, UNCHANGED << Collectibles, AccountEquips, RentableCollectibles >>,
         NEW i \in CollectibleId
  PROVE  ListsKept(i)
<1>1. ListsAgree(i)
  BY ListsNow DEF OwnershipInv, RentalInv
<1> QED
  BY <1>1, ListsStay DEF ListsKept

\* Who owns what changes in mint and burn only.
LEMMA NextIndexed ==
  ASSUME OwnershipInv, [Next]_vars
  PROVE  OwnersAreIndexed'
<1>1. TypeOK /\ RentalInv /\ OwnersAreIndexed
  BY DEF OwnershipInv, RentalInv
<1>2. ASSUME UNCHANGED << Collectibles, LessorCollectibles >> PROVE OwnersAreIndexed'
  BY <1>1, <1>2, OwnersStay DEF Exists
<1>3. ASSUME NEW id \in CollectibleId, NEW lessee \in AccountId \cup {None},
             NewLessee(id, lessee), UNCHANGED LessorCollectibles
      PROVE  OwnersAreIndexed'
  BY <1>1, <1>3, OwnersStay DEF NewLessee, CollectiblesKept, Exists
<1>4. ASSUME NEW sender \in AccountId, NEW id \in CollectibleId
      PROVE  /\ SetUnrentable(sender, id) => OwnersAreIndexed'
             /\ \A price \in Prices, minimum, maximum \in Periods :
                    SetRentable(sender, id, price, minimum, maximum) => OwnersAreIndexed'
  <2>1. ASSUME SetUnrentable(sender, id) PROVE OwnersAreIndexed'
    BY <1>1, <2>1, SetUnrentableEffect, OwnersStay
       DEF SetUnrentable, CollectiblesKept, Exists
  <2>2. ASSUME NEW price \in Prices, NEW minimum \in Periods, NEW maximum \in Periods,
               SetRentable(sender, id, price, minimum, maximum)
        PROVE  OwnersAreIndexed'
    <3>1. UNCHANGED LessorCollectibles
      BY <2>2 DEF SetRentable
    <3>2. /\ Exists(id) /\ Exists(id)' /\ CollectiblesKept(id)
          /\ Collectibles'[id].lessor = Collectibles[id].lessor
      BY <1>1, <2>2, SetRentableEffect
    <3> QED
      BY <1>1, <3>1, <3>2, OwnersStay DEF CollectiblesKept, Exists
  <2> QED
    BY <2>1, <2>2
<1>5. ASSUME NEW sender \in AccountId, NEW id \in CollectibleId,
             NEW blocks \in Blocks, NEW recurring \in BOOLEAN,
             Rent(sender, id, blocks, recurring)
      PROVE  OwnersAreIndexed'
  <2>1. NewLessee(id, sender) /\ UNCHANGED LessorCollectibles
    BY <1>1, <1>5, RentLessee DEF Rent
  <2> QED
    BY <1>3, <2>1
<1>6. CASE Call
  BY <1>1, <1>2, <1>4, <1>5, <1>6, MintIndexed, BurnIndexed
     DEF Call, CallBy, RentSpins, SetRecurring, ExtendRent, ExtendRentSpins,
         EquipCollectible, UnequipCollectible, storage
<1>7. ASSUME NEW id \in CollectibleId, NEW lessee \in AccountId,
             Processing(id, lessee), RemoveLessee(id, lessee)
      PROVE  OwnersAreIndexed'
  <2>1. NewLessee(id, None) /\ UNCHANGED LessorCollectibles
    BY <1>1, <1>7, RemovedLessee DEF RemoveLessee
  <2> QED
    BY <1>3, <2>1
<1>8. CASE ProcessRental
  BY <1>2, <1>7, <1>8
     DEF ProcessRental, EndRental, CancelUnpaidRental, RenewRental, RenewalSpins, storage
<1>9. CASE BeginBlock \/ FinishRentals \/ OtherPallets \/ UNCHANGED vars
  BY <1>2, <1>9
     DEF BeginBlock, FinishRentals, OtherPallets, BalancesTransfer, ChargeFee, storage, vars
<1> QED
  BY <1>6, <1>8, <1>9 DEF Next, OnInitialize

LEMMA NextOwnership ==
  ASSUME OwnershipInv, [Next]_vars
  PROVE  OwnershipInv'
<1>1. RentalInv' /\ TypeOK'
  BY NextInv DEF OwnershipInv, RentalInv
<1>2. ASSUME NEW i \in CollectibleId PROVE ListsKept(i)
  <2>1. CASE Call
    BY <2>1, MintKeeps, BurnKeeps, SetRentableKeeps, RentKeeps, SetUnrentableKeeps,
       EquipKeeps, UnequipKeeps, UntouchedKeeps
       DEF Call, CallBy, RentSpins, SetRecurring, ExtendRent, ExtendRentSpins, storage
  <2>2. CASE ProcessRental
    BY <2>2, RemoveLesseeKeeps, UntouchedKeeps
       DEF ProcessRental, EndRental, CancelUnpaidRental, RenewRental, RenewalSpins, storage
  <2>3. CASE BeginBlock \/ FinishRentals \/ OtherPallets \/ UNCHANGED vars
    BY <2>3, UntouchedKeeps
       DEF BeginBlock, FinishRentals, OtherPallets, BalancesTransfer, ChargeFee,
           storage, vars
  <2> QED
    BY <2>1, <2>2, <2>3 DEF Next, OnInitialize
<1>3. EquippedByParties' /\ OfferedIsFree'
  BY <1>1, <1>2, ListsNext DEF ListsKept
<1> QED
  BY <1>1, <1>3, NextIndexed DEF OwnershipInv

LEMMA InitOwnership == Init => OwnershipInv
<1> SUFFICES ASSUME Init PROVE OwnershipInv
  OBVIOUS
<1>1. Range(<<>>) = {}
  BY DEF Range
<1>2. OwnersAreIndexed
  BY <1>1 DEF Init, OwnersAreIndexed, Exists
<1>3. EquippedByParties /\ OfferedIsFree
  BY <1>1 DEF Init, EquippedByParties, OfferedIsFree, Exists
<1> QED
  BY <1>2, <1>3, InitInv DEF OwnershipInv

\* Owners, equipment and offers agree with Collectibles in every reachable state.
THEOREM OwnershipInvariant == Spec => []OwnershipInv
  BY InitOwnership, NextOwnership, PTL DEF Spec

\* An account's list is what it owns, each collectible once: mint and burn keep
\* LessorCollectibles and Collectibles together.
THEOREM OwnersIndexed == Spec => []OwnersAreIndexed
<1>1. OwnershipInv => OwnersAreIndexed
  BY DEF OwnershipInv
<1> QED
  BY <1>1, OwnershipInvariant, PTL

\* Nobody has a collectible equipped that it neither owns nor rents: burn and the
\* end of a rental take it away from the one who loses it.
THEOREM PartiesEquip == Spec => []EquippedByParties
<1>1. OwnershipInv => EquippedByParties
  BY DEF OwnershipInv
<1> QED
  BY <1>1, OwnershipInvariant, PTL

\* What is offered is not equipped by its lessor and can be found in the list:
\* set_rentable unequips, equip_collectible refuses what is rentable, and
\* set_unrentable takes away exactly what it withdraws.
THEOREM OffersAreFree == Spec => []OfferedIsFree
<1>1. OwnershipInv => OfferedIsFree
  BY DEF OwnershipInv
<1> QED
  BY <1>1, OwnershipInvariant, PTL

--------------------------------------------------------------------------------
\* The terms of a rental

Terms == {"lessor", "price_per_block", "minimum_rental_period", "maximum_rental_period"}

\* What TermsHoldWhileRented says of one collectible and one step.
TermsHold(id) ==
    Rented(id) =>
        /\ Exists(id)'
        /\ \A term \in Terms : Collectibles'[id][term] = Collectibles[id][term]

\* A rented collectible is replaced by one that differs in whether it is rentable
\* or in its lessee.
LEMMA SameTerms ==
  ASSUME TypeOK, NEW id \in CollectibleId, Exists(id),
         \/ Collectibles'[id] = Collectibles[id]
         \/ Collectibles'[id] = [Collectibles[id] EXCEPT !.rentable = FALSE]
         \/ \E a \in AccountId \cup {None} :
                Collectibles'[id] = [Collectibles[id] EXCEPT !.lessee = a]
  PROVE  TermsHold(id)
<1>1. PICK c \in Collectible : c = Collectibles[id] /\ c # None
  BY DEF TypeOK, Exists
<1>2. PICK d : d = Collectibles'[id]
  OBVIOUS
<1>3. /\ d \in Collectible
      /\ d["lessor"] = c["lessor"]
      /\ d["price_per_block"] = c["price_per_block"]
      /\ d["minimum_rental_period"] = c["minimum_rental_period"]
      /\ d["maximum_rental_period"] = c["maximum_rental_period"]
  <2>1. CASE d = c
    BY <2>1
  <2>2. CASE d = [c EXCEPT !.rentable = FALSE]
    BY <2>2 DEF Collectible
  <2>3. ASSUME NEW a \in AccountId \cup {None}, d = [c EXCEPT !.lessee = a]
        PROVE  /\ d \in Collectible
               /\ d["lessor"] = c["lessor"]
               /\ d["price_per_block"] = c["price_per_block"]
               /\ d["minimum_rental_period"] = c["minimum_rental_period"]
               /\ d["maximum_rental_period"] = c["maximum_rental_period"]
    BY <2>3 DEF Collectible
  <2> QED
    BY <1>1, <1>2, <2>1, <2>2, <2>3
<1>4. d # None
  BY <1>3, NoneAssumption
<1> QED
  BY <1>1, <1>2, <1>3, <1>4 DEF TermsHold, Terms, Exists

LEMMA NextTerms ==
  ASSUME RentalInv, [Next]_vars, NEW i \in CollectibleId
  PROVE  TermsHold(i)
<1> SUFFICES ASSUME Exists(i), Collectibles[i].lessee # None
             PROVE  TermsHold(i)
  BY DEF TermsHold, Rented
<1>1. TypeOK
  BY DEF RentalInv
<1>2. ASSUME Collectibles'[i] = Collectibles[i] PROVE TermsHold(i)
  BY <1>1, <1>2, SameTerms
<1>3. ASSUME NEW sender \in AccountId, NEW id \in CollectibleId
      PROVE  /\ Mint(sender, id) => TermsHold(i)
             /\ Burn(sender, id) => TermsHold(i)
             /\ SetUnrentable(sender, id) => TermsHold(i)
             /\ \A price \in Prices, minimum, maximum \in Periods :
                    SetRentable(sender, id, price, minimum, maximum) => TermsHold(i)
             /\ \A blocks \in Blocks, recurring \in BOOLEAN :
                    Rent(sender, id, blocks, recurring) => TermsHold(i)
  <2>1. ASSUME Mint(sender, id) PROVE TermsHold(i)
    BY <1>1, <1>2, <2>1, MintEffect DEF CollectiblesKept
  <2>2. ASSUME Burn(sender, id) PROVE TermsHold(i)
    BY <1>1, <1>2, <2>2, BurnEffect DEF CollectiblesKept
  <2>3. ASSUME SetUnrentable(sender, id) PROVE TermsHold(i)
    BY <1>1, <1>2, <2>3, SetUnrentableEffect, SameTerms DEF CollectiblesKept
  <2>4. ASSUME NEW price \in Prices, NEW minimum \in Periods, NEW maximum \in Periods,
               SetRentable(sender, id, price, minimum, maximum)
        PROVE  TermsHold(i)
    <3>1. Collectibles[id].lessee = None /\ CollectiblesKept(id)
      BY <1>1, <2>4, SetRentableEffect
    <3> QED
      BY <1>2, <3>1 DEF CollectiblesKept
  <2>5. ASSUME NEW blocks \in Blocks, NEW recurring \in BOOLEAN,
               Rent(sender, id, blocks, recurring)
        PROVE  TermsHold(i)
    <3>1. Collectibles[id].lessee = None /\ NewLessee(id, sender)
      BY <1>1, <2>5, RentLessee
    <3> QED
      BY <1>2, <3>1 DEF NewLessee, CollectiblesKept
  <2> QED
    BY <2>1, <2>2, <2>3, <2>4, <2>5
<1>4. CASE Call
  BY <1>2, <1>3, <1>4
     DEF Call, CallBy, RentSpins, SetRecurring, ExtendRent, ExtendRentSpins,
         EquipCollectible, UnequipCollectible, storage
<1>5. ASSUME NEW id \in CollectibleId, NEW lessee \in AccountId,
             Processing(id, lessee), RemoveLessee(id, lessee)
      PROVE  TermsHold(i)
  <2>1. NewLessee(id, None)
    BY <1>5, RemovedLessee
  <2> QED
    BY <1>1, <1>2, <2>1, SameTerms DEF NewLessee, CollectiblesKept
<1>6. CASE ProcessRental
  BY <1>2, <1>5, <1>6
     DEF ProcessRental, EndRental, CancelUnpaidRental, RenewRental, RenewalSpins, storage
<1>7. CASE BeginBlock \/ FinishRentals \/ OtherPallets \/ UNCHANGED vars
  BY <1>2, <1>7
     DEF BeginBlock, FinishRentals, OtherPallets, BalancesTransfer, ChargeFee,
         storage, vars
<1> QED
  BY <1>4, <1>6, <1>7 DEF Next, OnInitialize

\* No call changes the lessor, the price or the bounds of a collectible while it
\* is rented, and none burns it: the lessee has what it agreed to.
THEOREM TermsAreKept == Spec => TermsHoldWhileRented
<1>1. RentalInv /\ [Next]_vars => [\A id \in CollectibleId : TermsHold(id)]_vars
  BY NextTerms
<1> QED
  BY <1>1, RentalInvariant, PTL DEF Spec, TermsHoldWhileRented, TermsHold, Terms

--------------------------------------------------------------------------------
\* A collectible that its lessor has withdrawn

\* While it is rented it stays withdrawn, and with its lessee: set_rentable, rent
\* and burn ask for a vacant one.
LEMMA StaysWithdrawn ==
  ASSUME RentalInv, [Next]_vars, NEW i \in CollectibleId,
         Rented(i), ~Collectibles[i].rentable, Rented(i)'
  PROVE  /\ ~Collectibles'[i].rentable
         /\ Collectibles'[i].lessee = Collectibles[i].lessee
<1>1. TypeOK /\ Exists(i) /\ Collectibles[i].lessee # None
      /\ Collectibles'[i].lessee # None
  BY DEF RentalInv, Rented
<1> DEFINE Stays == /\ ~Collectibles'[i].rentable
                    /\ Collectibles'[i].lessee = Collectibles[i].lessee
<1> SUFFICES Stays
  BY DEF Stays
<1> HIDE DEF Stays
<1>2. ASSUME Collectibles'[i] = Collectibles[i] PROVE Stays
  BY <1>2 DEF Stays
<1>3. ASSUME NEW sender \in AccountId, NEW id \in CollectibleId
      PROVE  /\ Mint(sender, id) => Stays
             /\ Burn(sender, id) => Stays
             /\ SetUnrentable(sender, id) => Stays
             /\ \A price \in Prices, minimum, maximum \in Periods :
                    SetRentable(sender, id, price, minimum, maximum) => Stays
             /\ \A blocks \in Blocks, recurring \in BOOLEAN :
                    Rent(sender, id, blocks, recurring) => Stays
  <2>1. ASSUME Mint(sender, id) PROVE Stays
    BY <1>1, <1>2, <2>1, MintEffect DEF CollectiblesKept
  <2>2. ASSUME Burn(sender, id) PROVE Stays
    BY <1>1, <1>2, <2>2, BurnEffect DEF CollectiblesKept
  <2>3. ASSUME SetUnrentable(sender, id) PROVE Stays
    BY <1>1, <1>2, <2>3, SetUnrentableEffect DEF CollectiblesKept, Stays
  <2>4. ASSUME NEW price \in Prices, NEW minimum \in Periods, NEW maximum \in Periods,
               SetRentable(sender, id, price, minimum, maximum)
        PROVE  Stays
    <3>1. Collectibles[id].lessee = None /\ CollectiblesKept(id)
      BY <1>1, <2>4, SetRentableEffect
    <3> QED
      BY <1>1, <1>2, <3>1 DEF CollectiblesKept
  <2>5. ASSUME NEW blocks \in Blocks, NEW recurring \in BOOLEAN,
               Rent(sender, id, blocks, recurring)
        PROVE  Stays
    <3>1. Collectibles[id].lessee = None /\ NewLessee(id, sender)
      BY <1>1, <2>5, RentLessee
    <3> QED
      BY <1>1, <1>2, <3>1 DEF NewLessee, CollectiblesKept
  <2> QED
    BY <2>1, <2>2, <2>3, <2>4, <2>5
<1>4. CASE Call
  BY <1>2, <1>3, <1>4
     DEF Call, CallBy, RentSpins, SetRecurring, ExtendRent, ExtendRentSpins,
         EquipCollectible, UnequipCollectible, storage
<1>5. ASSUME NEW id \in CollectibleId, NEW lessee \in AccountId,
             Processing(id, lessee), RemoveLessee(id, lessee)
      PROVE  Stays
  <2>1. NewLessee(id, None)
    BY <1>5, RemovedLessee
  <2> QED
    BY <1>1, <1>2, <2>1 DEF NewLessee, CollectiblesKept
<1>6. CASE ProcessRental
  BY <1>2, <1>5, <1>6
     DEF ProcessRental, EndRental, CancelUnpaidRental, RenewRental, RenewalSpins, storage
<1>7. CASE BeginBlock \/ FinishRentals \/ OtherPallets \/ UNCHANGED vars
  BY <1>2, <1>7
     DEF BeginBlock, FinishRentals, OtherPallets, BalancesTransfer, ChargeFee,
         storage, vars
<1> QED
  BY <1>4, <1>6, <1>7 DEF Next, OnInitialize

\* An extension moves a rental to the block it asks for, which has been compared
\* with the maximum, or to the one after the current block.
LEMMA ExtensionIsBounded ==
  ASSUME RentalInv, NEW sender \in AccountId, NEW id \in CollectibleId,
         NEW blocks \in Blocks, ExtendRent(sender, id, blocks)
  PROVE  \/ LesseeCollectibles'[sender][id].next_rent_block
                <= Collectibles[id].maximum_rental_period
         \/ LesseeCollectibles'[sender][id].next_rent_block = FollowingBlock
<1>1. /\ TypeOK /\ LesseeCollectibles[sender][id] # None
      /\ WithinMaximum(sender, id, blocks)
  BY DEF RentalInv, ExtendRent, MayExtend
<1>2. PICK due \in BlockNumber : due = LesseeCollectibles[sender][id].next_rent_block
  BY <1>1, RentalTypes DEF RentalPeriodConfig
<1>3. RequestedBlock(due, blocks) \in BlockNumber /\ FollowingBlock \in BlockNumber
  BY SearchedBlocks, InputsAssumption
<1>4. PICK c \in BlockNumber :
          /\ c = AvailableBlock(WithoutRental(sender, id), due, blocks)
          /\ c = RequestedBlock(due, blocks) \/ c = FollowingBlock
  BY <1>3 DEF AvailableBlock
<1>5. LesseeCollectibles' = [LesseeCollectibles EXCEPT ![sender][id].next_rent_block = c]
  BY <1>2, <1>4 DEF ExtendRent
<1>6. LesseeCollectibles'[sender][id].next_rent_block = c
  BY <1>1, <1>5, MovedRental DEF Moved
<1>7. RequestedBlock(due, blocks) <= Collectibles[id].maximum_rental_period
  <2>1. due + blocks = blocks + due
    BY InputsAssumption, SizesAssumption DEF U32, BlockNumber
  <2> QED
    BY <1>1, <1>2, <2>1 DEF RequestedBlock, WithinMaximum
<1> QED
  BY <1>4, <1>6, <1>7

\* The block after the current one is not later than a block that is still to come.
LEMMA FollowingIsSoon ==
  ASSUME block_number \in BlockNumber, NEW due \in BlockNumber, due > block_number
  PROVE  FollowingBlock <= due
<1>1. /\ block_number \in Nat /\ due \in Nat /\ block_number + 1 \in Nat
      /\ due >= block_number + 1 /\ due < U32Size
  BY SizesAssumption DEF BlockNumber, U32
<1>2. (block_number + 1) % U32Size = block_number + 1
  BY <1>1, SizesAssumption, SmallMod
<1> QED
  BY <1>1, <1>2 DEF FollowingBlock

\* Of a rental that goes on, only an extension changes the block it is due in: the
\* hook does not renew what has been withdrawn.
LEMMA WithdrawnStaysDue ==
  ASSUME RentalInv, [Next]_vars,
         NEW a \in AccountId, NEW i \in CollectibleId, ~Collectibles[i].rentable,
         LesseeCollectibles[a][i] # None, LesseeCollectibles'[a][i] # None
  PROVE  \/ LesseeCollectibles'[a][i].next_rent_block =
                LesseeCollectibles[a][i].next_rent_block
         \/ LesseeCollectibles'[a][i].next_rent_block
                <= Collectibles[i].maximum_rental_period
         \/ /\ phase = "extrinsics"
            /\ LesseeCollectibles'[a][i].next_rent_block = FollowingBlock
<1> DEFINE Bounded == \/ LesseeCollectibles'[a][i].next_rent_block =
                             LesseeCollectibles[a][i].next_rent_block
                      \/ LesseeCollectibles'[a][i].next_rent_block
                             <= Collectibles[i].maximum_rental_period
                      \/ /\ phase = "extrinsics"
                         /\ LesseeCollectibles'[a][i].next_rent_block = FollowingBlock
<1> SUFFICES Bounded
  BY DEF Bounded
<1> HIDE DEF Bounded
<1>1. TypeOK /\ Collectibles[i].lessee = a
  BY DEF RentalInv, RentalsHaveOneLessee
<1>2. ASSUME LesseeCollectibles'[a][i] = LesseeCollectibles[a][i] PROVE Bounded
  BY <1>2 DEF Bounded
<1>3. ASSUME NEW lessee \in AccountId, NEW id \in CollectibleId,
             OthersKept(lessee, id), lessee # a \/ id # i
      PROVE  Bounded
  BY <1>2, <1>3 DEF OthersKept
<1>4. CASE Call
  <2> SUFFICES ASSUME NEW sender \in AccountId, NEW id \in CollectibleId,
                      \/ \E blocks \in Blocks, recurring \in BOOLEAN :
                             Rent(sender, id, blocks, recurring)
                      \/ \E recurring \in BOOLEAN : SetRecurring(sender, id, recurring)
                      \/ \E blocks \in Blocks : ExtendRent(sender, id, blocks)
               PROVE  Bounded
    BY <1>2, <1>4 DEF Call, CallBy, Mint, Burn, SetRentable, SetUnrentable, RentSpins,
                      ExtendRentSpins, EquipCollectible, UnequipCollectible, storage
  <2>1. ASSUME NEW blocks \in Blocks, NEW recurring \in BOOLEAN,
               Rent(sender, id, blocks, recurring)
        PROVE  Bounded
    <3>1. OthersKept(sender, id)
      BY <1>1, <2>1, RentEffect DEF RentMade
    <3>2. id # i
      BY <1>1, <2>1, NoneAssumption DEF Rent, MayRent, NotAParty
    <3> QED
      BY <1>3, <3>1, <3>2
  <2>2. ASSUME NEW recurring \in BOOLEAN, SetRecurring(sender, id, recurring)
        PROVE  Bounded
    <3>1. /\ OthersKept(sender, id)
          /\ LesseeCollectibles'[sender][id].next_rent_block =
                 LesseeCollectibles[sender][id].next_rent_block
      BY <1>1, <2>2, SetRecurringEffect
    <3> QED
      BY <1>3, <3>1 DEF Bounded
  <2>3. ASSUME NEW blocks \in Blocks, ExtendRent(sender, id, blocks) PROVE Bounded
    <3>1. OthersKept(sender, id)
      BY <1>1, <2>3, ExtendRentEffect DEF Extended, Moved
    <3>2. /\ phase = "extrinsics"
          /\ \/ LesseeCollectibles'[sender][id].next_rent_block
                    <= Collectibles[id].maximum_rental_period
             \/ LesseeCollectibles'[sender][id].next_rent_block = FollowingBlock
      BY <2>3, ExtensionIsBounded DEF ExtendRent, MayExtend, InCall
    <3> QED
      BY <1>3, <3>1, <3>2 DEF Bounded
  <2> QED
    BY <2>1, <2>2, <2>3
<1>5. ASSUME NEW lessee \in AccountId, NEW id \in CollectibleId, RemoveLessee(id, lessee)
      PROVE  Bounded
  <2>1. LesseeCollectibles'[lessee][id] = None /\ OthersKept(lessee, id)
    BY <1>1, <1>5, RemoveLesseeEffect
  <2> QED
    BY <1>3, <2>1
<1>6. ASSUME NEW lessee \in AccountId, NEW id \in CollectibleId, RenewRental(id, lessee)
      PROVE  Bounded
  <2>1. OthersKept(lessee, id)
    BY <1>1, <1>6, RenewRentalEffect DEF Renewed, Moved
  <2>2. id # i
    BY <1>6 DEF RenewRental, Renews, Continues
  <2> QED
    BY <1>3, <2>1, <2>2
<1>7. CASE ProcessRental
  BY <1>2, <1>5, <1>6, <1>7
     DEF ProcessRental, EndRental, CancelUnpaidRental, RenewalSpins, storage
<1>8. CASE BeginBlock \/ FinishRentals \/ OtherPallets \/ UNCHANGED vars
  BY <1>2, <1>8
     DEF BeginBlock, FinishRentals, OtherPallets, BalancesTransfer, ChargeFee,
         storage, vars
<1> QED
  BY <1>4, <1>7, <1>8 DEF Next, OnInitialize

\* WithdrawnRentalIsBounded, whatever the parameters: a lessor gets a withdrawn
\* collectible back by the block that the rental was due in when it was withdrawn
\* or, if that is later, by the block numbered as its maximum.  No call of the lessee
\* moves the end beyond both, and a full block brings it forward.
THEOREM WithdrawnComesBack == Spec => WithdrawnRentalIsBounded
<1> DEFINE Bounded(id) ==
              Rented(id) /\ ~Collectibles[id].rentable /\ Rented(id)' =>
                 /\ ~Collectibles'[id].rentable
                 /\ Collectibles'[id].lessee = Collectibles[id].lessee
                 /\ \/ Lease(id)'.next_rent_block <= Lease(id).next_rent_block
                    \/ Lease(id)'.next_rent_block <= Collectibles[id].maximum_rental_period
                    \/ ~Ahead(id) /\ Lease(id)'.next_rent_block = FollowingBlock
<1>1. ASSUME RentalInv, [Next]_vars, NEW id \in CollectibleId PROVE Bounded(id)
  <2> SUFFICES ASSUME Rented(id), ~Collectibles[id].rentable, Rented(id)'
               PROVE  Bounded(id)
    OBVIOUS
  <2>1. /\ ~Collectibles'[id].rentable
        /\ Collectibles'[id].lessee = Collectibles[id].lessee
    BY <1>1, StaysWithdrawn
  <2>2. RentalInv'
    BY <1>1, NextInv
  <2>3. PICK a \in AccountId : a = Collectibles[id].lessee
    BY <1>1 DEF Rented, Exists, RentalInv, TypeOK, Collectible
  <2>4. LesseeCollectibles[a][id] # None /\ LesseeCollectibles'[a][id] # None
    BY <1>1, <2>1, <2>2, <2>3 DEF RentalInv, RentalsHaveOneLessee, Rented
  <2>5. Lease(id) = LesseeCollectibles[a][id] /\ Lease(id)' = LesseeCollectibles'[a][id]
    BY <2>1, <2>3 DEF Lease, Rented
  <2>6. block_number \in BlockNumber /\ Lease(id).next_rent_block \in BlockNumber
    BY <1>1, <2>4, <2>5, RentalTypes DEF RentalInv, TypeOK, RentalPeriodConfig
  <2>7. CASE Lease(id)'.next_rent_block = Lease(id).next_rent_block
    <3>1. Lease(id)'.next_rent_block <= Lease(id).next_rent_block
      BY <2>6, <2>7, SizesAssumption DEF BlockNumber, U32
    <3> QED
      BY <2>1, <3>1
  <2>8. CASE Lease(id)'.next_rent_block <= Collectibles[id].maximum_rental_period
    BY <2>1, <2>8
  <2>9. CASE phase = "extrinsics" /\ Lease(id)'.next_rent_block = FollowingBlock
    <3>1. Ahead(id) => FollowingBlock <= Lease(id).next_rent_block
      BY <2>6, <2>9, FollowingIsSoon DEF Ahead
    <3> QED
      BY <2>1, <2>9, <3>1
  <2> QED
    BY <1>1, <2>4, <2>5, <2>7, <2>8, <2>9, WithdrawnStaysDue
<1>2. RentalInv /\ [Next]_vars => [\A id \in CollectibleId : Bounded(id)]_vars
  BY <1>1
<1> QED
  BY <1>2, RentalInvariant, PTL DEF Spec, WithdrawnRentalIsBounded

================================================================================
