------------------------------- MODULE RentProofs -------------------------------
(***************************************************************************)
(* Theorems about the rent pallet, for every value of its parameters: any  *)
(* accounts and collectibles, capacities, prices, periods (zero and those  *)
(* that wrap included) and widths of the integers.                         *)
(***************************************************************************)
EXTENDS RentProperties, FiniteSetTheorems, SequenceTheorems, WellFoundedInduction, TLAPS

--------------------------------------------------------------------------------
\* Lemmas about the bounded vectors

\* The naturals are well ordered.
LEMMA LeastElement ==
    ASSUME NEW T \in SUBSET Nat, T # {}
    PROVE  \E m \in T : \A k \in T : m <= k
<1> DEFINE R == OpToRel(<, Nat)
<1>1. IsWellFoundedOn(R, Nat)
  BY NatLessThanWellFounded
<1>2. \A x, y \in Nat : <<y, x>> \in R <=> y < x
  BY DEF OpToRel
<1> HIDE DEF R
<1>3. PICK m \in T : \A y \in T : <<y, m>> \notin R
  BY <1>1, WFMin
<1>4. \A y \in T : ~(y < m)
  BY <1>2, <1>3
<1>5. \A y \in T : m <= y
  BY <1>4
<1>. QED BY <1>5

\* Every rank up to the number of positions is the rank of one of them.
LEMMA NthProperties ==
    ASSUME NEW n \in Nat, NEW P \in SUBSET (1..n), NEW j \in 1..Cardinality(P)
    PROVE  /\ Nth(P, j) \in P
           /\ Cardinality({k \in P : k <= Nth(P, j)}) = j
<1> DEFINE Upto(i) == {k \in P : k <= i}
           Reach   == {i \in 1..n : Cardinality(Upto(i)) >= j}
<1>1. \A k \in P : k \in Nat /\ 1 <= k /\ k <= n
  <2>1. \A k \in P : k \in 1..n
    OBVIOUS
  <2>. QED BY <2>1
<1>2. IsFiniteSet(P)
  <2>1. IsFiniteSet(1..n)
    BY FS_Interval
  <2>. QED BY <2>1, FS_Subset
<1>3. \A i, k : k \in Upto(i) <=> k \in P /\ k <= i
  OBVIOUS
<1>4. \A i \in 1..n : i \in Reach <=> Cardinality(Upto(i)) >= j
  OBVIOUS
<1>5. Reach \in SUBSET Nat /\ Reach \in SUBSET (1..n)
  OBVIOUS
<1> HIDE DEF Upto, Reach
<1>6. \A i : IsFiniteSet(Upto(i)) /\ Cardinality(Upto(i)) \in Nat
  <2>1. \A i : Upto(i) \in SUBSET P
    BY <1>3
  <2>2. \A i : IsFiniteSet(Upto(i))
    BY <2>1, <1>2, FS_Subset
  <2>. QED BY <2>2, FS_CardinalityType
<1>7. Upto(n) = P /\ Upto(0) = {}
  <2>1. \A k : k \in Upto(n) <=> k \in P
    BY <1>1, <1>3
  <2>2. ASSUME NEW k \in Upto(0)
        PROVE  FALSE
    <3>1. k \in P /\ k <= 0
      BY <1>3
    <3>. QED BY <3>1, <1>1
  <2>. QED BY <2>1, <2>2
<1>8. Cardinality(P) \in Nat /\ j \in Nat /\ 1 <= j /\ j <= Cardinality(P)
  <2>1. Cardinality(P) \in Nat
    BY <1>2, FS_CardinalityType
  <2>. QED BY <2>1
<1>9. Cardinality(Upto(0)) = 0
  BY <1>7, FS_EmptySet
<1>10. n # 0
  BY <1>7, <1>8, <1>9
<1>11. n \in Reach
  BY <1>4, <1>7, <1>8, <1>10
<1>12. PICK i \in Reach : \A k \in Reach : i <= k
  BY <1>5, <1>11, LeastElement
<1>13. i \in Nat /\ 1 <= i /\ i <= n /\ Cardinality(Upto(i)) >= j
  <2>1. i \in 1..n
    BY <1>5
  <2>. QED BY <2>1, <1>4
<1>14. Cardinality(Upto(i - 1)) < j
  <2>1. CASE i = 1
    BY <2>1, <1>8, <1>9
  <2>2. CASE i # 1
    <3>1. i - 1 \in 1..n /\ ~(i <= i - 1)
      BY <2>2, <1>13
    <3>2. i - 1 \notin Reach
      BY <3>1, <1>12
    <3>3. ~(Cardinality(Upto(i - 1)) >= j)
      BY <3>1, <3>2, <1>4
    <3>. QED BY <3>3, <1>6, <1>8
  <2>. QED BY <2>1, <2>2
<1>15. \A k \in P : k <= i <=> k <= i - 1 \/ k = i
  BY <1>1, <1>13
<1>16. i \in P
  <2>1. ASSUME i \notin P
        PROVE  Upto(i) = Upto(i - 1)
    BY <2>1, <1>3, <1>15
  <2>. QED BY <2>1, <1>13, <1>14, <1>6, <1>8
<1>17. Cardinality(Upto(i)) = j
  <2>1. ~(i <= i - 1)
    BY <1>13
  <2>2. Upto(i) = Upto(i - 1) \cup {i} /\ i \notin Upto(i - 1)
    BY <2>1, <1>3, <1>15, <1>16, <1>13
  <2>3. Cardinality(Upto(i)) = Cardinality(Upto(i - 1)) + 1
    BY <2>2, <1>6, FS_AddElement
  <2>. QED BY <2>3, <1>13, <1>14, <1>6, <1>8
<1>18. \E k \in P : Cardinality({l \in P : l <= k}) = j
  BY <1>16, <1>17 DEF Upto
<1>. QED BY <1>18 DEF Nth

\* Retain gives a vector that is no longer, holds exactly the elements outside
\* drop, and takes the elements at different places from different places.
LEMMA RetainProperties ==
    ASSUME NEW S, NEW v \in Seq(S), NEW drop
    PROVE  /\ Retain(v, drop) \in Seq(S)
           /\ Len(Retain(v, drop)) <= Len(v)
           /\ Range(Retain(v, drop)) = Range(v) \ drop
           /\ \A i, j \in DOMAIN Retain(v, drop) :
                 i # j => \E p, q \in DOMAIN v :
                             /\ p # q
                             /\ Retain(v, drop)[i] = v[p]
                             /\ Retain(v, drop)[j] = v[q]
<1> DEFINE n == Len(v)
           P == Kept(v, drop)
           c == Cardinality(P)
           r == Retain(v, drop)
<1>1. n \in Nat /\ DOMAIN v = 1..n /\ \A i \in 1..n : v[i] \in S
  BY LenProperties, ElementOfSeq
<1>2. P \in SUBSET (1..n) /\ \A i \in P : i \in 1..n /\ v[i] \notin drop
  BY <1>1 DEF Kept
<1>3. c \in Nat /\ c <= n /\ IsFiniteSet(P)
  <2> HIDE DEF n
  <2>1. IsFiniteSet(1..n) /\ Cardinality(1..n) = n
    <3>1. /\ IsFiniteSet(1..n)
          /\ Cardinality(1..n) = IF 1 > n THEN 0 ELSE n - 1 + 1
      BY <1>1, FS_Interval
    <3>. QED BY <3>1, <1>1
  <2>2. IsFiniteSet(P) /\ c <= Cardinality(1..n)
    BY <2>1, <1>2, FS_Subset
  <2>. QED BY <2>1, <2>2, FS_CardinalityType
<1>4. \A j \in 1..c : /\ Nth(P, j) \in P
                      /\ Cardinality({k \in P : k <= Nth(P, j)}) = j
  <2> HIDE DEF n, P
  <2>. QED BY <1>1, <1>2, NthProperties
<1>5. r = [j \in 1..c |-> v[Nth(P, j)]]
  BY DEF Retain
<1>6. r \in [1..c -> S]
  BY <1>1, <1>2, <1>4, <1>5
<1>7. r \in Seq(S) /\ Len(r) = c /\ DOMAIN r = 1..c
  <2> HIDE DEF r
  <2>1. r \in Seq(S)
    BY <1>3, <1>6, SeqDef
  <2>2. DOMAIN r = 1..c /\ DOMAIN r = 1..Len(r) /\ Len(r) \in Nat
    BY <1>6, <2>1, LenProperties
  <2>3. Len(r) = c
    BY <2>2, <1>3
  <2>. QED BY <2>1, <2>2, <2>3
<1>8. Range(r) \subseteq Range(v) \ drop
  <2>1. \A j \in 1..c : r[j] = v[Nth(P, j)] /\ r[j] \notin drop
    BY <1>2, <1>4, <1>5
  <2> HIDE DEF r
  <2>. QED BY <2>1, <1>1, <1>2, <1>4, <1>7 DEF Range
<1>9. Range(v) \ drop \subseteq Range(r)
  <2> SUFFICES ASSUME NEW i \in P
               PROVE  \E j \in 1..c : r[j] = v[i]
    BY <1>1, <1>7 DEF Range, Kept
  <2> DEFINE Upto(k) == {l \in P : l <= k}
             j == Cardinality(Upto(i))
             m == Nth(P, j)
  <2>1. \A k, l : l \in Upto(k) <=> l \in P /\ l <= k
    OBVIOUS
  <2>2. \A k \in P : k \in Nat
    BY <1>1, <1>2
  <2>3. \A k : /\ Upto(k) \in SUBSET P /\ IsFiniteSet(Upto(k))
               /\ Cardinality(Upto(k)) \in Nat
               /\ Cardinality(Upto(k)) <= c
    <3>1. \A k : Upto(k) \in SUBSET P
      OBVIOUS
    <3> HIDE DEF Upto
    <3>. QED BY <3>1, <1>3, FS_Subset, FS_CardinalityType
  <2> HIDE DEF Upto
  <2>4. i \in Upto(i) /\ j # 0
    <3>1. i \in Upto(i)
      BY <2>1, <2>2
    <3>. QED BY <3>1, <2>3, FS_EmptySet
  <2>5. j \in 1..c
    BY <2>3, <2>4, <1>3
  <2>6. m \in P /\ Cardinality(Upto(m)) = j
    BY <2>5, <1>4 DEF Upto
  <2> HIDE DEF m
  <2>7. m = i
    <3>1. CASE m < i
      <4>1. Upto(m) \in SUBSET Upto(i) /\ i \notin Upto(m)
        BY <3>1, <2>1, <2>2, <2>6
      <4>2. Upto(m) = Upto(i)
        BY <4>1, <2>3, <2>6, FS_Subset
      <4>. QED BY <4>1, <4>2, <2>4
    <3>2. CASE i < m
      <4>1. Upto(i) \in SUBSET Upto(m) /\ m \in Upto(m) /\ m \notin Upto(i)
        BY <3>2, <2>1, <2>2, <2>6
      <4>2. Upto(i) = Upto(m)
        BY <4>1, <2>3, <2>6, FS_Subset
      <4>. QED BY <4>1, <4>2
    <3>. QED BY <3>1, <3>2, <2>2, <2>6
  <2>. QED BY <2>5, <2>7, <1>5 DEF m
<1>10. \A i, j \in 1..c : i # j => Nth(P, i) # Nth(P, j)
  BY <1>4
<1>11. \A i, j \in 1..c : i # j => \E p, q \in DOMAIN v :
                                     p # q /\ r[i] = v[p] /\ r[j] = v[q]
  <2> SUFFICES ASSUME NEW i \in 1..c, NEW j \in 1..c, i # j
               PROVE  \E p, q \in DOMAIN v : p # q /\ r[i] = v[p] /\ r[j] = v[q]
    OBVIOUS
  <2>1. r[i] = v[Nth(P, i)] /\ r[j] = v[Nth(P, j)]
    BY <1>5
  <2>2. Nth(P, i) \in DOMAIN v /\ Nth(P, j) \in DOMAIN v
    BY <1>1, <1>2, <1>4
  <2>. QED BY <2>1, <2>2, <1>10
<1>. QED BY <1>3, <1>7, <1>8, <1>9, <1>11

--------------------------------------------------------------------------------
\* Lemmas about the helpers of RentStorage

\* The remainder of the wrapping arithmetic is in the range of the type.
LEMMA ModRange ==
  ASSUME NEW x \in Int, NEW m \in Nat \ {0}
  PROVE  x % m \in 0 .. m - 1
  OBVIOUS

\* The block a rental is put into is a block number, and it has room there.
LEMMA AvailableBlockHasRoom ==
  ASSUME NEW pending,
         NEW start \in BlockNumber, NEW extra \in U32, block_number \in BlockNumber,
         SearchEnds(pending, start, extra)
  PROVE  /\ AvailableBlock(pending, start, extra) \in BlockNumber
         /\ HasRoomAt(pending, AvailableBlock(pending, start, extra))
<1>1. U32Size \in Nat \ {0}
  BY SizesAssumption
<1>2. start + extra \in Int /\ block_number + 1 \in Int
  BY <1>1 DEF BlockNumber, U32
<1>3. RequestedBlock(start, extra) \in BlockNumber
  BY <1>1, <1>2, ModRange DEF RequestedBlock, BlockNumber, U32
<1>4. FollowingBlock \in BlockNumber
  BY <1>1, <1>2, ModRange DEF FollowingBlock, BlockNumber, U32
<1> QED
  BY <1>3, <1>4 DEF SearchEnds, AvailableBlock

\* An element pushed where there is room keeps the vector within its capacity.
LEMMA PushKeepsCapacity ==
  ASSUME NEW S, NEW capacity \in Nat, NEW v \in BoundedVec(S, capacity), NEW x \in S,
         HasRoom(v, capacity)
  PROVE  Append(v, x) \in BoundedVec(S, capacity)
  BY DEF BoundedVec, HasRoom

\* What retain leaves is within the capacity.
LEMMA RetainKeepsCapacity ==
  ASSUME NEW S, NEW capacity \in Nat, NEW v \in BoundedVec(S, capacity), NEW drop
  PROVE  Retain(v, drop) \in BoundedVec(S, capacity)
<1>1. v \in Seq(S) /\ Len(v) <= capacity
  BY DEF BoundedVec
<1>2. Retain(v, drop) \in Seq(S) /\ Len(Retain(v, drop)) <= Len(v)
  BY <1>1, RetainProperties
<1>3. Len(v) \in Nat /\ Len(Retain(v, drop)) \in Nat
  BY <1>1, <1>2
<1> QED
  BY <1>1, <1>2, <1>3 DEF BoundedVec

\* The rest of a vector is within its capacity.
LEMMA TailKeepsCapacity ==
  ASSUME NEW S, NEW capacity \in Nat, NEW v \in BoundedVec(S, capacity), v # <<>>
  PROVE  Tail(v) \in BoundedVec(S, capacity)
<1>1. v \in Seq(S) /\ Len(v) <= capacity
  BY DEF BoundedVec
<1>2. Tail(v) \in Seq(S) /\ Len(Tail(v)) = Len(v) - 1
  BY <1>1
<1>3. Len(v) \in Nat
  BY <1>1
<1> QED
  BY <1>1, <1>2, <1>3 DEF BoundedVec

PendingType == [BlockNumber -> BoundedVec(PendingRental, MaximumRentablesPerBlock)]

LEMMA ScheduleType ==
  ASSUME NEW pending \in PendingType, NEW b \in BlockNumber,
         NEW id \in CollectibleId, NEW lessee \in AccountId,
         HasRoomAt(pending, b)
  PROVE  Schedule(pending, b, id, lessee) \in PendingType
<1>1. MaximumRentablesPerBlock \in Nat
  BY SizesAssumption
<1>2. pending[b] \in BoundedVec(PendingRental, MaximumRentablesPerBlock)
  BY DEF PendingType
<1>3. <<id, lessee>> \in PendingRental
  BY DEF PendingRental
<1>4. Append(pending[b], <<id, lessee>>)
          \in BoundedVec(PendingRental, MaximumRentablesPerBlock)
  BY <1>1, <1>2, <1>3, PushKeepsCapacity DEF HasRoomAt
<1> QED
  BY <1>4 DEF Schedule, PendingType

LEMMA UnscheduleType ==
  ASSUME NEW pending \in PendingType, NEW b \in BlockNumber, NEW id
  PROVE  Unschedule(pending, b, id) \in PendingType
<1>1. MaximumRentablesPerBlock \in Nat
  BY SizesAssumption
<1>2. pending[b] \in BoundedVec(PendingRental, MaximumRentablesPerBlock)
  BY DEF PendingType
<1>3. Retain(pending[b], {id} \X AccountId)
          \in BoundedVec(PendingRental, MaximumRentablesPerBlock)
  BY <1>1, <1>2, RetainKeepsCapacity
<1> QED
  BY <1>3 DEF Unschedule, PendingType

LEMMA UnequipType ==
  ASSUME AccountEquips \in [AccountId -> OwnedIds], NEW account \in AccountId, NEW id
  PROVE  Unequip(account, id) \in [AccountId -> OwnedIds]
<1>1. MaximumOwned \in Nat
  BY SizesAssumption
<1>2. Retain(AccountEquips[account], {id}) \in OwnedIds
  BY <1>1, RetainKeepsCapacity DEF OwnedIds
<1> QED
  BY <1>2 DEF Unequip

\* No transfer the pallet makes overdraws the payer.
LEMMA TransferType ==
  ASSUME free_balance \in [AccountId -> Nat],
         NEW from \in AccountId, NEW to \in AccountId, NEW amount \in Nat,
         CanTransfer(from, to, amount)
  PROVE  AfterTransfer(from, to, amount) \in [AccountId -> Nat]
<1>1. free_balance[from] >= amount
  BY DEF CanTransfer
<1>2. free_balance[from] - amount \in Nat
  BY <1>1
<1>3. free_balance[to] + amount \in Nat
  OBVIOUS
<1> QED
  BY <1>2, <1>3 DEF AfterTransfer

\* A price is an amount, also when the product wraps.
LEMMA RentPriceType ==
  ASSUME TypeOK, NEW id \in CollectibleId, Exists(id),
         Collectibles[id].price_per_block # None, NEW blocks \in U32
  PROVE  RentPrice(id, blocks) \in Nat
<1>1. Collectibles[id] \in Collectible
  BY DEF TypeOK, Exists
<1>2. Collectibles[id].price_per_block \in Balance
  BY <1>1 DEF Collectible
<1>3. BalanceSize \in Nat \ {0} /\ U32Size \in Nat \ {0}
  BY SizesAssumption
<1>4. Collectibles[id].price_per_block \in Int /\ blocks \in Int
  BY <1>2, <1>3 DEF Balance, U32
<1>5. Collectibles[id].price_per_block * blocks \in Int
  BY <1>4
<1>6. RentPrice(id, blocks) \in 0 .. BalanceSize - 1
  BY <1>3, <1>5, ModRange DEF RentPrice
<1> QED
  BY <1>3, <1>6

LEMMA ExtensionPriceType ==
  ASSUME TypeOK, NEW id \in CollectibleId, Exists(id),
         Collectibles[id].price_per_block # None, NEW blocks \in U32
  PROVE  ExtensionPrice(id, blocks) \in Nat
<1>1. Collectibles[id] \in Collectible
  BY DEF TypeOK, Exists
<1>2. Collectibles[id].price_per_block \in Balance
  BY <1>1 DEF Collectible
<1>3. BalanceSize \in Nat \ {0} /\ U32Size \in Nat \ {0}
  BY SizesAssumption
<1>4. Collectibles[id].price_per_block \in Int /\ blocks \in Int
  BY <1>2, <1>3 DEF Balance, U32
<1>5. blocks * Collectibles[id].price_per_block \in Int
  BY <1>4
<1>6. ExtensionPrice(id, blocks) \in 0 .. U32Size - 1
  BY <1>3, <1>5, ModRange DEF ExtensionPrice
<1> QED
  BY <1>3, <1>6

--------------------------------------------------------------------------------
\* Type correctness

\* What a call or a step of the hook needs to know of a rented collectible.
LEMMA RentalTypes ==
  ASSUME TypeOK, NEW id \in CollectibleId, NEW a \in AccountId
  PROVE  /\ Exists(id) => Collectibles[id] \in Collectible
         /\ LesseeCollectibles[a][id] # None =>
                LesseeCollectibles[a][id] \in RentalPeriodConfig
         /\ PendingRentals \in PendingType
  BY DEF TypeOK, Exists, PendingType

LEMMA InitType == Init => TypeOK
<1> SUFFICES ASSUME Init PROVE TypeOK
  OBVIOUS
<1>1. <<>> \in OwnedIds
  BY SizesAssumption DEF OwnedIds, BoundedVec
<1>2. <<>> \in BoundedVec(PendingRental, MaximumRentablesPerBlock)
  BY SizesAssumption DEF BoundedVec
<1>3. 1 \in BlockNumber
  BY InputsAssumption DEF BlockNumber
<1> QED
  BY <1>1, <1>2, <1>3, SizesAssumption DEF Init, TypeOK

\* The calls that change a collectible or the lists it is in.
LEMMA OwnerCallsType ==
  ASSUME TypeOK, NEW sender \in AccountId, NEW id \in CollectibleId
  PROVE  /\ Mint(sender, id) => TypeOK'
         /\ Burn(sender, id) => TypeOK'
         /\ SetUnrentable(sender, id) => TypeOK'
         /\ EquipCollectible(sender, id) => TypeOK'
         /\ UnequipCollectible(sender, id) => TypeOK'
<1> USE SizesAssumption
<1>0. Unequip(sender, id) \in [AccountId -> OwnedIds]
  BY UnequipType DEF TypeOK
<1>1. Retain(LessorCollectibles[sender], {id}) \in OwnedIds
  BY RetainKeepsCapacity DEF TypeOK, OwnedIds
<1>2. Retain(RentableCollectibles, {id}) \in OwnedIds
  BY RetainKeepsCapacity DEF TypeOK, OwnedIds
<1>3. ASSUME Mint(sender, id) PROVE TypeOK'
  <2>1. Append(LessorCollectibles[sender], id) \in OwnedIds
    BY <1>3, PushKeepsCapacity DEF Mint, NewCollectible, TypeOK, OwnedIds
  <2>2. Collectibles'[id] \in Collectible
    BY <1>3 DEF Mint, NewCollectible, TypeOK, Collectible
  <2>3. Collectibles' \in [CollectibleId -> Collectible \cup {None}]
    BY <1>3, <2>2 DEF Mint, NewCollectible, TypeOK
  <2> QED
    BY <1>3, <2>1, <2>3 DEF Mint, NewCollectible, TypeOK, clock
<1>4. ASSUME Burn(sender, id) PROVE TypeOK'
  BY <1>4, <1>0, <1>1 DEF Burn, TypeOK, clock
<1>5. ASSUME SetUnrentable(sender, id) PROVE TypeOK'
  <2>1. Collectibles[id] \in Collectible
    BY <1>5 DEF SetUnrentable, TypeOK, Exists
  <2>2. [Collectibles[id] EXCEPT !.rentable = FALSE] \in Collectible
    BY <2>1 DEF Collectible
  <2>3. Collectibles' \in [CollectibleId -> Collectible \cup {None}]
    BY <1>5, <2>2 DEF SetUnrentable, TypeOK
  <2> QED
    BY <1>5, <1>2, <2>3 DEF SetUnrentable, TypeOK, clock
<1>6. ASSUME EquipCollectible(sender, id) PROVE TypeOK'
  <2>1. Append(AccountEquips[sender], id) \in OwnedIds
    BY <1>6, PushKeepsCapacity DEF EquipCollectible, TypeOK, OwnedIds
  <2> QED
    BY <1>6, <2>1 DEF EquipCollectible, TypeOK, clock
<1>7. ASSUME UnequipCollectible(sender, id) PROVE TypeOK'
  BY <1>7, <1>0 DEF UnequipCollectible, TypeOK, clock
<1> QED
  BY <1>3, <1>4, <1>5, <1>6, <1>7

LEMMA SetRentableType ==
  ASSUME TypeOK, NEW sender \in AccountId, NEW id \in CollectibleId,
         NEW price \in Prices, NEW minimum \in Periods, NEW maximum \in Periods,
         SetRentable(sender, id, price, minimum, maximum)
  PROVE  TypeOK'
<1> USE DEF SetRentable, Offered
<1>1. price \in Balance /\ minimum \in U32 /\ maximum \in U32
  BY InputsAssumption
<1>2. Collectibles[id] \in Collectible
  BY DEF TypeOK, OwnedAndVacant, Exists
<1>3. [Collectibles[id] EXCEPT !.price_per_block = price,
                               !.rentable = TRUE,
                               !.minimum_rental_period = minimum,
                               !.maximum_rental_period = maximum] \in Collectible
  BY <1>1, <1>2 DEF Collectible
<1>4. Collectibles' \in [CollectibleId -> Collectible \cup {None}]
  BY <1>3 DEF TypeOK
<1>5. RentableCollectibles' \in OwnedIds
  BY SizesAssumption, PushKeepsCapacity DEF TypeOK, OwnedIds
<1>6. AccountEquips' \in [AccountId -> OwnedIds]
  BY UnequipType DEF TypeOK
<1> QED
  BY <1>4, <1>5, <1>6 DEF TypeOK, clock

LEMMA RentType ==
  ASSUME TypeOK, NEW sender \in AccountId, NEW id \in CollectibleId,
         NEW blocks \in Blocks, NEW recurring \in BOOLEAN,
         Rent(sender, id, blocks, recurring)
  PROVE  TypeOK'
<1> DEFINE b == AvailableBlock(PendingRentals, block_number, blocks)
<1>1. /\ blocks \in U32
      /\ block_number \in BlockNumber
      /\ Exists(id)
      /\ Collectibles[id].price_per_block # None
      /\ CanTransfer(sender, Collectibles[id].lessor, RentPrice(id, blocks))
      /\ SearchEnds(PendingRentals, block_number, blocks)
  BY InputsAssumption DEF Rent, MayRent, TypeOK
<1>2. b \in BlockNumber /\ HasRoomAt(PendingRentals, b)
  BY <1>1, AvailableBlockHasRoom
<1>3. PendingRentals' = Schedule(PendingRentals, b, id, sender)
  BY DEF Rent
<1>4. Collectibles[id] \in Collectible /\ PendingRentals \in PendingType
  BY <1>1, RentalTypes
<1>5. Collectibles[id].lessor \in AccountId
  BY <1>4 DEF Collectible
<1>6. RentPrice(id, blocks) \in Nat
  BY <1>1, RentPriceType
<1>7. free_balance' \in [AccountId -> Nat]
  BY <1>1, <1>5, <1>6, TransferType DEF Rent, TypeOK
<1>8. LesseeCollectibles' = [LesseeCollectibles EXCEPT ![sender][id] =
          [ rental_periodic_interval |-> blocks,
            next_rent_block          |-> b,
            recurring                |-> recurring ]]
  BY DEF Rent
<1> HIDE DEF b
<1>9. PendingRentals' \in PendingType
  BY <1>2, <1>3, <1>4, ScheduleType
<1>10. [ rental_periodic_interval |-> blocks,
         next_rent_block          |-> b,
         recurring                |-> recurring ] \in RentalPeriodConfig
  BY <1>1, <1>2 DEF RentalPeriodConfig
<1>11. LesseeCollectibles' \in
           [AccountId -> [CollectibleId -> RentalPeriodConfig \cup {None}]]
  BY <1>8, <1>10 DEF TypeOK
<1>12. [Collectibles[id] EXCEPT !.lessee = sender] \in Collectible
  BY <1>4 DEF Collectible
<1>13. Collectibles' \in [CollectibleId -> Collectible \cup {None}]
  BY <1>12 DEF Rent, TypeOK
<1> QED
  BY <1>7, <1>9, <1>11, <1>13 DEF Rent, TypeOK, clock, PendingType

\* set_recurring, and the searches that do not return.
LEMMA OtherCallsType ==
  ASSUME TypeOK, NEW sender \in AccountId, NEW id \in CollectibleId
  PROVE  /\ \A recurring \in BOOLEAN : SetRecurring(sender, id, recurring) => TypeOK'
         /\ \A blocks \in Blocks : RentSpins(sender, id, blocks) => TypeOK'
         /\ \A blocks \in Blocks : ExtendRentSpins(sender, id, blocks) => TypeOK'
<1>1. ASSUME NEW recurring \in BOOLEAN, SetRecurring(sender, id, recurring)
      PROVE  TypeOK'
  <2>1. LesseeCollectibles[sender][id] \in RentalPeriodConfig
    BY <1>1, RentalTypes DEF SetRecurring
  <2>2. [LesseeCollectibles[sender][id] EXCEPT !.recurring = recurring]
            \in RentalPeriodConfig
    BY <2>1 DEF RentalPeriodConfig
  <2>3. LesseeCollectibles' = [LesseeCollectibles EXCEPT ![sender] =
            [LesseeCollectibles[sender] EXCEPT ![id] =
               [LesseeCollectibles[sender][id] EXCEPT !.recurring = recurring]]]
    BY <1>1 DEF SetRecurring, TypeOK
  <2>4. LesseeCollectibles' \in
            [AccountId -> [CollectibleId -> RentalPeriodConfig \cup {None}]]
    BY <2>2, <2>3 DEF TypeOK
  <2> QED
    BY <1>1, <2>4 DEF SetRecurring, TypeOK, clock
<1>2. ASSUME NEW blocks \in Blocks, RentSpins(sender, id, blocks)
      PROVE  TypeOK'
  BY <1>2 DEF RentSpins, TypeOK, clock, storage
<1>3. ASSUME NEW blocks \in Blocks, ExtendRentSpins(sender, id, blocks)
      PROVE  TypeOK'
  BY <1>3 DEF ExtendRentSpins, TypeOK, clock, storage
<1> QED
  BY <1>1, <1>2, <1>3

\* Both extend_rent and a renewal move next_rent_block of a rental.
LEMMA RescheduledType ==
  ASSUME TypeOK, NEW lessee \in AccountId, NEW id \in CollectibleId,
         LesseeCollectibles[lessee][id] # None, NEW b \in BlockNumber
  PROVE  [LesseeCollectibles EXCEPT ![lessee][id].next_rent_block = b]
             \in [AccountId -> [CollectibleId -> RentalPeriodConfig \cup {None}]]
<1>1. LesseeCollectibles[lessee][id] \in RentalPeriodConfig
  BY RentalTypes
<1>2. [LesseeCollectibles[lessee][id] EXCEPT !.next_rent_block = b]
          \in RentalPeriodConfig
  BY <1>1 DEF RentalPeriodConfig
<1>3. [LesseeCollectibles EXCEPT ![lessee][id].next_rent_block = b] =
      [LesseeCollectibles EXCEPT ![lessee] =
         [LesseeCollectibles[lessee] EXCEPT ![id] =
            [LesseeCollectibles[lessee][id] EXCEPT !.next_rent_block = b]]]
  BY DEF TypeOK
<1> QED
  BY <1>2, <1>3 DEF TypeOK

LEMMA ExtendRentType ==
  ASSUME TypeOK, NEW sender \in AccountId, NEW id \in CollectibleId,
         NEW blocks \in Blocks, ExtendRent(sender, id, blocks)
  PROVE  TypeOK'
<1> DEFINE due == LesseeCollectibles[sender][id].next_rent_block
           pending == WithoutRental(sender, id)
           b == AvailableBlock(pending, due, blocks)
<1>1. /\ blocks \in U32
      /\ block_number \in BlockNumber
      /\ Exists(id)
      /\ LesseeCollectibles[sender][id] # None
      /\ Collectibles[id].price_per_block # None
      /\ CanTransfer(sender, Collectibles[id].lessor, ExtensionPrice(id, blocks))
      /\ SearchEnds(pending, due, blocks)
  BY InputsAssumption DEF ExtendRent, MayExtend, TypeOK
<1>2. /\ Collectibles[id] \in Collectible
      /\ LesseeCollectibles[sender][id] \in RentalPeriodConfig
      /\ PendingRentals \in PendingType
  BY <1>1, RentalTypes
<1>3. due \in BlockNumber /\ Collectibles[id].lessor \in AccountId
  BY <1>2 DEF RentalPeriodConfig, Collectible
<1>4. pending \in PendingType
  BY <1>2, <1>3, UnscheduleType DEF WithoutRental
<1>5. ExtensionPrice(id, blocks) \in Nat
  BY <1>1, ExtensionPriceType
<1>6. free_balance' \in [AccountId -> Nat]
  BY <1>1, <1>3, <1>5, TransferType DEF ExtendRent, TypeOK
<1>7. /\ PendingRentals' = Schedule(pending, b, id, sender)
      /\ LesseeCollectibles' =
             [LesseeCollectibles EXCEPT ![sender][id].next_rent_block = b]
  BY DEF ExtendRent
<1> HIDE DEF pending, due
<1>8. b \in BlockNumber /\ HasRoomAt(pending, b)
  BY <1>1, <1>3, AvailableBlockHasRoom
<1> HIDE DEF b
<1>9. PendingRentals' \in PendingType
  BY <1>4, <1>7, <1>8, ScheduleType
<1>10. LesseeCollectibles' \in
           [AccountId -> [CollectibleId -> RentalPeriodConfig \cup {None}]]
  BY <1>1, <1>7, <1>8, RescheduledType
<1> QED
  BY <1>6, <1>9, <1>10 DEF ExtendRent, TypeOK, clock, PendingType

LEMMA RenewRentalType ==
  ASSUME TypeOK, NEW lessee \in AccountId, NEW id \in CollectibleId,
         RenewRental(id, lessee)
  PROVE  TypeOK'
<1> DEFINE interval == LesseeCollectibles[lessee][id].rental_periodic_interval
           b == AvailableBlock(PendingRentals, block_number, interval)
<1>1. /\ block_number \in BlockNumber
      /\ Exists(id)
      /\ LesseeCollectibles[lessee][id] # None
      /\ Collectibles[id].price_per_block # None
      /\ CanTransfer(lessee, Collectibles[id].lessor, RenewalPrice(id, lessee))
      /\ SearchEnds(PendingRentals, block_number, interval)
      /\ rentals # <<>>
  BY DEF RenewRental, Renews, Processing, CanRenew, TypeOK
<1>2. /\ Collectibles[id] \in Collectible
      /\ LesseeCollectibles[lessee][id] \in RentalPeriodConfig
      /\ PendingRentals \in PendingType
  BY <1>1, RentalTypes
<1>3. interval \in U32 /\ Collectibles[id].lessor \in AccountId
  BY <1>2 DEF RentalPeriodConfig, Collectible
<1>4. RenewalPrice(id, lessee) \in Nat
  BY <1>1, <1>3, RentPriceType DEF RenewalPrice
<1>5. free_balance' \in [AccountId -> Nat]
  BY <1>1, <1>3, <1>4, TransferType DEF RenewRental, TypeOK
<1>6. /\ PendingRentals' = Schedule(PendingRentals, b, id, lessee)
      /\ LesseeCollectibles' =
             [LesseeCollectibles EXCEPT ![lessee][id].next_rent_block = b]
  BY DEF RenewRental
<1> HIDE DEF interval
<1>7. b \in BlockNumber /\ HasRoomAt(PendingRentals, b)
  BY <1>1, <1>3, AvailableBlockHasRoom
<1> HIDE DEF b
<1>8. PendingRentals' \in PendingType
  BY <1>2, <1>6, <1>7, ScheduleType
<1>9. LesseeCollectibles' \in
          [AccountId -> [CollectibleId -> RentalPeriodConfig \cup {None}]]
  BY <1>1, <1>6, <1>7, RescheduledType
<1>10. rentals' \in BoundedVec(PendingRental, MaximumRentablesPerBlock)
  BY <1>1, SizesAssumption, TailKeepsCapacity DEF RenewRental, TypeOK
<1> QED
  BY <1>5, <1>8, <1>9, <1>10 DEF RenewRental, TypeOK, PendingType

\* The ends of a rental in the hook.
LEMMA RemoveLesseeType ==
  ASSUME TypeOK, NEW lessee \in AccountId, NEW id \in CollectibleId,
         Processing(id, lessee), RemoveLessee(id, lessee)
  PROVE  TypeOK'
<1>1. Exists(id) /\ rentals # <<>>
  BY DEF Processing
<1>2. Collectibles[id] \in Collectible
  BY <1>1, RentalTypes
<1>3. [Collectibles[id] EXCEPT !.lessee = None] \in Collectible
  BY <1>2 DEF Collectible
<1>4. Collectibles' \in [CollectibleId -> Collectible \cup {None}]
  BY <1>3 DEF RemoveLessee, TypeOK
<1>5. LesseeCollectibles' \in
          [AccountId -> [CollectibleId -> RentalPeriodConfig \cup {None}]]
  BY DEF RemoveLessee, TypeOK
<1>6. AccountEquips' \in [AccountId -> OwnedIds]
  BY UnequipType DEF RemoveLessee, TypeOK
<1>7. rentals' \in BoundedVec(PendingRental, MaximumRentablesPerBlock)
  BY <1>1, SizesAssumption, TailKeepsCapacity DEF RemoveLessee, TypeOK
<1> QED
  BY <1>4, <1>5, <1>6, <1>7 DEF RemoveLessee, TypeOK

LEMMA ProcessRentalType ==
  ASSUME TypeOK, NEW lessee \in AccountId, NEW id \in CollectibleId
  PROVE  /\ EndRental(id, lessee) => TypeOK'
         /\ CancelUnpaidRental(id, lessee) => TypeOK'
         /\ RenewRental(id, lessee) => TypeOK'
         /\ RenewalSpins(id, lessee) => TypeOK'
<1>1. EndRental(id, lessee) => TypeOK'
  BY RemoveLesseeType DEF EndRental
<1>2. CancelUnpaidRental(id, lessee) => TypeOK'
  BY RemoveLesseeType DEF CancelUnpaidRental
<1>3. RenewRental(id, lessee) => TypeOK'
  BY RenewRentalType
<1>4. RenewalSpins(id, lessee) => TypeOK'
  BY DEF RenewalSpins, TypeOK, clock, storage
<1> QED
  BY <1>1, <1>2, <1>3, <1>4

LEMMA BlockStepsType ==
  ASSUME TypeOK
  PROVE  /\ BeginBlock => TypeOK'
         /\ FinishRentals => TypeOK'
<1>1. ASSUME BeginBlock PROVE TypeOK'
  <2>1. block_number + 1 \in BlockNumber
    BY <1>1, InputsAssumption, SizesAssumption DEF BeginBlock, TypeOK, BlockNumber, U32
  <2>2. PendingRentals[block_number + 1]
            \in BoundedVec(PendingRental, MaximumRentablesPerBlock)
    BY <2>1 DEF TypeOK
  <2> QED
    BY <1>1, <2>1, <2>2 DEF BeginBlock, TypeOK, storage
<1>2. ASSUME FinishRentals PROVE TypeOK'
  <2>1. <<>> \in BoundedVec(PendingRental, MaximumRentablesPerBlock)
    BY SizesAssumption DEF BoundedVec
  <2> QED
    BY <1>2, <2>1 DEF FinishRentals, RemoveBlock, TypeOK
<1> QED
  BY <1>1, <1>2

LEMMA BalancesTransferType ==
  ASSUME TypeOK, NEW from \in AccountId, NEW to \in AccountId, NEW amount \in Amounts,
         BalancesTransfer(from, to, amount)
  PROVE  TypeOK'
<1> DEFINE rest == free_balance[from] - amount
           kept == IF rest < ExistentialDeposit THEN 0 ELSE rest
<1>1. amount \in Nat /\ free_balance[from] >= amount
  BY InputsAssumption DEF BalancesTransfer
<1>2. free_balance \in [AccountId -> Nat] /\ from # to
  BY DEF TypeOK, BalancesTransfer
<1>3. kept \in Nat /\ free_balance[to] + amount \in Nat
  BY <1>1, <1>2, SizesAssumption
<1>4. free_balance' = [free_balance EXCEPT ![from] = kept, ![to] = @ + amount]
  BY <1>2 DEF BalancesTransfer
<1> HIDE DEF kept
<1>5. free_balance' \in [AccountId -> Nat]
  BY <1>2, <1>3, <1>4
<1> QED
  BY <1>5 DEF BalancesTransfer, TypeOK, storage, clock

LEMMA ChargeFeeType ==
  ASSUME TypeOK, NEW who \in AccountId, NEW fee \in Fees, ChargeFee(who, fee)
  PROVE  TypeOK'
<1>1. fee \in Nat /\ free_balance[who] - fee >= ExistentialDeposit
  BY InputsAssumption DEF ChargeFee
<1>2. free_balance \in [AccountId -> Nat]
  BY DEF TypeOK
<1>3. free_balance[who] - fee \in Nat
  BY <1>1, <1>2, SizesAssumption
<1>4. free_balance' \in [AccountId -> Nat]
  BY <1>2, <1>3 DEF ChargeFee
<1> QED
  BY <1>4 DEF ChargeFee, TypeOK, storage, clock

LEMMA CallType ==
  ASSUME TypeOK, Call
  PROVE  TypeOK'
<1>1. PICK sender \in AccountId, id \in CollectibleId :
        \/ Mint(sender, id)
        \/ Burn(sender, id)
        \/ \E price \in Prices, minimum, maximum \in Periods :
               SetRentable(sender, id, price, minimum, maximum)
        \/ \E blocks \in Blocks, recurring \in BOOLEAN :
               Rent(sender, id, blocks, recurring)
        \/ \E blocks \in Blocks : RentSpins(sender, id, blocks)
        \/ SetUnrentable(sender, id)
        \/ \E recurring \in BOOLEAN : SetRecurring(sender, id, recurring)
        \/ \E blocks \in Blocks : ExtendRent(sender, id, blocks)
        \/ \E blocks \in Blocks : ExtendRentSpins(sender, id, blocks)
        \/ EquipCollectible(sender, id)
        \/ UnequipCollectible(sender, id)
  BY DEF Call, CallBy
<1> QED
  BY <1>1, OwnerCallsType, SetRentableType, RentType, OtherCallsType, ExtendRentType

LEMMA NextType ==
  ASSUME TypeOK, [Next]_vars
  PROVE  TypeOK'
<1>1. CASE Call
  BY <1>1, CallType
<1>2. CASE BeginBlock
  BY <1>2, BlockStepsType
<1>3. CASE OnInitialize
  BY <1>3, BlockStepsType, ProcessRentalType DEF OnInitialize, ProcessRental
<1>4. CASE OtherPallets
  BY <1>4, BalancesTransferType, ChargeFeeType DEF OtherPallets
<1>5. CASE UNCHANGED vars
  BY <1>5 DEF vars, storage, clock, TypeOK
<1> QED
  BY <1>1, <1>2, <1>3, <1>4, <1>5 DEF Next

\* The storage maps keep their types and their capacities, no block is promised
\* more rentals than it can hold, and no balance becomes negative.
THEOREM TypeCorrect == Spec => []TypeOK
<1>1. Init => TypeOK
  BY InitType
<1>2. TypeOK /\ [Next]_vars => TypeOK'
  BY NextType
<1> QED
  BY <1>1, <1>2, PTL DEF Spec

================================================================================
