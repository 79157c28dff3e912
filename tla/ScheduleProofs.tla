----------------------------- MODULE ScheduleProofs -----------------------------
(***************************************************************************)
(* The schedule of PendingRentals, the lessees of Collectibles and the     *)
(* rentals of LesseeCollectibles agree in every reachable state, so that   *)
(* the hook, which unwraps what it reads, never panics.                    *)
(*                                                                         *)
(* The argument.  While the hook runs, block_number's entry of             *)
(* PendingRentals is out of date: the loop works on the copy it has read.  *)
(* Scheduled is the schedule as it stands, the rest of the copy included.  *)
(* Each step changes it by dropping entries of one collectible, by adding  *)
(* one entry, or by both, and changes the rentals of that collectible      *)
(* only: base, in the lemmas below, is the schedule without it.            *)
(***************************************************************************)
EXTENDS RentProofs

\* The inductive invariant: each part needs the others.  That no entry is stale
\* needs that a collectible has one rental and that it is entered once, and
\* these need that what is entered is rented.
RentalInv ==
    /\ TypeOK
    /\ RentalsHaveOneLessee
    /\ ScheduleAgreesWithRentals

--------------------------------------------------------------------------------
\* Lemmas about sequences of entries

LEMMA AppendDistinct ==
  ASSUME NEW s \in Seq(PendingRental), DistinctIds(s),
         NEW id \in CollectibleId, NEW a \in AccountId,
         \A e \in Range(s) : e[1] # id
  PROVE  /\ DistinctIds(Append(s, <<id, a>>))
         /\ Range(Append(s, <<id, a>>)) = Range(s) \cup {<<id, a>>}
<1> DEFINE t == Append(s, <<id, a>>)
<1>1. /\ Len(s) \in Nat
      /\ DOMAIN s = 1 .. Len(s)
      /\ DOMAIN t = 1 .. Len(s) + 1
      /\ \A i \in DOMAIN s : t[i] = s[i]
      /\ t[Len(s) + 1] = <<id, a>>
  OBVIOUS
<1>2. \A i \in DOMAIN s : s[i][1] # id
  BY DEF Range
<1> HIDE DEF t
<1>3. ASSUME NEW i \in DOMAIN t, NEW j \in DOMAIN t, i # j
      PROVE  t[i][1] # t[j][1]
  <2>1. CASE i \in DOMAIN s /\ j \in DOMAIN s
    BY <1>1, <1>3, <2>1 DEF DistinctIds
  <2>2. CASE i = Len(s) + 1
    <3>1. j \in DOMAIN s
      BY <1>1, <1>3, <2>2
    <3> QED
      BY <1>1, <1>2, <2>2, <3>1
  <2>3. CASE j = Len(s) + 1
    <3>1. i \in DOMAIN s
      BY <1>1, <1>3, <2>3
    <3> QED
      BY <1>1, <1>2, <2>3, <3>1
  <2> QED
    BY <1>1, <2>1, <2>2, <2>3
<1>4. Range(t) = Range(s) \cup {<<id, a>>}
  <2>1. ASSUME NEW e \in Range(t) PROVE e \in Range(s) \cup {<<id, a>>}
    <3>1. PICK i \in DOMAIN t : t[i] = e
      BY DEF Range
    <3>2. i \in DOMAIN s \/ i = Len(s) + 1
      BY <1>1, <3>1
    <3> QED
      BY <1>1, <3>1, <3>2 DEF Range
  <2>2. ASSUME NEW e \in Range(s) PROVE e \in Range(t)
    <3>1. PICK i \in DOMAIN s : s[i] = e
      BY DEF Range
    <3>2. i \in DOMAIN t
      BY <1>1, <3>1
    <3> QED
      BY <1>1, <3>1, <3>2 DEF Range
  <2>3. <<id, a>> \in Range(t)
    <3>1. Len(s) + 1 \in DOMAIN t
      BY <1>1
    <3> QED
      BY <1>1, <3>1 DEF Range
  <2> QED
    BY <2>1, <2>2, <2>3
<1> QED
  BY <1>3, <1>4 DEF DistinctIds, t

LEMMA TailDistinct ==
  ASSUME NEW s \in Seq(PendingRental), DistinctIds(s), s # <<>>
  PROVE  /\ Tail(s) \in Seq(PendingRental)
         /\ DistinctIds(Tail(s))
         /\ \A e \in Range(Tail(s)) : e \in Range(s) /\ e[1] # Head(s)[1]
         /\ Head(s) \in Range(s)
<1> DEFINE t == Tail(s)
<1>1. /\ Len(s) \in Nat \ {0}
      /\ DOMAIN s = 1 .. Len(s)
      /\ t \in Seq(PendingRental)
      /\ DOMAIN t = 1 .. Len(s) - 1
      /\ \A i \in DOMAIN t : t[i] = s[i + 1]
      /\ Head(s) = s[1]
  OBVIOUS
<1> HIDE DEF t
<1>2. \A i \in DOMAIN t : i + 1 \in DOMAIN s /\ i + 1 # 1 /\ i \in Int
  BY <1>1
<1>3. 1 \in DOMAIN s
  BY <1>1
<1>4. ASSUME NEW i \in DOMAIN t, NEW j \in DOMAIN t, i # j
      PROVE  t[i][1] # t[j][1]
  <2>1. i + 1 # j + 1
    BY <1>2, <1>4
  <2> QED
    BY <1>1, <1>2, <2>1 DEF DistinctIds
<1>5. ASSUME NEW e \in Range(t) PROVE e \in Range(s) /\ e[1] # s[1][1]
  <2>1. PICK i \in DOMAIN t : t[i] = e
    BY DEF Range
  <2>2. s[i + 1] = e
    BY <1>1, <2>1
  <2>3. s[i + 1][1] # s[1][1]
    BY <1>2, <1>3 DEF DistinctIds
  <2> QED
    BY <1>2, <2>2, <2>3 DEF Range
<1> QED
  BY <1>1, <1>3, <1>4, <1>5 DEF DistinctIds, Range, t

LEMMA RetainDistinct ==
  ASSUME NEW s \in Seq(PendingRental), DistinctIds(s), NEW drop
  PROVE  /\ Retain(s, drop) \in Seq(PendingRental)
         /\ DistinctIds(Retain(s, drop))
         /\ Range(Retain(s, drop)) = Range(s) \ drop
<1> DEFINE t == Retain(s, drop)
<1>1. /\ t \in Seq(PendingRental)
      /\ Range(t) = Range(s) \ drop
      /\ \A i, j \in DOMAIN t :
             i # j => \E p, q \in DOMAIN s : p # q /\ t[i] = s[p] /\ t[j] = s[q]
  BY RetainProperties
<1> HIDE DEF t
<1>2. ASSUME NEW i \in DOMAIN t, NEW j \in DOMAIN t, i # j
      PROVE  t[i][1] # t[j][1]
  <2>1. PICK p \in DOMAIN s, q \in DOMAIN s : p # q /\ t[i] = s[p] /\ t[j] = s[q]
    BY <1>1, <1>2
  <2> QED
    BY <2>1 DEF DistinctIds
<1> QED
  BY <1>1, <1>2 DEF DistinctIds, t

--------------------------------------------------------------------------------
\* Lemmas about the schedule

LEMMA EntryTypes ==
  ASSUME TypeOK, NEW b \in BlockNumber
  PROVE  /\ Scheduled(b) \in Seq(PendingRental)
         /\ \A e \in Range(Scheduled(b)) :
                e[1] \in CollectibleId /\ e[2] \in AccountId /\ e = <<e[1], e[2]>>
<1>1. Scheduled(b) \in Seq(PendingRental)
  BY DEF TypeOK, Scheduled, BoundedVec
<1>2. ASSUME NEW e \in Range(Scheduled(b)) PROVE e \in PendingRental
  BY <1>1 DEF Range
<1> QED
  BY <1>1, <1>2 DEF PendingRental

\* The schedule of the next state is base.
LEMMA NewSchedule ==
  ASSUME NEW base,
         \A b \in BlockNumber : Scheduled(b)' = base[b],
         \A b \in BlockNumber : DistinctIds(base[b]),
         \A b \in BlockNumber : \A e \in Range(base[b]) : Due(e[1], e[2], b)'
  PROVE  ScheduleAgreesWithRentals'
  BY DEF ScheduleAgreesWithRentals, EntriesAreRentals, EntriesAreDistinct, DistinctIds

\* The schedule of the next state is base and one more entry.
LEMMA NewScheduleWithEntry ==
  ASSUME NEW base, NEW c \in BlockNumber,
         NEW id \in CollectibleId, NEW lessee \in AccountId,
         \A b \in BlockNumber : Scheduled(b)' =
             IF b = c THEN Append(base[b], <<id, lessee>>) ELSE base[b],
         \A b \in BlockNumber : base[b] \in Seq(PendingRental) /\ DistinctIds(base[b]),
         \A b \in BlockNumber : \A e \in Range(base[b]) :
             e[1] # id /\ Due(e[1], e[2], b)',
         Due(id, lessee, c)'
  PROVE  ScheduleAgreesWithRentals'
<1>1. /\ DistinctIds(Append(base[c], <<id, lessee>>))
      /\ Range(Append(base[c], <<id, lessee>>)) = Range(base[c]) \cup {<<id, lessee>>}
  BY AppendDistinct
<1> DEFINE new == [b \in BlockNumber |->
                     IF b = c THEN Append(base[b], <<id, lessee>>) ELSE base[b]]
<1>2. \A b \in BlockNumber : Scheduled(b)' = new[b]
  OBVIOUS
<1>3. \A b \in BlockNumber : DistinctIds(new[b])
  BY <1>1
<1>4. ASSUME NEW b \in BlockNumber, NEW e \in Range(new[b]) PROVE Due(e[1], e[2], b)'
  <2>1. CASE b = c /\ e = <<id, lessee>>
    BY <2>1
  <2>2. CASE e \in Range(base[b])
    BY <2>2
  <2>3. CASE b = c
    <3>1. e \in Range(Append(base[c], <<id, lessee>>))
      BY <1>4, <2>3
    <3> QED
      BY <1>1, <2>1, <2>2, <2>3, <3>1
  <2>4. CASE b # c
    <3>1. e \in Range(base[b])
      BY <1>4, <2>4
    <3> QED
      BY <2>2, <3>1
  <2> QED
    BY <2>3, <2>4
<1> HIDE DEF new
<1> QED
  BY <1>2, <1>3, <1>4, NewSchedule

\* The step leaves the schedule alone, and every rental that is in it.
LEMMA SameSchedule ==
  ASSUME RentalInv,
         \A b \in BlockNumber : Scheduled(b)' = Scheduled(b),
         \A id \in CollectibleId, lessee \in AccountId, b \in BlockNumber :
             Due(id, lessee, b) => Due(id, lessee, b)'
  PROVE  ScheduleAgreesWithRentals'
<1> DEFINE base == [b \in BlockNumber |-> Scheduled(b)]
<1>1. \A b \in BlockNumber : Scheduled(b)' = base[b] /\ DistinctIds(base[b])
  BY DEF RentalInv, ScheduleAgreesWithRentals, EntriesAreDistinct
<1>2. ASSUME NEW b \in BlockNumber, NEW e \in Range(Scheduled(b))
      PROVE  Due(e[1], e[2], b)'
  <2>1. e[1] \in CollectibleId /\ e[2] \in AccountId
    BY EntryTypes DEF RentalInv
  <2>2. Due(e[1], e[2], b)
    BY DEF RentalInv, ScheduleAgreesWithRentals, EntriesAreRentals
  <2> QED
    BY <2>1, <2>2
<1>3. \A b \in BlockNumber : \A e \in Range(base[b]) : Due(e[1], e[2], b)'
  BY <1>2
<1> HIDE DEF base
<1> QED
  BY <1>1, <1>3, NewSchedule

LEMMA SameClock ==
  ASSUME UNCHANGED << PendingRentals, clock >>
  PROVE  \A b \in BlockNumber : Scheduled(b)' = Scheduled(b)
  BY DEF Scheduled, clock

--------------------------------------------------------------------------------
\* The calls of the lessor

LEMMA MintInv ==
  ASSUME RentalInv, NEW sender \in AccountId, NEW id \in CollectibleId,
         Mint(sender, id)
  PROVE  RentalsHaveOneLessee' /\ ScheduleAgreesWithRentals'
<1>1. /\ ~Exists(id)
      /\ UNCHANGED << LesseeCollectibles, PendingRentals, clock >>
      /\ \A i \in CollectibleId : i # id => Collectibles'[i] = Collectibles[i]
      /\ Collectibles'[id].lessee = None
      /\ Collectibles'[id].lessor = sender
  BY DEF Mint, NewCollectible, RentalInv, TypeOK
<1>2. RentalsHaveOneLessee'
  BY <1>1, NoneAssumption DEF RentalInv, RentalsHaveOneLessee, Exists
<1>3. \A i \in CollectibleId, lessee \in AccountId, b \in BlockNumber :
          Due(i, lessee, b) => Due(i, lessee, b)'
  BY <1>1 DEF Due, Exists
<1> QED
  BY <1>1, <1>2, <1>3, SameClock, SameSchedule

LEMMA BurnInv ==
  ASSUME RentalInv, NEW sender \in AccountId, NEW id \in CollectibleId,
         Burn(sender, id)
  PROVE  RentalsHaveOneLessee' /\ ScheduleAgreesWithRentals'
<1>1. /\ Exists(id) /\ Collectibles[id].lessee = None
      /\ UNCHANGED << LesseeCollectibles, PendingRentals, clock >>
      /\ \A i \in CollectibleId : i # id => Collectibles'[i] = Collectibles[i]
      /\ Collectibles'[id] = None
  BY DEF Burn, OwnedAndVacant, RentalInv, TypeOK
<1>2. RentalsHaveOneLessee'
  BY <1>1, NoneAssumption DEF RentalInv, RentalsHaveOneLessee, Exists
<1>3. \A i \in CollectibleId, lessee \in AccountId, b \in BlockNumber :
          Due(i, lessee, b) => Due(i, lessee, b)'
  BY <1>1, NoneAssumption DEF Due, Exists
<1> QED
  BY <1>1, <1>2, <1>3, SameClock, SameSchedule

\* set_rentable and set_unrentable: the parties stay, and a price.
LEMMA OfferInv ==
  ASSUME RentalInv, NEW id \in CollectibleId,
         Exists(id),
         UNCHANGED << LesseeCollectibles, PendingRentals, clock >>,
         \A i \in CollectibleId : i # id => Collectibles'[i] = Collectibles[i],
         Collectibles'[id] # None,
         Collectibles'[id].lessee = Collectibles[id].lessee,
         Collectibles'[id].lessor = Collectibles[id].lessor,
         Collectibles[id].price_per_block # None =>
             Collectibles'[id].price_per_block # None
  PROVE  RentalsHaveOneLessee' /\ ScheduleAgreesWithRentals'
<1>1. RentalsHaveOneLessee'
  BY DEF RentalInv, RentalsHaveOneLessee, Exists
<1>2. \A i \in CollectibleId, lessee \in AccountId, b \in BlockNumber :
          Due(i, lessee, b) => Due(i, lessee, b)'
  BY DEF Due, Exists
<1> QED
  BY <1>1, <1>2, SameClock, SameSchedule

LEMMA SetRentableInv ==
  ASSUME RentalInv, NEW sender \in AccountId, NEW id \in CollectibleId,
         NEW price \in Prices, NEW minimum \in Periods, NEW maximum \in Periods,
         SetRentable(sender, id, price, minimum, maximum)
  PROVE  RentalsHaveOneLessee' /\ ScheduleAgreesWithRentals'
<1> USE DEF SetRentable, Offered
<1>1. Exists(id) /\ Collectibles[id] \in Collectible
  BY RentalTypes DEF OwnedAndVacant, RentalInv
<1>2. price # None
  BY InputsAssumption, SizesAssumption, NoneAssumption DEF Balance
<1>3. TypeOK'
  BY SetRentableType DEF RentalInv
<1> DEFINE c == [Collectibles[id] EXCEPT !.price_per_block = price,
                                         !.rentable = TRUE,
                                         !.minimum_rental_period = minimum,
                                         !.maximum_rental_period = maximum]
<1>4. Collectibles' = [Collectibles EXCEPT ![id] = c]
  OBVIOUS
<1>5. c \in Collectible
  BY <1>1, InputsAssumption DEF Collectible
<1>6. /\ c.lessee = Collectibles[id].lessee
      /\ c.lessor = Collectibles[id].lessor
      /\ c.price_per_block = price
  BY <1>1 DEF Collectible
<1> HIDE DEF c
<1>7. Collectibles'[id] = c /\ c # None
  BY <1>4, <1>5, NoneAssumption DEF RentalInv, TypeOK
<1>8. \A i \in CollectibleId : i # id => Collectibles'[i] = Collectibles[i]
  BY <1>4 DEF RentalInv, TypeOK
<1> QED
  BY <1>1, <1>2, <1>6, <1>7, <1>8, OfferInv

LEMMA SetUnrentableInv ==
  ASSUME RentalInv, NEW sender \in AccountId, NEW id \in CollectibleId,
         SetUnrentable(sender, id)
  PROVE  RentalsHaveOneLessee' /\ ScheduleAgreesWithRentals'
<1>1. Exists(id) /\ Collectibles[id] \in Collectible
  BY RentalTypes DEF SetUnrentable, RentalInv
<1> DEFINE c == [Collectibles[id] EXCEPT !.rentable = FALSE]
<1>2. Collectibles' = [Collectibles EXCEPT ![id] = c]
  BY DEF SetUnrentable
<1>3. /\ c \in Collectible
      /\ c.lessee = Collectibles[id].lessee
      /\ c.lessor = Collectibles[id].lessor
      /\ c.price_per_block = Collectibles[id].price_per_block
  BY <1>1 DEF Collectible
<1> HIDE DEF c
<1>4. Collectibles'[id] = c /\ c # None
  BY <1>2, <1>3, NoneAssumption DEF RentalInv, TypeOK
<1>5. \A i \in CollectibleId : i # id => Collectibles'[i] = Collectibles[i]
  BY <1>2 DEF RentalInv, TypeOK
<1> QED
  BY <1>1, <1>3, <1>4, <1>5, OfferInv DEF SetUnrentable

--------------------------------------------------------------------------------
\* The calls of the lessee

\* Only a rented collectible is in the schedule.
LEMMA VacantHasNoEntry ==
  ASSUME RentalInv, NEW id \in CollectibleId,
         Exists(id) => Collectibles[id].lessee = None,
         NEW b \in BlockNumber, NEW e \in Range(Scheduled(b))
  PROVE  e[1] # id
<1>1. e[2] \in AccountId
  BY EntryTypes DEF RentalInv
<1>2. Due(e[1], e[2], b)
  BY DEF RentalInv, ScheduleAgreesWithRentals, EntriesAreRentals
<1> QED
  BY <1>1, <1>2, NoneAssumption DEF Due

LEMMA RentInv ==
  ASSUME RentalInv, NEW sender \in AccountId, NEW id \in CollectibleId,
         NEW blocks \in Blocks, NEW recurring \in BOOLEAN,
         Rent(sender, id, blocks, recurring)
  PROVE  RentalsHaveOneLessee' /\ ScheduleAgreesWithRentals'
<1> USE DEF RentalInv
<1>1. /\ Exists(id)
      /\ Collectibles[id] \in Collectible
      /\ Collectibles[id].lessee = None
      /\ Collectibles[id].lessor # sender
      /\ Collectibles[id].price_per_block # None
      /\ phase = "extrinsics"
  BY RentalTypes DEF Rent, MayRent, NotAParty, InCall
<1>2. PICK c \in BlockNumber : c = AvailableBlock(PendingRentals, block_number, blocks)
  <2>1. blocks \in U32 /\ SearchEnds(PendingRentals, block_number, blocks)
    BY InputsAssumption DEF Rent
  <2> QED
    BY <2>1, AvailableBlockHasRoom DEF TypeOK
<1> DEFINE rental == [ rental_periodic_interval |-> blocks,
                       next_rent_block          |-> c,
                       recurring                |-> recurring ]
           base == [b \in BlockNumber |-> PendingRentals[b]]
<1>3. /\ PendingRentals' = Schedule(PendingRentals, c, id, sender)
      /\ LesseeCollectibles' = [LesseeCollectibles EXCEPT ![sender][id] = rental]
      /\ Collectibles' = [Collectibles EXCEPT ![id].lessee = sender]
      /\ UNCHANGED clock
  BY <1>2 DEF Rent
<1>4. rental \in RentalPeriodConfig /\ rental.next_rent_block = c
  BY <1>2, InputsAssumption DEF RentalPeriodConfig
<1> HIDE DEF rental
<1>5. /\ Collectibles'[id] \in Collectible
      /\ Collectibles'[id].lessee = sender
      /\ Collectibles'[id].lessor = Collectibles[id].lessor
      /\ Collectibles'[id].price_per_block = Collectibles[id].price_per_block
      /\ \A i \in CollectibleId : i # id => Collectibles'[i] = Collectibles[i]
  BY <1>1, <1>3 DEF TypeOK, Collectible
<1>6. /\ LesseeCollectibles'[sender][id] = rental
      /\ \A a \in AccountId, i \in CollectibleId :
             a # sender \/ i # id =>
                 LesseeCollectibles'[a][i] = LesseeCollectibles[a][i]
  BY <1>3 DEF TypeOK
<1>7. RentalsHaveOneLessee'
  BY <1>1, <1>4, <1>5, <1>6, NoneAssumption DEF RentalsHaveOneLessee, Exists
<1>8. Due(id, sender, c)'
  BY <1>1, <1>4, <1>5, <1>6, NoneAssumption DEF Due, Exists
<1>9. \A b \in BlockNumber : Scheduled(b) = base[b]
  BY <1>1 DEF Scheduled
<1>10. \A b \in BlockNumber : Scheduled(b)' =
           IF b = c THEN Append(base[b], <<id, sender>>) ELSE base[b]
  BY <1>1, <1>2, <1>3 DEF Scheduled, Schedule, clock, TypeOK
<1> HIDE DEF base
<1>11. \A b \in BlockNumber : base[b] \in Seq(PendingRental) /\ DistinctIds(base[b])
  BY <1>9, EntryTypes DEF ScheduleAgreesWithRentals, EntriesAreDistinct
<1>12. ASSUME NEW b \in BlockNumber, NEW e \in Range(base[b])
       PROVE  e[1] # id /\ Due(e[1], e[2], b)'
  <2>1. e \in Range(Scheduled(b))
    BY <1>9
  <2>2. e[1] # id
    BY <1>1, <2>1, VacantHasNoEntry
  <2>3. e[1] \in CollectibleId /\ e[2] \in AccountId /\ Due(e[1], e[2], b)
    BY <2>1, EntryTypes DEF ScheduleAgreesWithRentals, EntriesAreRentals
  <2> QED
    BY <1>5, <1>6, <2>2, <2>3 DEF Due, Exists
<1> QED
  BY <1>2, <1>7, <1>8, <1>10, <1>11, <1>12, NewScheduleWithEntry

LEMMA SetRecurringInv ==
  ASSUME RentalInv, NEW sender \in AccountId, NEW id \in CollectibleId,
         NEW recurring \in BOOLEAN, SetRecurring(sender, id, recurring)
  PROVE  RentalsHaveOneLessee' /\ ScheduleAgreesWithRentals'
<1> USE DEF RentalInv
<1> DEFINE rental == [LesseeCollectibles[sender][id] EXCEPT !.recurring = recurring]
<1>1. LesseeCollectibles[sender][id] # None
  BY DEF SetRecurring
<1>2. LesseeCollectibles[sender][id] \in RentalPeriodConfig
  BY <1>1, RentalTypes
<1>3. /\ rental \in RentalPeriodConfig
      /\ rental.next_rent_block = LesseeCollectibles[sender][id].next_rent_block
  BY <1>2 DEF RentalPeriodConfig
<1>4. /\ LesseeCollectibles'[sender][id] = rental
      /\ \A a \in AccountId, i \in CollectibleId :
             a # sender \/ i # id =>
                 LesseeCollectibles'[a][i] = LesseeCollectibles[a][i]
      /\ UNCHANGED << Collectibles, PendingRentals, clock >>
  BY DEF SetRecurring, TypeOK
<1> HIDE DEF rental
<1>5. RentalsHaveOneLessee'
  BY <1>1, <1>3, <1>4, NoneAssumption DEF RentalsHaveOneLessee, Exists
<1>6. \A i \in CollectibleId, lessee \in AccountId, b \in BlockNumber :
          Due(i, lessee, b) => Due(i, lessee, b)'
  BY <1>3, <1>4, NoneAssumption DEF Due, Exists
<1> QED
  BY <1>4, <1>5, <1>6, SameClock, SameSchedule

\* What extend_rent and a renewal do to the rental.
LEMMA RescheduledRental ==
  ASSUME RentalInv, NEW lessee \in AccountId, NEW id \in CollectibleId,
         LesseeCollectibles[lessee][id] # None, NEW c \in BlockNumber,
         LesseeCollectibles' =
             [LesseeCollectibles EXCEPT ![lessee][id].next_rent_block = c],
         UNCHANGED Collectibles
  PROVE  /\ RentalsHaveOneLessee'
         /\ Collectibles[id].price_per_block # None => Due(id, lessee, c)'
         /\ \A i \in CollectibleId, a \in AccountId, b \in BlockNumber :
                i # id /\ Due(i, a, b) => Due(i, a, b)'
<1> USE DEF RentalInv
<1> DEFINE rental == [LesseeCollectibles[lessee][id] EXCEPT !.next_rent_block = c]
<1>1. LesseeCollectibles[lessee][id] \in RentalPeriodConfig
  BY RentalTypes
<1>2. rental \in RentalPeriodConfig /\ rental.next_rent_block = c
  BY <1>1 DEF RentalPeriodConfig
<1>3. /\ LesseeCollectibles'[lessee][id] = rental
      /\ \A a \in AccountId, i \in CollectibleId :
             a # lessee \/ i # id =>
                 LesseeCollectibles'[a][i] = LesseeCollectibles[a][i]
  BY DEF TypeOK
<1> HIDE DEF rental
<1>4. RentalsHaveOneLessee'
  BY <1>2, <1>3, NoneAssumption DEF RentalsHaveOneLessee, Exists
<1>5. Exists(id) /\ Collectibles[id].lessee = lessee
  BY DEF RentalsHaveOneLessee
<1>6. Collectibles[id].price_per_block # None => Due(id, lessee, c)'
  BY <1>2, <1>3, <1>5, NoneAssumption DEF Due, Exists
<1>7. \A i \in CollectibleId, a \in AccountId, b \in BlockNumber :
          i # id /\ Due(i, a, b) => Due(i, a, b)'
  BY <1>3 DEF Due, Exists
<1> QED
  BY <1>4, <1>6, <1>7

LEMMA ExtendRentInv ==
  ASSUME RentalInv, NEW sender \in AccountId, NEW id \in CollectibleId,
         NEW blocks \in Blocks, ExtendRent(sender, id, blocks)
  PROVE  RentalsHaveOneLessee' /\ ScheduleAgreesWithRentals'
<1> USE DEF RentalInv
<1> DEFINE base == WithoutRental(sender, id)
<1>1. /\ LesseeCollectibles[sender][id] # None
      /\ Collectibles[id].lessee = sender
      /\ Collectibles[id].price_per_block # None
      /\ phase = "extrinsics"
      /\ UNCHANGED << Collectibles, clock >>
  BY DEF ExtendRent, MayExtend, IsLessee, InCall
<1>2. PICK due \in BlockNumber : due = LesseeCollectibles[sender][id].next_rent_block
  BY <1>1, RentalTypes DEF RentalPeriodConfig
<1>3. base = [PendingRentals EXCEPT ![due] = Retain(@, {id} \X AccountId)]
  BY <1>2 DEF WithoutRental, Unschedule
<1>4. \A b \in BlockNumber : base[b] =
          IF b = due THEN Retain(PendingRentals[b], {id} \X AccountId)
          ELSE PendingRentals[b]
  BY <1>3 DEF TypeOK
<1>5. base \in PendingType
  BY <1>1, <1>2, RentalTypes, UnscheduleType DEF WithoutRental
<1>6. PICK c \in BlockNumber : c = AvailableBlock(base, due, blocks)
  <2>1. blocks \in U32 /\ SearchEnds(base, due, blocks)
    BY <1>2, InputsAssumption DEF ExtendRent
  <2> QED
    BY <2>1, AvailableBlockHasRoom DEF TypeOK
<1>7. /\ PendingRentals' = Schedule(base, c, id, sender)
      /\ LesseeCollectibles' =
             [LesseeCollectibles EXCEPT ![sender][id].next_rent_block = c]
  BY <1>2, <1>6 DEF ExtendRent
<1> HIDE DEF base
<1>8. /\ RentalsHaveOneLessee'
      /\ Due(id, sender, c)'
      /\ \A i \in CollectibleId, a \in AccountId, b \in BlockNumber :
             i # id /\ Due(i, a, b) => Due(i, a, b)'
  BY <1>1, <1>7, RescheduledRental
<1>9. \A b \in BlockNumber : Scheduled(b) = PendingRentals[b]
  BY <1>1 DEF Scheduled
<1>10. \A b \in BlockNumber : Scheduled(b)' =
           IF b = c THEN Append(base[b], <<id, sender>>) ELSE base[b]
  BY <1>1, <1>5, <1>7 DEF Scheduled, Schedule, clock, PendingType
<1>11. ASSUME NEW b \in BlockNumber
       PROVE  /\ base[b] \in Seq(PendingRental) /\ DistinctIds(base[b])
              /\ \A e \in Range(base[b]) : e \in Range(Scheduled(b)) /\ e[1] # id
  <2>1. /\ PendingRentals[b] \in Seq(PendingRental)
        /\ DistinctIds(PendingRentals[b])
        /\ \A e \in Range(PendingRentals[b]) :
               e[2] \in AccountId /\ e = <<e[1], e[2]>> /\ Due(e[1], e[2], b)
    BY <1>9, EntryTypes
       DEF ScheduleAgreesWithRentals, EntriesAreDistinct, EntriesAreRentals
  <2>2. CASE b = due
    <3>1. /\ base[b] \in Seq(PendingRental) /\ DistinctIds(base[b])
          /\ Range(base[b]) = Range(PendingRentals[b]) \ ({id} \X AccountId)
      BY <1>4, <2>1, <2>2, RetainDistinct
    <3> QED
      BY <1>9, <2>1, <3>1
  <2>3. CASE b # due
    <3>1. base[b] = PendingRentals[b]
      BY <1>4, <2>3
    <3>2. ASSUME NEW e \in Range(PendingRentals[b]), e[1] = id PROVE FALSE
      BY <1>1, <1>2, <2>1, <2>3, <3>2 DEF Due
    <3> QED
      BY <1>9, <2>1, <3>1, <3>2
  <2> QED
    BY <2>2, <2>3
<1>12. ASSUME NEW b \in BlockNumber, NEW e \in Range(base[b])
       PROVE  e[1] # id /\ Due(e[1], e[2], b)'
  <2>1. e \in Range(Scheduled(b)) /\ e[1] # id
    BY <1>11
  <2>2. e[1] \in CollectibleId /\ e[2] \in AccountId /\ Due(e[1], e[2], b)
    BY <2>1, EntryTypes DEF ScheduleAgreesWithRentals, EntriesAreRentals
  <2> QED
    BY <1>8, <2>1, <2>2
<1> QED
  BY <1>8, <1>10, <1>11, <1>12, NewScheduleWithEntry

\* The calls, and transfers, that touch neither rentals nor the schedule.
LEMMA RentalsUntouched ==
  ASSUME RentalInv,
         UNCHANGED << Collectibles, LesseeCollectibles, PendingRentals, clock >>
  PROVE  RentalsHaveOneLessee' /\ ScheduleAgreesWithRentals'
<1>1. RentalsHaveOneLessee'
  BY DEF RentalInv, RentalsHaveOneLessee, Exists
<1>2. \A i \in CollectibleId, a \in AccountId, b \in BlockNumber :
          Due(i, a, b) => Due(i, a, b)'
  BY DEF Due, Exists
<1> QED
  BY <1>1, <1>2, SameClock, SameSchedule

LEMMA OtherStepsInv ==
  ASSUME RentalInv, NEW sender \in AccountId, NEW id \in CollectibleId
  PROVE  /\ EquipCollectible(sender, id) =>
                RentalsHaveOneLessee' /\ ScheduleAgreesWithRentals'
         /\ UnequipCollectible(sender, id) =>
                RentalsHaveOneLessee' /\ ScheduleAgreesWithRentals'
         /\ \A blocks \in Blocks : RentSpins(sender, id, blocks) =>
                RentalsHaveOneLessee' /\ ScheduleAgreesWithRentals'
         /\ \A blocks \in Blocks : ExtendRentSpins(sender, id, blocks) =>
                RentalsHaveOneLessee' /\ ScheduleAgreesWithRentals'
         /\ RenewalSpins(id, sender) =>
                RentalsHaveOneLessee' /\ ScheduleAgreesWithRentals'
  BY RentalsUntouched
     DEF EquipCollectible, UnequipCollectible, RentSpins, ExtendRentSpins,
         RenewalSpins, storage

--------------------------------------------------------------------------------
\* The hook

\* The entry the loop is at is a rental due in this block; without it, the
\* schedule holds no entry of that collectible.
LEMMA WithoutHead ==
  ASSUME RentalInv, NEW lessee \in AccountId, NEW id \in CollectibleId,
         Processing(id, lessee), NEW b \in BlockNumber,
         NEW base,
         base = IF b = block_number THEN Tail(rentals) ELSE PendingRentals[b]
  PROVE  /\ Due(id, lessee, block_number)
         /\ base \in Seq(PendingRental) /\ DistinctIds(base)
         /\ \A e \in Range(base) :
                /\ e[1] # id /\ e[1] \in CollectibleId /\ e[2] \in AccountId
                /\ Due(e[1], e[2], b)
<1> USE DEF RentalInv
<1>1. /\ phase = "on_initialize"
      /\ rentals # <<>>
      /\ Head(rentals) = <<id, lessee>>
      /\ block_number \in BlockNumber
  BY DEF Processing, TypeOK
<1>2. Scheduled(block_number) = rentals
  BY <1>1 DEF Scheduled
<1>3. \A c \in BlockNumber :
          /\ Scheduled(c) \in Seq(PendingRental) /\ DistinctIds(Scheduled(c))
          /\ \A e \in Range(Scheduled(c)) :
                 /\ e[1] \in CollectibleId /\ e[2] \in AccountId
                 /\ Due(e[1], e[2], c)
  BY EntryTypes DEF ScheduleAgreesWithRentals, EntriesAreDistinct, EntriesAreRentals
<1>4. /\ Tail(rentals) \in Seq(PendingRental)
      /\ DistinctIds(Tail(rentals))
      /\ \A e \in Range(Tail(rentals)) : e \in Range(rentals) /\ e[1] # id
      /\ <<id, lessee>> \in Range(rentals)
  BY <1>1, <1>2, <1>3, TailDistinct
<1>5. Due(id, lessee, block_number)
  <2>1. Due(<<id, lessee>>[1], <<id, lessee>>[2], block_number)
    BY <1>1, <1>2, <1>3, <1>4
  <2> QED
    BY <2>1
<1>6. CASE b = block_number
  BY <1>1, <1>2, <1>3, <1>4, <1>5, <1>6
<1>7. CASE b # block_number
  <2>1. base = Scheduled(b)
    BY <1>7 DEF Scheduled
  <2>2. ASSUME NEW e \in Range(Scheduled(b)), e[1] = id PROVE FALSE
    <3>1. Due(id, e[2], b)
      BY <1>3, <2>2
    <3> QED
      BY <1>5, <1>7, <3>1 DEF Due
  <2> QED
    BY <1>3, <1>5, <2>1, <2>2
<1> QED
  BY <1>6, <1>7

LEMMA RemoveLesseeInv ==
  ASSUME RentalInv, NEW lessee \in AccountId, NEW id \in CollectibleId,
         Processing(id, lessee), RemoveLessee(id, lessee)
  PROVE  RentalsHaveOneLessee' /\ ScheduleAgreesWithRentals'
<1> USE DEF RentalInv
<1> DEFINE base == [b \in BlockNumber |->
                      IF b = block_number THEN Tail(rentals) ELSE PendingRentals[b]]
<1>1. /\ Exists(id) /\ Collectibles[id] \in Collectible
      /\ phase = "on_initialize"
      /\ block_number \in BlockNumber
  BY RentalTypes DEF Processing, TypeOK
<1>2. /\ rentals' = Tail(rentals)
      /\ UNCHANGED << PendingRentals, block_number, phase >>
  BY DEF RemoveLessee
<1>3. \A b \in BlockNumber :
          base[b] = IF b = block_number THEN Tail(rentals) ELSE PendingRentals[b]
  OBVIOUS
<1>4. \A b \in BlockNumber : Scheduled(b)' = base[b]
  BY <1>1, <1>2 DEF Scheduled
<1> HIDE DEF base
<1>5. /\ Due(id, lessee, block_number)
      /\ \A b \in BlockNumber :
             /\ base[b] \in Seq(PendingRental) /\ DistinctIds(base[b])
             /\ \A e \in Range(base[b]) :
                    /\ e[1] # id /\ e[1] \in CollectibleId /\ e[2] \in AccountId
                    /\ Due(e[1], e[2], b)
  BY <1>1, <1>3, WithoutHead
<1>6. /\ Collectibles'[id] \in Collectible
      /\ Collectibles'[id].lessee = None
      /\ Collectibles'[id].lessor = Collectibles[id].lessor
      /\ \A i \in CollectibleId : i # id => Collectibles'[i] = Collectibles[i]
  BY <1>1 DEF RemoveLessee, TypeOK, Collectible
<1>7. /\ LesseeCollectibles'[lessee][id] = None
      /\ \A a \in AccountId, i \in CollectibleId :
             a # lessee \/ i # id =>
                 LesseeCollectibles'[a][i] = LesseeCollectibles[a][i]
  BY DEF RemoveLessee, TypeOK
<1>8. Collectibles[id].lessee = lessee
  BY <1>5 DEF Due
<1>9. Collectibles[id].lessor # None /\ Collectibles'[id] # None
  BY <1>1, <1>6, NoneAssumption DEF Collectible
<1>10. RentalsHaveOneLessee'
  <2>1. \A a \in AccountId, i \in CollectibleId :
            LesseeCollectibles'[a][i] # None <=>
                Collectibles'[i] # None /\ Collectibles'[i].lessee = a
    <3> TAKE a \in AccountId, i \in CollectibleId
    <3>1. CASE i = id
      BY <1>6, <1>7, <1>8, <3>1, NoneAssumption DEF RentalsHaveOneLessee
    <3>2. CASE i # id
      BY <1>6, <1>7, <3>2 DEF RentalsHaveOneLessee, Exists
    <3> QED
      BY <3>1, <3>2
  <2>2. \A i \in CollectibleId :
            Collectibles'[i] # None => Collectibles'[i].lessee # Collectibles'[i].lessor
    BY <1>6, <1>9 DEF RentalsHaveOneLessee, Exists
  <2> QED
    BY <2>1, <2>2 DEF RentalsHaveOneLessee, Exists
<1>11. ASSUME NEW b \in BlockNumber, NEW e \in Range(base[b])
       PROVE  Due(e[1], e[2], b)'
  <2>1. /\ e[1] # id /\ e[1] \in CollectibleId /\ e[2] \in AccountId
        /\ Due(e[1], e[2], b)
    BY <1>5
  <2> QED
    BY <1>6, <1>7, <2>1 DEF Due, Exists
<1> QED
  BY <1>4, <1>5, <1>10, <1>11, NewSchedule

LEMMA RenewRentalInv ==
  ASSUME RentalInv, NEW lessee \in AccountId, NEW id \in CollectibleId,
         RenewRental(id, lessee)
  PROVE  RentalsHaveOneLessee' /\ ScheduleAgreesWithRentals'
<1> USE DEF RentalInv
<1> DEFINE base == [b \in BlockNumber |->
                      IF b = block_number THEN Tail(rentals) ELSE PendingRentals[b]]
           interval == LesseeCollectibles[lessee][id].rental_periodic_interval
<1>1. /\ Processing(id, lessee)
      /\ LesseeCollectibles[lessee][id] # None
      /\ Collectibles[id].price_per_block # None
      /\ phase = "on_initialize"
      /\ block_number \in BlockNumber
  BY DEF RenewRental, Renews, Processing, TypeOK
<1>2. PICK c \in BlockNumber : c = AvailableBlock(PendingRentals, block_number, interval)
  <2>1. interval \in U32
    BY <1>1, RentalTypes DEF RentalPeriodConfig
  <2>2. SearchEnds(PendingRentals, block_number, interval)
    BY DEF RenewRental
  <2> HIDE DEF interval
  <2> QED
    BY <1>1, <2>1, <2>2, AvailableBlockHasRoom
<1>3. /\ PendingRentals' = Schedule(PendingRentals, c, id, lessee)
      /\ LesseeCollectibles' =
             [LesseeCollectibles EXCEPT ![lessee][id].next_rent_block = c]
      /\ rentals' = Tail(rentals)
      /\ UNCHANGED << Collectibles, block_number, phase >>
  BY <1>2 DEF RenewRental
<1>4. /\ RentalsHaveOneLessee'
      /\ Due(id, lessee, c)'
      /\ \A i \in CollectibleId, a \in AccountId, b \in BlockNumber :
             i # id /\ Due(i, a, b) => Due(i, a, b)'
  BY <1>1, <1>3, RescheduledRental
<1>5. \A b \in BlockNumber :
          base[b] = IF b = block_number THEN Tail(rentals) ELSE PendingRentals[b]
  OBVIOUS
<1> HIDE DEF base
<1>6. \A b \in BlockNumber : base[b] \in Seq(PendingRental) /\ DistinctIds(base[b])
  BY <1>1, <1>5, WithoutHead
<1>7. ASSUME NEW b \in BlockNumber, NEW e \in Range(base[b])
      PROVE  e[1] # id /\ Due(e[1], e[2], b)'
  <2>1. /\ e[1] # id /\ e[1] \in CollectibleId /\ e[2] \in AccountId
        /\ Due(e[1], e[2], b)
    BY <1>1, <1>5, WithoutHead
  <2> QED
    BY <1>4, <2>1
\* What is added to the block being processed is not seen: its entry is removed.
<1>8. CASE c = block_number
  <2>1. \A b \in BlockNumber : Scheduled(b)' = base[b]
    BY <1>1, <1>3, <1>5, <1>8 DEF Scheduled, Schedule, TypeOK
  <2> QED
    BY <1>4, <1>6, <1>7, <2>1, NewSchedule
<1>9. CASE c # block_number
  <2>1. \A b \in BlockNumber : Scheduled(b)' =
            IF b = c THEN Append(base[b], <<id, lessee>>) ELSE base[b]
    BY <1>1, <1>3, <1>5, <1>9 DEF Scheduled, Schedule, TypeOK
  <2> QED
    BY <1>4, <1>6, <1>7, <2>1, NewScheduleWithEntry
<1> QED
  BY <1>8, <1>9

\* The copy the hook takes of a block's entry, and the removal of that entry once
\* the copy is used up, leave the schedule what it is.
LEMMA BlockStepsKeepSchedule ==
  ASSUME TypeOK, BeginBlock \/ FinishRentals
  PROVE  \A b \in BlockNumber : Scheduled(b)' = Scheduled(b)
<1>1. CASE BeginBlock
  BY <1>1 DEF BeginBlock, InCall, Scheduled, storage
<1>2. CASE FinishRentals
  BY <1>2 DEF FinishRentals, RemoveBlock, Scheduled, TypeOK
<1> QED
  BY <1>1, <1>2

LEMMA BlockStepsInv ==
  ASSUME RentalInv, BeginBlock \/ FinishRentals
  PROVE  RentalsHaveOneLessee' /\ ScheduleAgreesWithRentals'
<1> USE DEF RentalInv
<1>1. UNCHANGED << Collectibles, LesseeCollectibles >>
  BY DEF BeginBlock, FinishRentals, storage
<1>2. RentalsHaveOneLessee'
  BY <1>1 DEF RentalsHaveOneLessee, Exists
<1>3. \A i \in CollectibleId, a \in AccountId, b \in BlockNumber :
          Due(i, a, b) => Due(i, a, b)'
  BY <1>1 DEF Due, Exists
<1> QED
  BY <1>2, <1>3, BlockStepsKeepSchedule, SameSchedule

--------------------------------------------------------------------------------

LEMMA InitInv == Init => RentalInv
<1> SUFFICES ASSUME Init PROVE RentalInv
  OBVIOUS
<1>1. TypeOK
  BY InitType
<1>2. RentalsHaveOneLessee
  BY DEF Init, RentalsHaveOneLessee, Exists
<1>3. \A b \in BlockNumber : Scheduled(b) = <<>>
  BY DEF Init, Scheduled
<1>4. ScheduleAgreesWithRentals
  BY <1>3 DEF ScheduleAgreesWithRentals, EntriesAreRentals, EntriesAreDistinct,
              DistinctIds, Range
<1> QED
  BY <1>1, <1>2, <1>4 DEF RentalInv

LEMMA NextInv ==
  ASSUME RentalInv, [Next]_vars
  PROVE  RentalInv'
<1>1. TypeOK'
  BY NextType DEF RentalInv
<1>2. RentalsHaveOneLessee' /\ ScheduleAgreesWithRentals'
  <2>1. CASE Call
    BY <2>1, MintInv, BurnInv, SetRentableInv, RentInv, SetUnrentableInv,
       SetRecurringInv, ExtendRentInv, OtherStepsInv DEF Call, CallBy
  <2>2. CASE BeginBlock \/ FinishRentals
    BY <2>2, BlockStepsInv
  <2>3. CASE ProcessRental
    BY <2>3, RemoveLesseeInv, RenewRentalInv, OtherStepsInv
       DEF ProcessRental, EndRental, CancelUnpaidRental
  <2>4. CASE OtherPallets
    BY <2>4, RentalsUntouched DEF OtherPallets, BalancesTransfer, ChargeFee, storage
  <2>5. CASE UNCHANGED vars
    BY <2>5, RentalsUntouched DEF vars, storage
  <2> QED
    BY <2>1, <2>2, <2>3, <2>4, <2>5 DEF Next, OnInitialize
<1> QED
  BY <1>1, <1>2 DEF RentalInv

\* The inductive invariant holds in every reachable state: what the pallet keeps
\* in three storage maps about a rental never disagrees.
THEOREM RentalInvariant == Spec => []RentalInv
<1>1. Init => RentalInv
  BY InitInv
<1>2. RentalInv /\ [Next]_vars => RentalInv'
  BY NextInv
<1> QED
  BY <1>1, <1>2, PTL DEF Spec

\* An account has a rental of a collectible exactly when it is its lessee, and
\* nobody rents what it owns.
THEOREM OneLessee == Spec => []RentalsHaveOneLessee
<1>1. RentalInv => RentalsHaveOneLessee
  BY DEF RentalInv
<1> QED
  BY <1>1, RentalInvariant, PTL

\* Every entry of PendingRentals is a rental due in that block, entered once.
THEOREM ScheduleAgrees == Spec => []ScheduleAgreesWithRentals
<1>1. RentalInv => ScheduleAgreesWithRentals
  BY DEF RentalInv
<1> QED
  BY <1>1, RentalInvariant, PTL

\* Whatever calls were made before, none of the values that
\* do_process_rental_periods unwraps is missing.
THEOREM HookNeverTraps == Spec => []OnInitializeNeverTraps
<1>1. ASSUME RentalInv PROVE OnInitializeNeverTraps
  <2>1. ASSUME phase = "on_initialize", NEW e \in Range(rentals)
        PROVE  Due(e[1], e[2], block_number)
    <3>1. block_number \in BlockNumber /\ Scheduled(block_number) = rentals
      BY <1>1, <2>1 DEF RentalInv, TypeOK, Scheduled
    <3> QED
      BY <1>1, <2>1, <3>1
         DEF RentalInv, ScheduleAgreesWithRentals, EntriesAreRentals
  <2> QED
    BY <2>1 DEF OnInitializeNeverTraps, Due, Exists
<1> QED
  BY <1>1, RentalInvariant, PTL

--------------------------------------------------------------------------------
\* What a lessee can count on

\* The hook takes a rental away in the block it is due in, and for a reason.
LEMMA RemovedWhenDue ==
  ASSUME RentalInv, NEW lessee \in AccountId, NEW id \in CollectibleId,
         EndRental(id, lessee) \/ CancelUnpaidRental(id, lessee),
         NEW i \in CollectibleId, Rented(i)
  PROVE  \/ Exists(i)' /\ Collectibles'[i].lessee = Collectibles[i].lessee
         \/ /\ phase = "on_initialize"
            /\ Lease(i).next_rent_block = block_number
            /\ ~ /\ Collectibles[i].rentable
                 /\ Lease(i).recurring
                 /\ CanRenew(i, Collectibles[i].lessee)
<1>1. /\ Processing(id, lessee)
      /\ RemoveLessee(id, lessee)
      /\ ~Continues(id, lessee) \/ ~CanRenew(id, lessee)
  BY DEF EndRental, CancelUnpaidRental
<1>2. CASE i # id
  BY <1>1, <1>2 DEF RemoveLessee, RentalInv, TypeOK, Rented, Exists
<1>3. CASE i = id
  <2>1. phase = "on_initialize" /\ block_number \in BlockNumber
    BY <1>1 DEF Processing, RentalInv, TypeOK
  <2>2. Due(id, lessee, block_number)
    <3> DEFINE base == IF block_number = block_number THEN Tail(rentals)
                       ELSE PendingRentals[block_number]
    <3> HIDE DEF base
    <3> QED
      BY <1>1, <2>1, WithoutHead
  <2>3. Collectibles[id].lessee = lessee /\ Lease(id) = LesseeCollectibles[lessee][id]
    BY <1>3, <2>2 DEF Due, Lease, Rented
  <2> QED
    BY <1>1, <1>3, <2>1, <2>2, <2>3 DEF Due, Continues, Rented
<1> QED
  BY <1>2, <1>3

\* No other step takes a rental away.
LEMMA LesseeStays ==
  ASSUME RentalInv, [Next]_vars, NEW i \in CollectibleId, Rented(i)
  PROVE  \/ Exists(i)' /\ Collectibles'[i].lessee = Collectibles[i].lessee
         \/ \E id \in CollectibleId, lessee \in AccountId :
                EndRental(id, lessee) \/ CancelUnpaidRental(id, lessee)
<1> DEFINE Stays == Exists(i)' /\ Collectibles'[i].lessee = Collectibles[i].lessee
<1> USE DEF RentalInv, TypeOK, Rented, Exists
<1>1. CASE UNCHANGED Collectibles
  BY <1>1
<1>2. ASSUME NEW sender \in AccountId, NEW id \in CollectibleId,
             \/ Mint(sender, id)
             \/ Burn(sender, id)
             \/ SetUnrentable(sender, id)
             \/ \E blocks \in Blocks, recurring \in BOOLEAN :
                    Rent(sender, id, blocks, recurring)
      PROVE  Stays
  <2>1. CASE Mint(sender, id)
    BY <2>1 DEF Mint, NewCollectible
  <2>2. CASE Burn(sender, id)
    BY <2>2 DEF Burn, OwnedAndVacant
  <2>3. CASE SetUnrentable(sender, id)
    <3>1. Collectibles[id] \in Collectible
      BY <2>3 DEF SetUnrentable
    <3>2. /\ [Collectibles[id] EXCEPT !.rentable = FALSE] \in Collectible
          /\ [Collectibles[id] EXCEPT !.rentable = FALSE].lessee = Collectibles[id].lessee
      BY <3>1 DEF Collectible
    <3> QED
      BY <2>3, <3>2, NoneAssumption DEF SetUnrentable
  <2>4. CASE \E blocks \in Blocks, recurring \in BOOLEAN :
                 Rent(sender, id, blocks, recurring)
    BY <2>4 DEF Rent, MayRent, NotAParty
  <2> QED
    BY <1>2, <2>1, <2>2, <2>3, <2>4
<1>3. ASSUME NEW sender \in AccountId, NEW id \in CollectibleId,
             NEW price \in Prices, NEW minimum \in Periods, NEW maximum \in Periods,
             SetRentable(sender, id, price, minimum, maximum)
      PROVE  Stays
  BY <1>3 DEF SetRentable, Offered, OwnedAndVacant
<1>4. CASE Call
  BY <1>1, <1>2, <1>3, <1>4
     DEF Call, CallBy, SetRecurring, ExtendRent, EquipCollectible, UnequipCollectible,
         RentSpins, ExtendRentSpins, storage
<1>5. CASE BeginBlock \/ FinishRentals \/ OtherPallets \/ UNCHANGED vars
  BY <1>1, <1>5
     DEF BeginBlock, FinishRentals, OtherPallets, BalancesTransfer, ChargeFee,
         vars, storage
<1>6. CASE ProcessRental
  BY <1>1, <1>6 DEF ProcessRental, RenewRental, RenewalSpins, storage
<1> QED
  BY <1>4, <1>5, <1>6 DEF Next, OnInitialize

\* A lessee loses a collectible in the hook of the block its rental is due in, and
\* only if it does not renew, the lessor has withdrawn it, or it cannot pay.
THEOREM LesseeIsSafeUntilDue == Spec => LesseeKeepsUntilDue
<1> DEFINE Safe(id) ==
              LET lessee == Collectibles[id].lessee IN
              Rented(id) =>
                 \/ Exists(id)' /\ Collectibles'[id].lessee = lessee
                 \/ /\ phase = "on_initialize"
                    /\ Lease(id).next_rent_block = block_number
                    /\ ~ /\ Collectibles[id].rentable
                         /\ Lease(id).recurring
                         /\ CanRenew(id, lessee)
<1>1. RentalInv /\ [Next]_vars => [\A id \in CollectibleId : Safe(id)]_vars
  BY LesseeStays, RemovedWhenDue
<1> QED
  BY <1>1, RentalInvariant, PTL DEF Spec, LesseeKeepsUntilDue

================================================================================
