------------------------------ MODULE LeaseProofs ------------------------------
(***************************************************************************)
(* What becomes of a rental over time: the schedule never forgets it, only *)
(* a full block moves it from the block it asks for, only a period of no   *)
(* block or a number that wraps leaves it behind, and whoever pays for     *)
(* blocks gets them.                                                       *)
(*                                                                         *)
(* The first part states, once and for all proofs, what each step does to  *)
(* the rentals: which one it makes, moves or ends, and that it leaves the  *)
(* others alone.  No theorem restricts the parameters.                     *)
(***************************************************************************)
EXTENDS ScheduleProofs

--------------------------------------------------------------------------------
\* What the steps do to the rentals

\* Every rental but that of id by lessee is what it was.
OthersKept(lessee, id) ==
    \A a \in AccountId, i \in CollectibleId :
        a # lessee \/ i # id => LesseeCollectibles'[a][i] = LesseeCollectibles[a][i]

\* rent makes a rental, due in the block c that the search has found.
RentMade(sender, id, blocks, recurring, c) ==
    /\ c = AvailableBlock(PendingRentals, block_number, blocks)
    /\ HasRoomAt(PendingRentals, c)
    /\ PendingRentals' = Schedule(PendingRentals, c, id, sender)
    /\ LesseeCollectibles'[sender][id] \in RentalPeriodConfig
    /\ LesseeCollectibles'[sender][id].rental_periodic_interval = blocks
    /\ LesseeCollectibles'[sender][id].next_rent_block = c
    /\ LesseeCollectibles'[sender][id].recurring = recurring
    /\ OthersKept(sender, id)

LEMMA RentEffect ==
  ASSUME TypeOK, NEW sender \in AccountId, NEW id \in CollectibleId,
         NEW blocks \in Blocks, NEW recurring \in BOOLEAN,
         Rent(sender, id, blocks, recurring)
  PROVE  \E c \in BlockNumber : RentMade(sender, id, blocks, recurring, c)
<1>1. PICK c \in BlockNumber :
          /\ c = AvailableBlock(PendingRentals, block_number, blocks)
          /\ HasRoomAt(PendingRentals, c)
  <2>1. blocks \in U32 /\ SearchEnds(PendingRentals, block_number, blocks)
    BY InputsAssumption DEF Rent
  <2> QED
    BY <2>1, AvailableBlockHasRoom DEF TypeOK
<1> DEFINE rental == [ rental_periodic_interval |-> blocks,
                       next_rent_block          |-> c,
                       recurring                |-> recurring ]
<1>2. /\ PendingRentals' = Schedule(PendingRentals, c, id, sender)
      /\ LesseeCollectibles' = [LesseeCollectibles EXCEPT ![sender][id] = rental]
  BY <1>1 DEF Rent
<1>3. /\ rental \in RentalPeriodConfig
      /\ rental.rental_periodic_interval = blocks
      /\ rental.next_rent_block = c
      /\ rental.recurring = recurring
  BY InputsAssumption DEF RentalPeriodConfig
<1> HIDE DEF rental
<1>4. LesseeCollectibles'[sender][id] = rental /\ OthersKept(sender, id)
  BY <1>2 DEF TypeOK, OthersKept
<1>5. RentMade(sender, id, blocks, recurring, c)
  BY <1>1, <1>2, <1>3, <1>4 DEF RentMade
<1> QED
  BY <1>5

\* set_recurring changes one field of one rental.
LEMMA SetRecurringEffect ==
  ASSUME TypeOK, NEW sender \in AccountId, NEW id \in CollectibleId,
         NEW recurring \in BOOLEAN, SetRecurring(sender, id, recurring)
  PROVE  LET before == LesseeCollectibles[sender][id]
             after == LesseeCollectibles'[sender][id]
         IN  /\ before \in RentalPeriodConfig /\ after \in RentalPeriodConfig
             /\ after.rental_periodic_interval = before.rental_periodic_interval
             /\ after.next_rent_block = before.next_rent_block
             /\ after.recurring = recurring
             /\ OthersKept(sender, id)
<1> DEFINE rental == [LesseeCollectibles[sender][id] EXCEPT !.recurring = recurring]
<1>1. LesseeCollectibles[sender][id] \in RentalPeriodConfig
  BY RentalTypes DEF SetRecurring
<1>2. /\ rental \in RentalPeriodConfig
      /\ rental.next_rent_block = LesseeCollectibles[sender][id].next_rent_block
      /\ rental.rental_periodic_interval =
             LesseeCollectibles[sender][id].rental_periodic_interval
      /\ rental.recurring = recurring
  BY <1>1 DEF RentalPeriodConfig
<1>3. LesseeCollectibles'[sender][id] = rental /\ OthersKept(sender, id)
  BY DEF SetRecurring, TypeOK, OthersKept
<1> HIDE DEF rental
<1> QED
  BY <1>1, <1>2, <1>3

\* extend_rent and a renewal move the block a rental is due in to c.
Moved(lessee, id, c) ==
    LET before == LesseeCollectibles[lessee][id]
        after == LesseeCollectibles'[lessee][id]
    IN  /\ before \in RentalPeriodConfig /\ after \in RentalPeriodConfig
        /\ after.rental_periodic_interval = before.rental_periodic_interval
        /\ after.next_rent_block = c
        /\ after.recurring = before.recurring
        /\ OthersKept(lessee, id)

LEMMA MovedRental ==
  ASSUME TypeOK, NEW lessee \in AccountId, NEW id \in CollectibleId,
         LesseeCollectibles[lessee][id] # None, NEW c \in BlockNumber,
         LesseeCollectibles' =
             [LesseeCollectibles EXCEPT ![lessee][id].next_rent_block = c]
  PROVE  Moved(lessee, id, c)
<1> DEFINE rental == [LesseeCollectibles[lessee][id] EXCEPT !.next_rent_block = c]
<1>1. LesseeCollectibles[lessee][id] \in RentalPeriodConfig
  BY RentalTypes
<1>2. /\ rental \in RentalPeriodConfig
      /\ rental.next_rent_block = c
      /\ rental.rental_periodic_interval =
             LesseeCollectibles[lessee][id].rental_periodic_interval
      /\ rental.recurring = LesseeCollectibles[lessee][id].recurring
  BY <1>1 DEF RentalPeriodConfig
<1>3. LesseeCollectibles'[lessee][id] = rental /\ OthersKept(lessee, id)
  BY DEF TypeOK, OthersKept
<1> HIDE DEF rental
<1> QED
  BY <1>1, <1>2, <1>3 DEF Moved

\* extend_rent searches from the block the rental was due in, in a schedule base
\* from which it has been taken out.
Extended(sender, id, blocks, due, c, base) ==
    /\ due = LesseeCollectibles[sender][id].next_rent_block
    /\ c = AvailableBlock(base, due, blocks)
    /\ HasRoomAt(base, c)
    /\ \A b \in BlockNumber : base[b] =
           IF b = due THEN Retain(PendingRentals[b], {id} \X AccountId)
           ELSE PendingRentals[b]
    /\ PendingRentals' = Schedule(base, c, id, sender)
    /\ Moved(sender, id, c)

LEMMA ExtendRentEffect ==
  ASSUME TypeOK, NEW sender \in AccountId, NEW id \in CollectibleId,
         NEW blocks \in Blocks, ExtendRent(sender, id, blocks)
  PROVE  \E due, c \in BlockNumber, base \in PendingType :
             Extended(sender, id, blocks, due, c, base)
<1>1. LesseeCollectibles[sender][id] # None
  BY DEF ExtendRent, MayExtend
<1>2. PICK due \in BlockNumber : due = LesseeCollectibles[sender][id].next_rent_block
  BY <1>1, RentalTypes DEF RentalPeriodConfig
<1>3. PICK base \in PendingType : base = WithoutRental(sender, id)
  BY <1>1, <1>2, RentalTypes, UnscheduleType DEF WithoutRental
<1>4. base = [PendingRentals EXCEPT ![due] = Retain(@, {id} \X AccountId)]
  BY <1>2, <1>3 DEF WithoutRental, Unschedule
<1>5. \A b \in BlockNumber : base[b] =
          IF b = due THEN Retain(PendingRentals[b], {id} \X AccountId)
          ELSE PendingRentals[b]
  BY <1>4 DEF TypeOK
<1>6. PICK c \in BlockNumber : c = AvailableBlock(base, due, blocks) /\ HasRoomAt(base, c)
  <2>1. blocks \in U32 /\ SearchEnds(base, due, blocks)
    BY <1>2, <1>3, InputsAssumption DEF ExtendRent
  <2> QED
    BY <2>1, AvailableBlockHasRoom DEF TypeOK
<1>7. /\ PendingRentals' = Schedule(base, c, id, sender)
      /\ LesseeCollectibles' =
             [LesseeCollectibles EXCEPT ![sender][id].next_rent_block = c]
  BY <1>2, <1>3, <1>6 DEF ExtendRent
<1>8. Moved(sender, id, c)
  BY <1>1, <1>7, MovedRental
<1>9. Extended(sender, id, blocks, due, c, base)
  BY <1>2, <1>5, <1>6, <1>7, <1>8 DEF Extended
<1> QED
  BY <1>9

\* A renewal searches from the current block.
Renewed(lessee, id, interval, c) ==
    /\ interval = LesseeCollectibles[lessee][id].rental_periodic_interval
    /\ c = AvailableBlock(PendingRentals, block_number, interval)
    /\ HasRoomAt(PendingRentals, c)
    /\ PendingRentals' = Schedule(PendingRentals, c, id, lessee)
    /\ Moved(lessee, id, c)

LEMMA RenewRentalEffect ==
  ASSUME TypeOK, NEW lessee \in AccountId, NEW id \in CollectibleId,
         RenewRental(id, lessee)
  PROVE  \E interval \in U32, c \in BlockNumber : Renewed(lessee, id, interval, c)
<1>1. LesseeCollectibles[lessee][id] # None
  BY DEF RenewRental, Renews, Processing
<1>2. PICK interval \in U32 :
          interval = LesseeCollectibles[lessee][id].rental_periodic_interval
  BY <1>1, RentalTypes DEF RentalPeriodConfig
<1>3. PICK c \in BlockNumber :
          /\ c = AvailableBlock(PendingRentals, block_number, interval)
          /\ HasRoomAt(PendingRentals, c)
  <2>1. SearchEnds(PendingRentals, block_number, interval)
    BY <1>2 DEF RenewRental
  <2> QED
    BY <2>1, AvailableBlockHasRoom DEF TypeOK
<1>4. /\ PendingRentals' = Schedule(PendingRentals, c, id, lessee)
      /\ LesseeCollectibles' =
             [LesseeCollectibles EXCEPT ![lessee][id].next_rent_block = c]
  BY <1>2, <1>3 DEF RenewRental
<1>5. Moved(lessee, id, c)
  BY <1>1, <1>4, MovedRental
<1>6. Renewed(lessee, id, interval, c)
  BY <1>2, <1>3, <1>4, <1>5 DEF Renewed
<1> QED
  BY <1>6

\* The hook ends one rental.
LEMMA RemoveLesseeEffect ==
  ASSUME TypeOK, NEW lessee \in AccountId, NEW id \in CollectibleId,
         RemoveLessee(id, lessee)
  PROVE  LesseeCollectibles'[lessee][id] = None /\ OthersKept(lessee, id)
  BY DEF RemoveLessee, TypeOK, OthersKept

--------------------------------------------------------------------------------
\* No rental is forgotten

LEMMA AppendRange ==
  ASSUME NEW S, NEW s \in Seq(S), NEW x \in S
  PROVE  Range(Append(s, x)) = Range(s) \cup {x}
<1> DEFINE t == Append(s, x)
<1>1. /\ Len(s) \in Nat
      /\ DOMAIN s = 1 .. Len(s)
      /\ DOMAIN t = 1 .. Len(s) + 1
      /\ \A i \in DOMAIN s : t[i] = s[i]
      /\ t[Len(s) + 1] = x
  OBVIOUS
<1> HIDE DEF t
<1>2. \A i : i \in DOMAIN t <=> i \in DOMAIN s \/ i = Len(s) + 1
  BY <1>1
<1>3. ASSUME NEW e PROVE e \in Range(t) <=> e \in Range(s) \/ e = x
  BY <1>1, <1>2 DEF Range
<1> QED
  BY <1>3 DEF t

\* What is not at the head of a sequence is in its tail.
LEMMA TailRange ==
  ASSUME NEW S, NEW s \in Seq(S), s # <<>>, NEW e \in Range(s), e # Head(s)
  PROVE  e \in Range(Tail(s))
<1>1. PICK i \in DOMAIN s : s[i] = e
  BY DEF Range
<1>2. /\ i \in 2 .. Len(s) /\ Len(s) \in Nat
      /\ Head(s) = s[1]
  BY <1>1
<1>3. /\ i - 1 \in DOMAIN Tail(s)
      /\ Tail(s)[i - 1] = s[(i - 1) + 1]
  BY <1>2
<1>4. (i - 1) + 1 = i
  BY <1>2
<1> QED
  BY <1>1, <1>3, <1>4 DEF Range

\* RentalsStayScheduled in the next state, with the block as a parameter.
LEMMA StayScheduled ==
  ASSUME TypeOK',
         \A a \in AccountId, i \in CollectibleId, b \in BlockNumber :
             /\ LesseeCollectibles'[a][i] # None
             /\ LesseeCollectibles'[a][i].rental_periodic_interval # 0
             /\ LesseeCollectibles'[a][i].next_rent_block = b
             => <<i, a>> \in Range(Scheduled(b)')
  PROVE  RentalsStayScheduled'
<1>1. \A a \in AccountId, i \in CollectibleId :
          LesseeCollectibles'[a][i] # None =>
              LesseeCollectibles'[a][i].next_rent_block \in BlockNumber
  BY DEF TypeOK, RentalPeriodConfig
<1> QED
  BY <1>1 DEF RentalsStayScheduled, Scheduled

\* A step that touches the rental of id by lessee only, keeps the entries of the
\* other collectibles, and leaves that rental, if there is one, in the schedule.
LEMMA StillScheduled ==
  ASSUME RentalsStayScheduled, TypeOK',
         NEW lessee \in AccountId, NEW id \in CollectibleId,
         OthersKept(lessee, id),
         \A b \in BlockNumber, i \in CollectibleId, a \in AccountId :
             i # id /\ <<i, a>> \in Range(Scheduled(b)) =>
                 <<i, a>> \in Range(Scheduled(b)'),
         \A b \in BlockNumber :
             /\ LesseeCollectibles'[lessee][id] # None
             /\ LesseeCollectibles'[lessee][id].rental_periodic_interval # 0
             /\ LesseeCollectibles'[lessee][id].next_rent_block = b
             => <<id, lessee>> \in Range(Scheduled(b)'),
         \A a \in AccountId : a # lessee => LesseeCollectibles'[a][id] = None
  PROVE  RentalsStayScheduled'
<1>1. ASSUME NEW a \in AccountId, NEW i \in CollectibleId, NEW b \in BlockNumber,
             LesseeCollectibles'[a][i] # None,
             LesseeCollectibles'[a][i].rental_periodic_interval # 0,
             LesseeCollectibles'[a][i].next_rent_block = b
      PROVE  <<i, a>> \in Range(Scheduled(b)')
  <2>1. CASE i = id
    BY <1>1, <2>1
  <2>2. CASE i # id
    <3>1. LesseeCollectibles'[a][i] = LesseeCollectibles[a][i]
      BY <2>2 DEF OthersKept
    <3>2. <<i, a>> \in Range(Scheduled(b))
      BY <1>1, <3>1 DEF RentalsStayScheduled
    <3> QED
      BY <2>2, <3>2
  <2> QED
    BY <2>1, <2>2
<1> QED
  BY <1>1, StayScheduled

\* Neither the rentals nor the schedule change.
LEMMA ScheduleUntouched ==
  ASSUME RentalsStayScheduled, TypeOK', UNCHANGED LesseeCollectibles,
         \A b \in BlockNumber : Scheduled(b)' = Scheduled(b)
  PROVE  RentalsStayScheduled'
<1>1. ASSUME NEW a \in AccountId, NEW i \in CollectibleId, NEW b \in BlockNumber,
             LesseeCollectibles'[a][i] # None,
             LesseeCollectibles'[a][i].rental_periodic_interval # 0,
             LesseeCollectibles'[a][i].next_rent_block = b
      PROVE  <<i, a>> \in Range(Scheduled(b)')
  <2>1. <<i, a>> \in Range(Scheduled(b))
    BY <1>1 DEF RentalsStayScheduled
  <2> QED
    BY <2>1
<1> QED
  BY <1>1, StayScheduled

\* A collectible that one account rents is rented by no other.
LEMMA NoOtherLessee ==
  ASSUME RentalInv, NEW lessee \in AccountId, NEW id \in CollectibleId,
         LesseeCollectibles[lessee][id] # None
  PROVE  \A a \in AccountId : a # lessee => LesseeCollectibles[a][id] = None
  BY DEF RentalInv, RentalsHaveOneLessee

\* The entry <<id, lessee>> is appended to block c of pending, which becomes the
\* schedule of the next state.
LEMMA ScheduledRange ==
  ASSUME NEW pending \in PendingType, NEW c \in BlockNumber,
         NEW id \in CollectibleId, NEW lessee \in AccountId, NEW b \in BlockNumber
  PROVE  Range(Schedule(pending, c, id, lessee)[b]) =
             IF b = c THEN Range(pending[b]) \cup {<<id, lessee>>} ELSE Range(pending[b])
<1>1. Schedule(pending, c, id, lessee)[b] =
          IF b = c THEN Append(pending[b], <<id, lessee>>) ELSE pending[b]
  BY DEF Schedule, PendingType
<1>2. pending[b] \in Seq(PendingRental) /\ <<id, lessee>> \in PendingRental
  BY DEF PendingType, BoundedVec, PendingRental
<1>3. Range(Append(pending[b], <<id, lessee>>)) = Range(pending[b]) \cup {<<id, lessee>>}
  BY <1>2, AppendRange
<1> QED
  BY <1>1, <1>3

LEMMA RentStays ==
  ASSUME RentalInv, TypeOK', RentalsStayScheduled,
         NEW sender \in AccountId, NEW id \in CollectibleId,
         NEW blocks \in Blocks, NEW recurring \in BOOLEAN,
         Rent(sender, id, blocks, recurring)
  PROVE  RentalsStayScheduled'
<1> USE DEF RentalInv
<1>1. PICK c \in BlockNumber : RentMade(sender, id, blocks, recurring, c)
  BY RentEffect
<1>2. phase = "extrinsics" /\ UNCHANGED clock /\ Collectibles[id].lessee = None
  BY DEF Rent, MayRent, InCall, NotAParty
<1>3. \A b \in BlockNumber :
          Scheduled(b) = PendingRentals[b] /\ Scheduled(b)' = PendingRentals'[b]
  BY <1>2 DEF Scheduled, clock
<1>4. PendingRentals \in PendingType
  BY DEF TypeOK, PendingType
<1>5. \A b \in BlockNumber : Range(Scheduled(b)') =
          IF b = c THEN Range(Scheduled(b)) \cup {<<id, sender>>} ELSE Range(Scheduled(b))
  <2> TAKE b \in BlockNumber
  <2>1. PendingRentals'[b] = Schedule(PendingRentals, c, id, sender)[b]
    BY <1>1 DEF RentMade
  <2>2. Scheduled(b) = PendingRentals[b] /\ Scheduled(b)' = PendingRentals'[b]
    BY <1>3
  <2>3. Range(Schedule(PendingRentals, c, id, sender)[b]) =
            IF b = c THEN Range(PendingRentals[b]) \cup {<<id, sender>>}
            ELSE Range(PendingRentals[b])
    BY <1>4, ScheduledRange
  <2> QED
    BY <2>1, <2>2, <2>3
<1>6. \A a \in AccountId : a # sender => LesseeCollectibles'[a][id] = None
  BY <1>1, <1>2, NoneAssumption DEF RentMade, OthersKept, RentalsHaveOneLessee
<1>7. LesseeCollectibles'[sender][id].next_rent_block = c /\ OthersKept(sender, id)
  BY <1>1 DEF RentMade
<1> QED
  BY <1>5, <1>6, <1>7, StillScheduled

LEMMA SetRecurringStays ==
  ASSUME RentalInv, TypeOK', RentalsStayScheduled,
         NEW sender \in AccountId, NEW id \in CollectibleId,
         NEW recurring \in BOOLEAN, SetRecurring(sender, id, recurring)
  PROVE  RentalsStayScheduled'
<1> USE DEF RentalInv
<1>1. LesseeCollectibles[sender][id] # None /\ UNCHANGED << PendingRentals, clock >>
  BY DEF SetRecurring
<1>2. /\ LesseeCollectibles'[sender][id].rental_periodic_interval =
             LesseeCollectibles[sender][id].rental_periodic_interval
      /\ LesseeCollectibles'[sender][id].next_rent_block =
             LesseeCollectibles[sender][id].next_rent_block
      /\ OthersKept(sender, id)
  BY SetRecurringEffect
<1>3. \A b \in BlockNumber : Scheduled(b)' = Scheduled(b)
  BY <1>1, SameClock
<1>4. \A a \in AccountId : a # sender => LesseeCollectibles'[a][id] = None
  BY <1>1, <1>2, NoOtherLessee DEF OthersKept
<1>5. \A b \in BlockNumber :
          /\ LesseeCollectibles[sender][id].rental_periodic_interval # 0
          /\ LesseeCollectibles[sender][id].next_rent_block = b
          => <<id, sender>> \in Range(Scheduled(b))
  BY <1>1 DEF RentalsStayScheduled
<1> QED
  BY <1>2, <1>3, <1>4, <1>5, StillScheduled

LEMMA ExtendRentStays ==
  ASSUME RentalInv, TypeOK', RentalsStayScheduled,
         NEW sender \in AccountId, NEW id \in CollectibleId,
         NEW blocks \in Blocks, ExtendRent(sender, id, blocks)
  PROVE  RentalsStayScheduled'
<1> USE DEF RentalInv
<1>1. PICK due \in BlockNumber, c \in BlockNumber, base \in PendingType :
          Extended(sender, id, blocks, due, c, base)
  BY ExtendRentEffect
<1>2. /\ phase = "extrinsics" /\ UNCHANGED clock
      /\ LesseeCollectibles[sender][id] # None
  BY DEF ExtendRent, MayExtend, InCall
<1>3. \A b \in BlockNumber :
          Scheduled(b) = PendingRentals[b] /\ Scheduled(b)' = PendingRentals'[b]
  BY <1>2 DEF Scheduled, clock
<1>4. \A b \in BlockNumber : Range(Scheduled(b)') =
          IF b = c THEN Range(base[b]) \cup {<<id, sender>>} ELSE Range(base[b])
  <2> TAKE b \in BlockNumber
  <2>1. PendingRentals'[b] = Schedule(base, c, id, sender)[b]
    BY <1>1 DEF Extended
  <2>2. Scheduled(b)' = PendingRentals'[b]
    BY <1>3
  <2>3. Range(Schedule(base, c, id, sender)[b]) =
            IF b = c THEN Range(base[b]) \cup {<<id, sender>>} ELSE Range(base[b])
    BY ScheduledRange
  <2> QED
    BY <2>1, <2>2, <2>3
<1>5. ASSUME NEW b \in BlockNumber, NEW i \in CollectibleId, NEW a \in AccountId,
             i # id, <<i, a>> \in Range(Scheduled(b))
      PROVE  <<i, a>> \in Range(base[b])
  <2>1. PendingRentals[b] \in Seq(PendingRental)
    BY <1>3, EntryTypes
  <2>2. Range(Retain(PendingRentals[b], {id} \X AccountId)) =
            Range(PendingRentals[b]) \ ({id} \X AccountId)
    BY <2>1, RetainProperties
  <2>3. <<i, a>> \notin {id} \X AccountId
    BY <1>5
  <2> QED
    BY <1>1, <1>3, <1>5, <2>2, <2>3 DEF Extended
<1>6. \A a \in AccountId : a # sender => LesseeCollectibles'[a][id] = None
  BY <1>1, <1>2, NoOtherLessee DEF Extended, Moved, OthersKept
<1>7. LesseeCollectibles'[sender][id].next_rent_block = c /\ OthersKept(sender, id)
  BY <1>1 DEF Extended, Moved
<1> QED
  BY <1>4, <1>5, <1>6, <1>7, StillScheduled

\* The loop moves on: what is left of it has the entries it had, but its head.
LEMMA LoopMovesOn ==
  ASSUME TypeOK, NEW lessee \in AccountId, NEW id \in CollectibleId,
         Processing(id, lessee), NEW b \in BlockNumber,
         NEW i \in CollectibleId, NEW a \in AccountId,
         i # id, <<i, a>> \in Range(Scheduled(b))
  PROVE  <<i, a>> \in Range(IF b = block_number THEN Tail(rentals) ELSE PendingRentals[b])
<1>1. /\ phase = "on_initialize"
      /\ rentals # <<>> /\ Head(rentals) = <<id, lessee>>
      /\ rentals \in Seq(PendingRental)
  BY DEF Processing, TypeOK, BoundedVec
<1>2. CASE b = block_number
  <2>1. <<i, a>> \in Range(rentals) /\ <<i, a>> # Head(rentals)
    BY <1>1, <1>2 DEF Scheduled
  <2>2. <<i, a>> \in Range(Tail(rentals))
    BY <1>1, <2>1, TailRange
  <2> QED
    BY <1>2, <2>2
<1>3. CASE b # block_number
  BY <1>3 DEF Scheduled
<1> QED
  BY <1>2, <1>3

LEMMA RemoveLesseeStays ==
  ASSUME RentalInv, TypeOK', RentalsStayScheduled,
         NEW lessee \in AccountId, NEW id \in CollectibleId,
         Processing(id, lessee), RemoveLessee(id, lessee)
  PROVE  RentalsStayScheduled'
<1> USE DEF RentalInv
<1>1. /\ phase = "on_initialize"
      /\ LesseeCollectibles[lessee][id] # None
      /\ rentals' = Tail(rentals)
      /\ UNCHANGED << PendingRentals, block_number, phase >>
  BY DEF Processing, RemoveLessee
<1>2. LesseeCollectibles'[lessee][id] = None /\ OthersKept(lessee, id)
  BY RemoveLesseeEffect
<1>3. ASSUME NEW b \in BlockNumber, NEW i \in CollectibleId, NEW a \in AccountId,
             i # id, <<i, a>> \in Range(Scheduled(b))
      PROVE  <<i, a>> \in Range(Scheduled(b)')
  <2>1. Scheduled(b)' = IF b = block_number THEN Tail(rentals) ELSE PendingRentals[b]
    BY <1>1 DEF Scheduled
  <2> QED
    BY <1>3, <2>1, LoopMovesOn
<1>4. \A a \in AccountId : a # lessee => LesseeCollectibles'[a][id] = None
  BY <1>1, <1>2, NoOtherLessee DEF OthersKept
<1> QED
  BY <1>2, <1>3, <1>4, StillScheduled

\* A renewal for at least one block is not entered in the block that the loop
\* works on, which would be forgotten with it.
LEMMA RenewedElsewhere ==
  ASSUME NEW b \in BlockNumber, NEW interval \in U32, interval # 0
  PROVE  (b + interval) % U32Size # b
<1> DEFINE n == U32Size
<1>1. b \in Nat /\ interval \in Nat /\ n \in Nat /\ b < n /\ 0 < interval /\ interval < n
  BY SizesAssumption DEF BlockNumber, U32
<1> HIDE DEF n
<1>2. CASE b + interval < n
  <2>1. (b + interval) % n = b + interval
    BY <1>1, <1>2
  <2> QED
    BY <1>1, <2>1 DEF n
<1>3. CASE b + interval >= n
  <2>1. b + interval - n \in 0 .. n - 1
    BY <1>1, <1>3
  <2>2. (b + interval) % n = b + interval - n
    BY <1>1, <2>1
  <2> QED
    BY <1>1, <2>2 DEF n
<1> QED
  BY <1>1, <1>2, <1>3

LEMMA RenewRentalStays ==
  ASSUME RentalInv, TypeOK', RentalsStayScheduled,
         NEW lessee \in AccountId, NEW id \in CollectibleId, RenewRental(id, lessee)
  PROVE  RentalsStayScheduled'
<1> USE DEF RentalInv
<1>1. PICK interval \in U32, c \in BlockNumber : Renewed(lessee, id, interval, c)
  BY RenewRentalEffect
<1>2. /\ Processing(id, lessee)
      /\ phase = "on_initialize"
      /\ block_number \in BlockNumber
      /\ LesseeCollectibles[lessee][id] # None
      /\ rentals' = Tail(rentals)
      /\ UNCHANGED << block_number, phase >>
  BY DEF RenewRental, Renews, Processing, TypeOK
<1>3. PendingRentals \in PendingType
  BY DEF TypeOK, PendingType
<1>4. ASSUME NEW b \in BlockNumber, b # block_number
      PROVE  Range(Scheduled(b)') =
                 IF b = c THEN Range(PendingRentals[b]) \cup {<<id, lessee>>}
                 ELSE Range(PendingRentals[b])
  <2>1. PendingRentals'[b] = Schedule(PendingRentals, c, id, lessee)[b]
    BY <1>1 DEF Renewed
  <2>2. Scheduled(b)' = PendingRentals'[b]
    BY <1>2, <1>4 DEF Scheduled
  <2>3. Range(Schedule(PendingRentals, c, id, lessee)[b]) =
            IF b = c THEN Range(PendingRentals[b]) \cup {<<id, lessee>>}
            ELSE Range(PendingRentals[b])
    BY <1>3, ScheduledRange
  <2> QED
    BY <2>1, <2>2, <2>3
<1>5. Scheduled(block_number)' = Tail(rentals)
  BY <1>2 DEF Scheduled
<1>6. ASSUME NEW b \in BlockNumber, NEW i \in CollectibleId, NEW a \in AccountId,
             i # id, <<i, a>> \in Range(Scheduled(b))
      PROVE  <<i, a>> \in Range(Scheduled(b)')
  <2>1. <<i, a>> \in Range(IF b = block_number THEN Tail(rentals) ELSE PendingRentals[b])
    BY <1>2, <1>6, LoopMovesOn
  <2>2. CASE b = block_number
    <3>1. Scheduled(b)' = Tail(rentals)
      BY <1>2, <2>2 DEF Scheduled
    <3> QED
      BY <2>1, <2>2, <3>1
  <2>3. CASE b # block_number
    BY <1>4, <2>1, <2>3
  <2> QED
    BY <2>2, <2>3
<1>7. /\ LesseeCollectibles'[lessee][id].rental_periodic_interval = interval
      /\ LesseeCollectibles'[lessee][id].next_rent_block = c
      /\ OthersKept(lessee, id)
  BY <1>1 DEF Renewed, Moved
<1>8. ASSUME interval # 0 PROVE c # block_number
  <2>1. RequestedBlock(block_number, interval) # block_number
    BY <1>2, <1>8, RenewedElsewhere DEF RequestedBlock
  <2>2. FollowingBlock # block_number
    BY <1>2, InputsAssumption, RenewedElsewhere DEF FollowingBlock
  <2> QED
    BY <1>1, <2>1, <2>2 DEF Renewed, AvailableBlock
<1>9. ASSUME interval # 0 PROVE <<id, lessee>> \in Range(Scheduled(c)')
  BY <1>4, <1>8, <1>9
<1>10. \A a \in AccountId : a # lessee => LesseeCollectibles'[a][id] = None
  BY <1>2, <1>7, NoOtherLessee DEF OthersKept
<1>11. ASSUME NEW b \in BlockNumber,
              LesseeCollectibles'[lessee][id].rental_periodic_interval # 0,
              LesseeCollectibles'[lessee][id].next_rent_block = b
       PROVE  <<id, lessee>> \in Range(Scheduled(b)')
  <2>1. b = c /\ interval # 0
    BY <1>7, <1>11
  <2> QED
    BY <1>9, <2>1
<1> QED
  BY <1>6, <1>7, <1>10, <1>11, StillScheduled

LEMMA BlockStepsStay ==
  ASSUME RentalInv, TypeOK', RentalsStayScheduled, BeginBlock \/ FinishRentals
  PROVE  RentalsStayScheduled'
<1>1. UNCHANGED LesseeCollectibles
  BY DEF BeginBlock, FinishRentals, storage
<1>2. \A b \in BlockNumber : Scheduled(b)' = Scheduled(b)
  BY BlockStepsKeepSchedule DEF RentalInv
<1> QED
  BY <1>1, <1>2, ScheduleUntouched

\* The steps that touch neither the rentals nor the schedule.
LEMMA OtherStepsStay ==
  ASSUME RentalsStayScheduled, TypeOK',
         UNCHANGED << LesseeCollectibles, PendingRentals, clock >>
  PROVE  RentalsStayScheduled'
  BY SameClock, ScheduleUntouched

LEMMA NextStays ==
  ASSUME RentalInv, RentalsStayScheduled, [Next]_vars
  PROVE  RentalsStayScheduled'
<1>1. TypeOK'
  BY NextType DEF RentalInv
<1>2. CASE Call
  <2> USE <1>1, OtherStepsStay
  <2> SUFFICES ASSUME NEW sender \in AccountId, NEW id \in CollectibleId,
                      \/ \E blocks \in Blocks, recurring \in BOOLEAN :
                             Rent(sender, id, blocks, recurring)
                      \/ \E recurring \in BOOLEAN : SetRecurring(sender, id, recurring)
                      \/ \E blocks \in Blocks : ExtendRent(sender, id, blocks)
               PROVE  RentalsStayScheduled'
    BY <1>2 DEF Call, CallBy, Mint, Burn, SetRentable, SetUnrentable, RentSpins,
                ExtendRentSpins, EquipCollectible, UnequipCollectible, storage
  <2> QED
    BY RentStays, SetRecurringStays, ExtendRentStays
<1>3. CASE BeginBlock \/ FinishRentals
  BY <1>1, <1>3, BlockStepsStay
<1>4. CASE ProcessRental
  BY <1>1, <1>4, RemoveLesseeStays, RenewRentalStays, OtherStepsStay
     DEF ProcessRental, EndRental, CancelUnpaidRental, RenewalSpins, storage
<1>5. CASE OtherPallets \/ UNCHANGED vars
  BY <1>1, <1>5, OtherStepsStay
     DEF OtherPallets, BalancesTransfer, ChargeFee, storage, vars
<1> QED
  BY <1>2, <1>3, <1>4, <1>5 DEF Next, OnInitialize

\* The hook of the next block begins with everything that is due in it, but for
\* the rentals of no block.
HookTakesUpWhatIsDue ==
    [][BeginBlock =>
         \A a \in AccountId, id \in CollectibleId :
             LET rental == LesseeCollectibles[a][id] IN
             /\ rental # None
             /\ rental.rental_periodic_interval # 0
             /\ rental.next_rent_block = block_number'
             => <<id, a>> \in Range(rentals') ]_vars

\* RentalsStayScheduled, whatever the capacities, the widths and the calls: the
\* schedule never loses a rental of at least one block.  The search enters it in the
\* block that it makes its due block, and neither an extension nor the removal of a
\* processed block drops it, so that a hook that reaches that block takes it up.
THEOREM NoRentalIsForgotten == Spec => []RentalsStayScheduled /\ HookTakesUpWhatIsDue
<1> DEFINE TakesUp ==
        BeginBlock =>
            \A a \in AccountId, id \in CollectibleId :
                /\ LesseeCollectibles[a][id] # None
                /\ LesseeCollectibles[a][id].rental_periodic_interval # 0
                /\ LesseeCollectibles[a][id].next_rent_block = block_number'
                => <<id, a>> \in Range(rentals')
<1>1. Init => RentalInv /\ RentalsStayScheduled
  <2>1. Init => RentalsStayScheduled
    BY DEF Init, RentalsStayScheduled
  <2> QED
    BY <2>1, InitInv
<1>2. RentalInv /\ RentalsStayScheduled /\ [Next]_vars =>
          RentalInv' /\ RentalsStayScheduled'
  BY NextInv, NextStays
<1>3. RentalsStayScheduled => [TakesUp]_vars
  <2> SUFFICES ASSUME RentalsStayScheduled, BeginBlock,
                      NEW a \in AccountId, NEW id \in CollectibleId,
                      LesseeCollectibles[a][id] # None,
                      LesseeCollectibles[a][id].rental_periodic_interval # 0,
                      LesseeCollectibles[a][id].next_rent_block = block_number'
               PROVE  <<id, a>> \in Range(rentals')
    OBVIOUS
  <2>1. /\ phase = "extrinsics"
        /\ rentals' = PendingRentals[block_number']
    BY DEF BeginBlock, InCall
  <2>2. <<id, a>> \in Range(Scheduled(block_number'))
    BY DEF RentalsStayScheduled
  <2>3. Scheduled(block_number') = rentals'
    BY <2>1 DEF Scheduled
  <2> QED
    BY <2>2, <2>3
<1> QED
  BY <1>1, <1>2, <1>3, PTL DEF Spec, HookTakesUpWhatIsDue

--------------------------------------------------------------------------------
\* What it takes to crowd a rental out of the block it asks for

LEMMA SmallMod ==
  ASSUME NEW n \in Nat, n < U32Size
  PROVE  n % U32Size = n
  BY SizesAssumption

\* The block that is asked for and the one after the current block are blocks.
LEMMA SearchedBlocks ==
  ASSUME RentalInv, NEW start \in BlockNumber, NEW extra \in U32
  PROVE  /\ RequestedBlock(start, extra) \in BlockNumber
         /\ FollowingBlock \in BlockNumber
         /\ FollowingBlock # block_number
<1>1. /\ U32Size \in Nat \ {0} /\ 1 < U32Size
      /\ start + extra \in Int
      /\ block_number \in Nat /\ block_number < U32Size /\ block_number + 1 \in Int
  BY SizesAssumption, InputsAssumption DEF BlockNumber, U32, RentalInv, TypeOK
<1>2. (start + extra) % U32Size \in U32
  BY <1>1, ModRange DEF U32
<1>3. (block_number + 1) % U32Size \in U32
  BY <1>1, ModRange DEF U32
<1>4. CASE block_number + 1 < U32Size
  <2>1. (block_number + 1) % U32Size = block_number + 1
    BY <1>1, <1>4, SmallMod
  <2> QED
    BY <1>1, <1>2, <1>3, <2>1 DEF RequestedBlock, FollowingBlock, BlockNumber
<1>5. CASE block_number + 1 = U32Size
  <2>1. (block_number + 1) % U32Size = 0
    BY <1>1, <1>5
  <2> QED
    BY <1>1, <1>2, <1>3, <1>5, <2>1 DEF RequestedBlock, FollowingBlock, BlockNumber
<1> QED
  BY <1>1, <1>4, <1>5

\* A list without room names as many collectibles as a block holds, each once.
LEMMA FullListIsCrowd ==
  ASSUME NEW s \in Seq(PendingRental), DistinctIds(s),
         ~HasRoom(s, MaximumRentablesPerBlock),
         NEW id \in CollectibleId, NEW b \in BlockNumber,
         \A e \in Range(s) : e[1] # id /\ Due(e[1], e[2], b)
  PROVE  CrowdedForOthersOf(id, b)
<1> DEFINE n == MaximumRentablesPerBlock
           ids == [j \in 1 .. n |-> s[j][1]]
           others == OthersDue(id, b)
<1>1. n \in Nat /\ n <= Len(s) /\ Len(s) \in Nat /\ DOMAIN s = 1 .. Len(s)
  BY SizesAssumption DEF HasRoom
<1>2. ASSUME NEW j \in 1 .. n
      PROVE  /\ j \in DOMAIN s /\ s[j] \in Range(s)
             /\ s[j] \in CollectibleId \X AccountId
  <2>1. j \in DOMAIN s
    BY <1>1
  <2>2. s[j] \in Range(s)
    BY <2>1 DEF Range
  <2>3. s[j] \in PendingRental
    BY <2>1
  <2> QED
    BY <2>1, <2>2, <2>3 DEF PendingRental
<1>3. ASSUME NEW j \in 1 .. n PROVE s[j][1] \in others
  <2>1. s[j][1] \in CollectibleId \ {id} /\ s[j][2] \in AccountId
    BY <1>2
  <2>2. Due(s[j][1], s[j][2], b)
    BY <1>2
  <2> QED
    BY <2>1, <2>2 DEF OthersDue
<1>4. \A j, k \in 1 .. n : s[j][1] = s[k][1] => j = k
  BY <1>1, <1>2 DEF DistinctIds
<1> HIDE DEF others, n
<1>5. ids \in Injection(1 .. n, others)
  BY <1>3, <1>4 DEF Injection, IsInjective
<1> QED
  BY <1>5 DEF CrowdedForOthersOf, others, n

\* The list of block b outside the hook, or after the current block.
LEMMA BlockEntries ==
  ASSUME RentalInv, NEW b \in BlockNumber,
         phase = "extrinsics" \/ b # block_number
  PROVE  /\ PendingRentals[b] \in Seq(PendingRental)
         /\ DistinctIds(PendingRentals[b])
         /\ \A e \in Range(PendingRentals[b]) :
                /\ e = <<e[1], e[2]>> /\ e[2] \in AccountId
                /\ Due(e[1], e[2], b)
<1>1. PendingRentals[b] = Scheduled(b)
  BY DEF Scheduled
<1> QED
  BY <1>1, EntryTypes
     DEF RentalInv, ScheduleAgreesWithRentals, EntriesAreDistinct, EntriesAreRentals

\* rent finds a block full: its own collectible, being vacant, is not in it.
LEMMA NoRoomForRent ==
  ASSUME RentalInv, phase = "extrinsics",
         NEW id \in CollectibleId, Collectibles[id].lessee = None,
         NEW b \in BlockNumber, ~HasRoomAt(PendingRentals, b)
  PROVE  CrowdedForOthersOf(id, b)
<1>1. PICK s \in Seq(PendingRental) :
          /\ s = PendingRentals[b] /\ s = Scheduled(b) /\ DistinctIds(s)
          /\ \A e \in Range(s) : Due(e[1], e[2], b)
  BY BlockEntries DEF Scheduled
<1>2. \A e \in Range(s) : e[1] # id
  BY <1>1, VacantHasNoEntry
<1>3. ~HasRoom(s, MaximumRentablesPerBlock)
  BY <1>1 DEF HasRoomAt
<1> QED
  BY <1>1, <1>2, <1>3, FullListIsCrowd

\* extend_rent finds a block full after it has taken its own entry out.
LEMMA NoRoomForExtension ==
  ASSUME RentalInv, phase = "extrinsics",
         NEW sender \in AccountId, NEW id \in CollectibleId,
         LesseeCollectibles[sender][id] # None,
         NEW b \in BlockNumber, ~HasRoomAt(WithoutRental(sender, id), b)
  PROVE  CrowdedForOthersOf(id, b)
<1>1. PICK s \in Seq(PendingRental) :
          /\ s = PendingRentals[b] /\ DistinctIds(s)
          /\ \A e \in Range(s) : /\ e = <<e[1], e[2]>> /\ e[2] \in AccountId
                                 /\ Due(e[1], e[2], b)
  BY BlockEntries
<1>2. PICK due \in BlockNumber : due = LesseeCollectibles[sender][id].next_rent_block
  BY RentalTypes DEF RentalInv, RentalPeriodConfig
<1>3. WithoutRental(sender, id)[b] = IF b = due THEN Retain(s, {id} \X AccountId) ELSE s
  BY <1>1, <1>2 DEF WithoutRental, Unschedule, RentalInv, TypeOK
<1>4. PICK t \in Seq(PendingRental) :
          /\ t = WithoutRental(sender, id)[b] /\ DistinctIds(t)
          /\ Range(t) = IF b = due THEN Range(s) \ ({id} \X AccountId) ELSE Range(s)
  BY <1>1, <1>3, RetainDistinct
<1>5. ASSUME NEW e \in Range(t) PROVE e[1] # id /\ Due(e[1], e[2], b)
  <2>1. /\ e \in Range(s) /\ e = <<e[1], e[2]>> /\ e[2] \in AccountId
        /\ Due(e[1], e[2], b)
    BY <1>1, <1>4
  <2>2. CASE b = due
    BY <1>4, <2>1, <2>2
  <2>3. CASE b # due
    <3>1. Collectibles[id].lessee = sender
      BY DEF RentalInv, RentalsHaveOneLessee
    <3> QED
      BY <1>2, <2>1, <2>3, <3>1 DEF Due
  <2> QED
    BY <2>1, <2>2, <2>3
<1>6. ~HasRoom(t, MaximumRentablesPerBlock)
  BY <1>4 DEF HasRoomAt
<1> QED
  BY <1>4, <1>5, <1>6, FullListIsCrowd

\* A renewal finds a later block full.
LEMMA NoRoomForRenewal ==
  ASSUME RentalInv, NEW lessee \in AccountId, NEW id \in CollectibleId,
         Processing(id, lessee), NEW b \in BlockNumber, b # block_number,
         ~HasRoomAt(PendingRentals, b)
  PROVE  CrowdedForOthersOf(id, b)
<1>1. PICK s : s = IF b = block_number THEN Tail(rentals) ELSE PendingRentals[b]
  OBVIOUS
<1>2. /\ s \in Seq(PendingRental) /\ DistinctIds(s)
      /\ \A e \in Range(s) : e[1] # id /\ Due(e[1], e[2], b)
  BY <1>1, WithoutHead
<1>3. ~HasRoom(s, MaximumRentablesPerBlock)
  BY <1>1 DEF HasRoomAt
<1> QED
  BY <1>2, <1>3, FullListIsCrowd

\* Nothing but a search that does not return stops everything.
LEMMA OnlySearchesSpin ==
  ASSUME ~spinning, [Next]_vars, spinning'
  PROVE  \E a \in AccountId, id \in CollectibleId :
             \/ \E blocks \in Blocks : RentSpins(a, id, blocks)
             \/ \E blocks \in Blocks : ExtendRentSpins(a, id, blocks)
             \/ RenewalSpins(id, a)
<1> DEFINE CallSpins(a) == \E id \in CollectibleId, blocks \in Blocks :
                               RentSpins(a, id, blocks) \/ ExtendRentSpins(a, id, blocks)
<1>1. ASSUME NEW sender \in AccountId, CallBy(sender) PROVE CallSpins(sender)
  <2>1. ASSUME NEW id \in CollectibleId PROVE ~Mint(sender, id) /\ ~Burn(sender, id)
    BY DEF Mint, Burn
  <2>2. ASSUME NEW id \in CollectibleId, NEW price \in Prices,
               NEW minimum \in Periods, NEW maximum \in Periods
        PROVE  ~SetRentable(sender, id, price, minimum, maximum)
    BY DEF SetRentable
  <2>3. ASSUME NEW id \in CollectibleId, NEW blocks \in Blocks, NEW recurring \in BOOLEAN
        PROVE  ~Rent(sender, id, blocks, recurring)
    BY DEF Rent
  <2>4. ASSUME NEW id \in CollectibleId, NEW recurring \in BOOLEAN
        PROVE  ~SetUnrentable(sender, id) /\ ~SetRecurring(sender, id, recurring)
    BY DEF SetUnrentable, SetRecurring
  <2>5. ASSUME NEW id \in CollectibleId, NEW blocks \in Blocks
        PROVE  ~ExtendRent(sender, id, blocks)
    BY DEF ExtendRent
  <2>6. ASSUME NEW id \in CollectibleId
        PROVE  ~EquipCollectible(sender, id) /\ ~UnequipCollectible(sender, id)
    BY DEF EquipCollectible, UnequipCollectible
  <2> QED
    BY <1>1, <2>1, <2>2, <2>3, <2>4, <2>5, <2>6 DEF CallBy
<1>2. ASSUME NEW id \in CollectibleId, NEW lessee \in AccountId
      PROVE  /\ ~EndRental(id, lessee)
             /\ ~CancelUnpaidRental(id, lessee)
             /\ ~RenewRental(id, lessee)
  BY DEF EndRental, CancelUnpaidRental, RemoveLessee, RenewRental
<1>3. ~BeginBlock /\ ~FinishRentals /\ ~OtherPallets /\ ~UNCHANGED vars
  BY DEF BeginBlock, FinishRentals, OtherPallets, BalancesTransfer, ChargeFee, vars
<1>4. \/ \E sender \in AccountId : CallSpins(sender)
      \/ \E id \in CollectibleId, lessee \in AccountId : RenewalSpins(id, lessee)
  BY <1>1, <1>2, <1>3 DEF Next, Call, OnInitialize, ProcessRental
<1> QED
  BY <1>4

\* A search that does not return has found the block after the current one
\* crowded with others.
LEMMA SpinsInACrowd ==
  ASSUME RentalInv, ~spinning, [Next]_vars, spinning'
  PROVE  \E id \in CollectibleId : CrowdedForOthersOf(id, FollowingBlock)
<1> SUFFICES ASSUME \A id \in CollectibleId : ~CrowdedForOthersOf(id, FollowingBlock)
             PROVE  FALSE
  OBVIOUS
<1>1. FollowingBlock \in BlockNumber /\ FollowingBlock # block_number
  BY SearchedBlocks, InputsAssumption, ModRange, SizesAssumption DEF RentalInv, TypeOK, U32
<1>2. ASSUME NEW a \in AccountId, NEW id \in CollectibleId, NEW blocks \in Blocks,
             RentSpins(a, id, blocks)
      PROVE  FALSE
  <2>1. phase = "extrinsics" /\ Collectibles[id].lessee = None
    BY <1>2 DEF RentSpins, MayRent, InCall, NotAParty
  <2> QED
    BY <1>1, <1>2, <2>1, NoRoomForRent DEF RentSpins, SearchEnds
<1>3. ASSUME NEW a \in AccountId, NEW id \in CollectibleId, NEW blocks \in Blocks,
             ExtendRentSpins(a, id, blocks)
      PROVE  FALSE
  <2>1. phase = "extrinsics" /\ LesseeCollectibles[a][id] # None
    BY <1>3 DEF ExtendRentSpins, MayExtend, InCall
  <2> QED
    BY <1>1, <1>3, <2>1, NoRoomForExtension DEF ExtendRentSpins, SearchEnds
<1>4. ASSUME NEW a \in AccountId, NEW id \in CollectibleId, RenewalSpins(id, a)
      PROVE  FALSE
  BY <1>1, <1>4, NoRoomForRenewal DEF RenewalSpins, Renews, SearchEnds
<1> QED
  BY <1>2, <1>3, <1>4, OnlySearchesSpin

\* SpinsOnlyInACrowd, for all parameters.
THEOREM OnlyACrowdStopsTheChain == Spec => SpinsOnlyInACrowd
<1>1. RentalInv /\ [Next]_vars =>
          [~spinning /\ spinning' =>
               \E id \in CollectibleId : CrowdedForOthersOf(id, FollowingBlock)]_vars
  BY SpinsInACrowd
<1> QED
  BY <1>1, RentalInvariant, PTL DEF Spec, SpinsOnlyInACrowd

\* The lease of a collectible is the rental that its lessee has.
LeasesAreRentals ==
    \A id \in CollectibleId :
        /\ \A a \in AccountId : LesseeCollectibles[a][id] # None =>
               Collectibles[id].lessee = a /\ Lease(id) = LesseeCollectibles[a][id]
        /\ Lease(id) # None =>
               \E a \in AccountId :
                   LesseeCollectibles[a][id] # None /\ Collectibles[id].lessee = a

LEMMA LeaseIsRental == RentalInv => LeasesAreRentals
<1> SUFFICES ASSUME RentalInv, NEW id \in CollectibleId
             PROVE  /\ \A a \in AccountId : LesseeCollectibles[a][id] # None =>
                           /\ Collectibles[id].lessee = a
                           /\ Lease(id) = LesseeCollectibles[a][id]
                    /\ Lease(id) # None =>
                           \E a \in AccountId : /\ LesseeCollectibles[a][id] # None
                                                /\ Collectibles[id].lessee = a
  BY DEF LeasesAreRentals
<1>1. \A a \in AccountId : LesseeCollectibles[a][id] # None =>
          Collectibles[id].lessee = a /\ Lease(id) = LesseeCollectibles[a][id]
  BY NoneAssumption DEF RentalInv, RentalsHaveOneLessee, Lease
<1>2. ASSUME Lease(id) # None
      PROVE  \E a \in AccountId :
                 LesseeCollectibles[a][id] # None /\ Collectibles[id].lessee = a
  <2>1. Exists(id) /\ Collectibles[id] \in Collectible /\ Collectibles[id].lessee # None
    BY <1>2 DEF Lease, Exists, RentalInv, TypeOK
  <2>2. Collectibles[id].lessee \in AccountId
    BY <2>1 DEF Collectible
  <2> QED
    BY <2>1, <2>2 DEF RentalInv, RentalsHaveOneLessee
<1> QED
  BY <1>1, <1>2

LEMMA LeaseIsRentalNext == RentalInv' => LeasesAreRentals'
  BY LeaseIsRental, PTL

\* rent is the only step that makes a rental.
LEMMA OnlyRentMakesRentals ==
  ASSUME RentalInv, [Next]_vars, NEW a \in AccountId, NEW id \in CollectibleId,
         LesseeCollectibles[a][id] = None, LesseeCollectibles'[a][id] # None
  PROVE  \E blocks \in Blocks, recurring \in BOOLEAN : Rent(a, id, blocks, recurring)
<1>1. TypeOK
  BY DEF RentalInv
<1>2. ASSUME NEW lessee \in AccountId, NEW i \in CollectibleId,
             OthersKept(lessee, i), LesseeCollectibles[lessee][i] # None
      PROVE  FALSE
  BY <1>2 DEF OthersKept
<1>3. CASE Call
  <2> SUFFICES ASSUME NEW sender \in AccountId, NEW i \in CollectibleId,
                      \/ \E blocks \in Blocks, recurring \in BOOLEAN :
                             Rent(sender, i, blocks, recurring)
                      \/ \E recurring \in BOOLEAN : SetRecurring(sender, i, recurring)
                      \/ \E blocks \in Blocks : ExtendRent(sender, i, blocks)
               PROVE  \E blocks \in Blocks, recurring \in BOOLEAN :
                          Rent(a, id, blocks, recurring)
    BY <1>3 DEF Call, CallBy, Mint, Burn, SetRentable, SetUnrentable, RentSpins,
                ExtendRentSpins, EquipCollectible, UnequipCollectible, storage
  <2>1. ASSUME NEW blocks \in Blocks, NEW recurring \in BOOLEAN,
               Rent(sender, i, blocks, recurring)
        PROVE  sender = a /\ i = id
    <3>1. OthersKept(sender, i)
      BY <1>1, <2>1, RentEffect DEF RentMade
    <3> QED
      BY <3>1 DEF OthersKept
  <2>2. ASSUME NEW recurring \in BOOLEAN, SetRecurring(sender, i, recurring)
        PROVE  FALSE
    <3>1. OthersKept(sender, i) /\ LesseeCollectibles[sender][i] # None
      BY <1>1, <2>2, SetRecurringEffect DEF SetRecurring
    <3> QED
      BY <1>2, <3>1
  <2>3. ASSUME NEW blocks \in Blocks, ExtendRent(sender, i, blocks) PROVE FALSE
    <3>1. LesseeCollectibles[sender][i] # None
      BY <2>3 DEF ExtendRent, MayExtend
    <3>2. PICK due \in BlockNumber, c \in BlockNumber, base \in PendingType :
              Extended(sender, i, blocks, due, c, base)
      BY <1>1, <2>3, ExtendRentEffect
    <3>3. OthersKept(sender, i)
      BY <3>2 DEF Extended, Moved
    <3> QED
      BY <1>2, <3>1, <3>3
  <2> QED
    BY <2>1, <2>2, <2>3
<1>4. CASE ProcessRental
  <2>1. ASSUME NEW lessee \in AccountId, NEW i \in CollectibleId,
               Processing(i, lessee), RemoveLessee(i, lessee) \/ RenewRental(i, lessee)
        PROVE  FALSE
    <3>1. OthersKept(lessee, i) /\ LesseeCollectibles[lessee][i] # None
      BY <1>1, <2>1, RemoveLesseeEffect, RenewRentalEffect DEF Processing, Renewed, Moved
    <3> QED
      BY <1>2, <3>1
  <2> QED
    BY <1>4, <2>1
       DEF ProcessRental, EndRental, CancelUnpaidRental, RenewRental, Renews,
           RenewalSpins, storage
<1> QED
  BY <1>3, <1>4
     DEF Next, OnInitialize, BeginBlock, FinishRentals, OtherPallets, BalancesTransfer,
         ChargeFee, storage, vars

\* MovedOnlyByACrowd, for all parameters: the block that rent asks for has no room
\* only because of rentals that are due in it.
THEOREM OnlyACrowdMovesARental == Spec => MovedOnlyByACrowd
<1> DEFINE requested(id) ==
               RequestedBlock(block_number, Lease(id)'.rental_periodic_interval)
           Granted(id) ==
               Exists(id) /\ ~Rented(id) /\ Rented(id)' =>
                   \/ Lease(id)'.next_rent_block = requested(id)
                   \/ CrowdedForOthersOf(id, requested(id))
<1>1. ASSUME RentalInv, [Next]_vars, NEW id \in CollectibleId PROVE Granted(id)
  <2> SUFFICES ASSUME Exists(id), ~Rented(id), Rented(id)'
               PROVE  \/ Lease(id)'.next_rent_block = requested(id)
                      \/ CrowdedForOthersOf(id, requested(id))
    OBVIOUS
  <2>1. TypeOK /\ RentalInv' /\ block_number \in BlockNumber
    BY <1>1, NextInv DEF RentalInv, TypeOK
  <2>2. Collectibles[id].lessee = None
    BY DEF Rented
  <2>3. PICK a \in AccountId :
            /\ LesseeCollectibles'[a][id] # None
            /\ Lease(id)' = LesseeCollectibles'[a][id]
    <3>1. Collectibles'[id] \in Collectible /\ Collectibles'[id].lessee # None
      BY <2>1 DEF Rented, Exists, RentalInv, TypeOK
    <3>2. PICK a \in AccountId : a = Collectibles'[id].lessee
      BY <3>1 DEF Collectible
    <3>3. LesseeCollectibles'[a][id] # None
      BY <2>1, <3>2 DEF RentalInv, RentalsHaveOneLessee, Rented
    <3> QED
      BY <2>1, <3>3, LeaseIsRentalNext DEF LeasesAreRentals
  <2>4. LesseeCollectibles[a][id] = None
    BY <1>1, <2>2, NoneAssumption DEF RentalInv, RentalsHaveOneLessee
  <2>5. PICK blocks \in Blocks, recurring \in BOOLEAN : Rent(a, id, blocks, recurring)
    BY <1>1, <2>3, <2>4, OnlyRentMakesRentals
  <2>6. PICK c \in BlockNumber : RentMade(a, id, blocks, recurring, c)
    BY <2>1, <2>5, RentEffect
  <2>7. requested(id) = RequestedBlock(block_number, blocks)
    BY <2>3, <2>6 DEF RentMade
  <2>8. requested(id) \in BlockNumber
    BY <1>1, <2>1, <2>7, SearchedBlocks, InputsAssumption
  <2>9. CASE HasRoomAt(PendingRentals, requested(id))
    BY <2>3, <2>6, <2>7, <2>9 DEF RentMade, AvailableBlock
  <2>10. CASE ~HasRoomAt(PendingRentals, requested(id))
    BY <1>1, <2>2, <2>5, <2>8, <2>10, NoRoomForRent DEF Rent, MayRent, InCall
  <2> QED
    BY <2>9, <2>10
<1>2. RentalInv /\ [Next]_vars => [\A id \in CollectibleId : Granted(id)]_vars
  BY <1>1
<1> QED
  BY <1>2, RentalInvariant, PTL DEF Spec, MovedOnlyByACrowd

--------------------------------------------------------------------------------
\* What it takes to leave a rental behind

\* What OnlyZeroOrWrapLeavesBehind says of one collectible and one step.
LeftBehind(id) ==
    LET before == Lease(id)
        after == Lease(id)'
    IN (before # None => Ahead(id)) /\ Rented(id)' /\ ~Ahead(id)' =>
           \/ after.rental_periodic_interval = 0
           \/ block_number + 1 = U32Size /\ after.next_rent_block = FollowingBlock
           \/ /\ before = None \/ phase = "on_initialize"
              /\ block_number + after.rental_periodic_interval >= U32Size
           \/ \E sender \in AccountId, blocks \in Blocks :
                  /\ ExtendRent(sender, id, blocks)
                  /\ before.next_rent_block + blocks >= U32Size

\* A collectible that is rented is the rental of some account.
LEMMA RentedHasLease ==
  ASSUME RentalInv, NEW id \in CollectibleId, Rented(id)
  PROVE  \E a \in AccountId :
             /\ LesseeCollectibles[a][id] # None
             /\ Collectibles[id].lessee = a
             /\ Lease(id) = LesseeCollectibles[a][id]
<1>1. Collectibles[id] \in Collectible /\ Collectibles[id].lessee # None
  BY DEF Rented, Exists, RentalInv, TypeOK
<1>2. PICK a \in AccountId : a = Collectibles[id].lessee
  BY <1>1 DEF Collectible
<1>3. LesseeCollectibles[a][id] # None
  BY <1>2 DEF RentalInv, RentalsHaveOneLessee, Rented
<1> QED
  BY <1>2, <1>3, LeaseIsRental DEF LeasesAreRentals

LEMMA RentedHasLeaseNext ==
  ASSUME RentalInv', NEW id \in CollectibleId, Rented(id)'
  PROVE  \E a \in AccountId :
             /\ LesseeCollectibles'[a][id] # None
             /\ Collectibles'[id].lessee = a
             /\ Lease(id)' = LesseeCollectibles'[a][id]
<1>1. Collectibles'[id] \in Collectible /\ Collectibles'[id].lessee # None
  BY DEF Rented, Exists, RentalInv, TypeOK
<1>2. PICK a \in AccountId : a = Collectibles'[id].lessee
  BY <1>1 DEF Collectible
<1>3. LesseeCollectibles'[a][id] # None
  BY <1>2 DEF RentalInv, RentalsHaveOneLessee, Rented
<1> QED
  BY <1>2, <1>3, LeaseIsRentalNext DEF LeasesAreRentals

\* A rental that an account has is that of the collectible it rents.
LEMMA RentalIsLease ==
  ASSUME RentalInv, NEW a \in AccountId, NEW id \in CollectibleId,
         LesseeCollectibles[a][id] # None
  PROVE  Rented(id) /\ Collectibles[id].lessee = a /\ Lease(id) = LesseeCollectibles[a][id]
  BY LeaseIsRental, NoneAssumption
     DEF LeasesAreRentals, RentalInv, RentalsHaveOneLessee, Rented

\* Where the clock stands still, a rental whose due block is what it was stays ahead.
LEMMA StaysAhead ==
  ASSUME RentalInv, RentalInv', NEW id \in CollectibleId,
         UNCHANGED << block_number, phase >>,
         \A a \in AccountId : LesseeCollectibles'[a][id] # None =>
             /\ LesseeCollectibles[a][id] # None
             /\ LesseeCollectibles'[a][id].next_rent_block =
                    LesseeCollectibles[a][id].next_rent_block
  PROVE  LeftBehind(id)
<1> SUFFICES ASSUME Lease(id) # None => Ahead(id), Rented(id)'
             PROVE  Ahead(id)'
  BY DEF LeftBehind
<1>1. PICK a \in AccountId :
          LesseeCollectibles'[a][id] # None /\ Lease(id)' = LesseeCollectibles'[a][id]
  BY RentedHasLeaseNext
<1>2. LesseeCollectibles[a][id] # None /\ Lease(id) = LesseeCollectibles[a][id]
  BY <1>1, RentalIsLease
<1>3. Ahead(id) /\ Lease(id)'.next_rent_block = Lease(id).next_rent_block
  BY <1>1, <1>2
<1> QED
  BY <1>3 DEF Ahead

\* The search looks for a block after the current one, unless what it adds is zero
\* or the block number wraps.
LEMMA SearchLooksAhead ==
  ASSUME block_number \in BlockNumber, NEW start \in BlockNumber, NEW extra \in U32,
         start + extra > block_number, NEW pending,
         NEW c, c = AvailableBlock(pending, start, extra)
  PROVE  \/ c > block_number
         \/ block_number + 1 = U32Size /\ c = FollowingBlock
         \/ start + extra >= U32Size
<1>1. /\ block_number \in Nat /\ start \in Nat /\ extra \in Nat /\ U32Size \in Nat
      /\ block_number < U32Size
  BY SizesAssumption DEF BlockNumber, U32
<1>2. CASE c = RequestedBlock(start, extra)
  <2>1. ASSUME start + extra < U32Size PROVE c > block_number
    <3>1. (start + extra) % U32Size = start + extra
      BY <1>1, <2>1, SmallMod
    <3> QED
      BY <1>1, <1>2, <3>1 DEF RequestedBlock
  <2> QED
    BY <1>1, <2>1
<1>3. CASE c = FollowingBlock
  <2>1. ASSUME block_number + 1 < U32Size PROVE c > block_number
    <3>1. (block_number + 1) % U32Size = block_number + 1
      BY <1>1, <2>1, SmallMod
    <3> QED
      BY <1>1, <1>3, <3>1 DEF FollowingBlock
  <2> QED
    BY <1>1, <1>3, <2>1
<1> QED
  BY <1>2, <1>3 DEF AvailableBlock

LEMMA RentLooksAhead ==
  ASSUME RentalInv, RentalInv', NEW sender \in AccountId, NEW id \in CollectibleId,
         NEW blocks \in Blocks, NEW recurring \in BOOLEAN,
         Rent(sender, id, blocks, recurring), NEW i \in CollectibleId
  PROVE  LeftBehind(i)
<1>1. PICK c \in BlockNumber : RentMade(sender, id, blocks, recurring, c)
  BY RentEffect DEF RentalInv
<1>2. /\ LesseeCollectibles'[sender][id] # None
      /\ LesseeCollectibles'[sender][id].rental_periodic_interval = blocks
      /\ LesseeCollectibles'[sender][id].next_rent_block = c
      /\ c = AvailableBlock(PendingRentals, block_number, blocks)
      /\ OthersKept(sender, id)
      /\ UNCHANGED << block_number, phase >>
      /\ Collectibles[id].lessee = None
  BY <1>1, NoneAssumption DEF RentMade, Rent, MayRent, NotAParty, clock
<1>3. CASE i # id
  BY <1>2, <1>3, StaysAhead DEF OthersKept
<1>4. CASE i = id
  <2>1. Lease(id) = None
    BY <1>2 DEF Lease
  <2>2. Rented(id)' /\ Lease(id)' = LesseeCollectibles'[sender][id]
    <3>1. Lease(id)' = LesseeCollectibles'[sender][id]
      BY <1>2, LeaseIsRentalNext DEF LeasesAreRentals
    <3> QED
      BY <1>2, <3>1 DEF Rented, Lease
  <2>3. /\ blocks \in U32 /\ block_number \in BlockNumber
        /\ blocks # 0 => block_number + blocks > block_number
    BY InputsAssumption, SizesAssumption DEF RentalInv, TypeOK, BlockNumber, U32
  <2>4. \/ blocks = 0
        \/ c > block_number
        \/ block_number + 1 = U32Size /\ c = FollowingBlock
        \/ block_number + blocks >= U32Size
    BY <1>2, <2>3, SearchLooksAhead
  <2>5. c > block_number => Ahead(id)'
    BY <1>2, <2>2 DEF Ahead
  <2> QED
    BY <1>2, <1>4, <2>1, <2>2, <2>4, <2>5 DEF LeftBehind
<1> QED
  BY <1>3, <1>4

LEMMA ExtendRentLooksAhead ==
  ASSUME RentalInv, RentalInv', NEW sender \in AccountId, NEW id \in CollectibleId,
         NEW blocks \in Blocks, ExtendRent(sender, id, blocks), NEW i \in CollectibleId
  PROVE  LeftBehind(i)
<1>1. PICK due \in BlockNumber, c \in BlockNumber, base \in PendingType :
          Extended(sender, id, blocks, due, c, base)
  BY ExtendRentEffect DEF RentalInv
<1>2. /\ LesseeCollectibles[sender][id] # None
      /\ LesseeCollectibles'[sender][id] # None
      /\ LesseeCollectibles[sender][id].next_rent_block = due
      /\ LesseeCollectibles'[sender][id].next_rent_block = c
      /\ c = AvailableBlock(base, due, blocks)
      /\ OthersKept(sender, id)
      /\ UNCHANGED << block_number, phase >> /\ phase = "extrinsics"
  BY <1>1, NoneAssumption DEF Extended, Moved, ExtendRent, MayExtend, InCall, clock
<1>3. CASE i # id
  BY <1>2, <1>3, StaysAhead DEF OthersKept
<1>4. CASE i = id
  <2> SUFFICES ASSUME Ahead(id), ~Ahead(id)'
               PROVE  \/ /\ block_number + 1 = U32Size
                         /\ Lease(id)'.next_rent_block = FollowingBlock
                      \/ Lease(id).next_rent_block + blocks >= U32Size
    <3>1. Lease(id) # None
      BY <1>2, RentalIsLease
    <3> QED
      BY <1>4, <3>1 DEF LeftBehind
  <2>1. Lease(id) = LesseeCollectibles[sender][id]
    BY <1>2, RentalIsLease
  <2>2. Rented(id)' /\ Lease(id)' = LesseeCollectibles'[sender][id]
    <3>1. Lease(id)' = LesseeCollectibles'[sender][id]
      BY <1>2, LeaseIsRentalNext DEF LeasesAreRentals
    <3> QED
      BY <1>2, <3>1 DEF Rented, Lease
  <2>3. due > block_number
    BY <1>2, <2>1 DEF Ahead
  <2>4. blocks \in U32 /\ block_number \in BlockNumber
    BY InputsAssumption DEF RentalInv, TypeOK, BlockNumber, U32
  <2>5. ~(c > block_number)
    BY <1>2, <2>2 DEF Ahead
  <2>6. due + blocks > block_number
    BY <2>3, <2>4, SizesAssumption DEF BlockNumber, U32
  <2>7. \/ block_number + 1 = U32Size /\ c = FollowingBlock
        \/ due + blocks >= U32Size
    BY <1>2, <2>4, <2>5, <2>6, SearchLooksAhead
  <2> QED
    BY <1>2, <2>1, <2>2, <2>7
<1> QED
  BY <1>3, <1>4

LEMMA RenewalLooksAhead ==
  ASSUME RentalInv, RentalInv', NEW lessee \in AccountId, NEW id \in CollectibleId,
         RenewRental(id, lessee), NEW i \in CollectibleId
  PROVE  LeftBehind(i)
<1>1. PICK interval \in U32, c \in BlockNumber : Renewed(lessee, id, interval, c)
  BY RenewRentalEffect DEF RentalInv
<1>2. /\ LesseeCollectibles[lessee][id] # None
      /\ LesseeCollectibles'[lessee][id] # None
      /\ LesseeCollectibles'[lessee][id].rental_periodic_interval = interval
      /\ LesseeCollectibles'[lessee][id].next_rent_block = c
      /\ c = AvailableBlock(PendingRentals, block_number, interval)
      /\ OthersKept(lessee, id)
      /\ UNCHANGED << block_number, phase >> /\ phase = "on_initialize"
  BY <1>1, NoneAssumption DEF Renewed, Moved, RenewRental, Renews, Processing
<1>3. CASE i # id
  BY <1>2, <1>3, StaysAhead DEF OthersKept
<1>4. CASE i = id
  <2>1. Rented(id)' /\ Lease(id)' = LesseeCollectibles'[lessee][id]
    <3>1. Lease(id)' = LesseeCollectibles'[lessee][id]
      BY <1>2, LeaseIsRentalNext DEF LeasesAreRentals
    <3> QED
      BY <1>2, <3>1 DEF Rented, Lease
  <2>2. /\ block_number \in BlockNumber
        /\ interval # 0 => block_number + interval > block_number
    BY SizesAssumption DEF RentalInv, TypeOK, BlockNumber, U32
  <2>3. \/ interval = 0
        \/ c > block_number
        \/ block_number + 1 = U32Size /\ c = FollowingBlock
        \/ block_number + interval >= U32Size
    BY <1>2, <2>2, SearchLooksAhead
  <2>4. c > block_number => Ahead(id)'
    BY <1>2, <2>1 DEF Ahead
  <2> QED
    BY <1>2, <1>4, <2>1, <2>3, <2>4 DEF LeftBehind
<1> QED
  BY <1>3, <1>4

\* When the next block begins, what was still to come is to come or is due in it;
\* when the hook is done with a block, it has seen everything that was due in it.
LEMMA BlockStepsLookAhead ==
  ASSUME RentalInv, RentalInv', RentalsStayScheduled, BeginBlock \/ FinishRentals,
         NEW id \in CollectibleId
  PROVE  LeftBehind(id)
<1> SUFFICES ASSUME Lease(id) # None => Ahead(id), Rented(id)',
                    Lease(id)'.rental_periodic_interval # 0
             PROVE  Ahead(id)'
  BY DEF LeftBehind
<1>1. PICK a \in AccountId :
          LesseeCollectibles'[a][id] # None /\ Lease(id)' = LesseeCollectibles'[a][id]
  BY RentedHasLeaseNext
<1>2. UNCHANGED LesseeCollectibles
  BY DEF BeginBlock, FinishRentals, storage
<1>3. PICK rental \in RentalPeriodConfig :
          rental = LesseeCollectibles[a][id] /\ rental = Lease(id) /\ rental = Lease(id)'
  BY <1>1, <1>2, RentalIsLease, RentalTypes DEF RentalInv
<1>4. PICK due \in Nat : due = rental.next_rent_block
  BY SizesAssumption DEF RentalPeriodConfig, BlockNumber, U32
<1>5. Lease(id) # None
  BY <1>1, <1>2, <1>3
<1>6. Ahead(id) /\ block_number \in Nat
  BY <1>5, SizesAssumption DEF RentalInv, TypeOK, BlockNumber, U32
<1>7. CASE BeginBlock
  <2>1. /\ phase = "extrinsics" /\ phase' = "on_initialize"
        /\ block_number' = block_number + 1
    BY <1>7 DEF BeginBlock, InCall
  <2>2. due > block_number
    BY <1>3, <1>4, <1>6, <2>1 DEF Ahead
  <2>3. due > block_number + 1 \/ due = block_number + 1
    BY <1>6, <2>2
  <2> QED
    BY <1>3, <1>4, <2>1, <2>3 DEF Ahead
<1>8. CASE FinishRentals
  <2>1. /\ phase = "on_initialize" /\ rentals = <<>>
        /\ UNCHANGED block_number
    BY <1>8 DEF FinishRentals
  <2>2. Scheduled(block_number) = <<>>
    BY <2>1 DEF Scheduled
  <2>3. due # block_number
    <3>1. <<id, a>> \in Range(Scheduled(due))
      BY <1>1, <1>2, <1>3, <1>4 DEF RentalsStayScheduled
    <3> QED
      BY <2>2, <3>1 DEF Range
  <2>4. due > block_number
    BY <1>3, <1>4, <1>6, <2>3 DEF Ahead
  <2> QED
    BY <1>3, <1>4, <2>1, <2>4 DEF Ahead
<1> QED
  BY <1>7, <1>8

LEMMA NextLooksAhead ==
  ASSUME RentalInv, RentalsStayScheduled, [Next]_vars, NEW i \in CollectibleId
  PROVE  LeftBehind(i)
<1>1. TypeOK /\ RentalInv'
  BY NextInv DEF RentalInv
<1>2. ASSUME UNCHANGED << LesseeCollectibles, block_number, phase >> PROVE LeftBehind(i)
  BY <1>1, <1>2, StaysAhead
<1>3. CASE Call
  <2> SUFFICES ASSUME NEW sender \in AccountId, NEW id \in CollectibleId,
                      \/ \E blocks \in Blocks, recurring \in BOOLEAN :
                             Rent(sender, id, blocks, recurring)
                      \/ \E recurring \in BOOLEAN : SetRecurring(sender, id, recurring)
                      \/ \E blocks \in Blocks : ExtendRent(sender, id, blocks)
               PROVE  LeftBehind(i)
    BY <1>2, <1>3 DEF Call, CallBy, Mint, Burn, SetRentable, SetUnrentable, RentSpins,
                      ExtendRentSpins, EquipCollectible, UnequipCollectible, storage, clock
  <2>1. ASSUME NEW recurring \in BOOLEAN, SetRecurring(sender, id, recurring)
        PROVE  LeftBehind(i)
    <3>1. /\ LesseeCollectibles[sender][id] # None
          /\ LesseeCollectibles'[sender][id].next_rent_block =
                 LesseeCollectibles[sender][id].next_rent_block
          /\ OthersKept(sender, id)
          /\ UNCHANGED << block_number, phase >>
      BY <1>1, <2>1, SetRecurringEffect DEF SetRecurring, clock
    <3> QED
      BY <1>1, <3>1, StaysAhead DEF OthersKept
  <2> QED
    BY <1>1, <2>1, RentLooksAhead, ExtendRentLooksAhead
<1>4. CASE ProcessRental
  <2>1. ASSUME NEW id \in CollectibleId, NEW lessee \in AccountId,
               RemoveLessee(id, lessee)
        PROVE  LeftBehind(i)
    <3>1. /\ LesseeCollectibles'[lessee][id] = None /\ OthersKept(lessee, id)
          /\ UNCHANGED << block_number, phase >>
      BY <1>1, <2>1, RemoveLesseeEffect DEF RemoveLessee
    <3> QED
      BY <1>1, <3>1, StaysAhead DEF OthersKept
  <2> QED
    BY <1>1, <1>2, <1>4, <2>1, RenewalLooksAhead
       DEF ProcessRental, EndRental, CancelUnpaidRental, RenewalSpins, storage, clock
<1>5. CASE BeginBlock \/ FinishRentals
  BY <1>1, <1>5, BlockStepsLookAhead
<1>6. CASE OtherPallets \/ UNCHANGED vars
  BY <1>2, <1>6
     DEF OtherPallets, BalancesTransfer, ChargeFee, storage, clock, vars
<1> QED
  BY <1>3, <1>4, <1>5, <1>6 DEF Next, OnInitialize

\* OnlyZeroOrWrapLeavesBehind, whatever the parameters: a rental of at least one
\* block, where no block number wraps, is due in a block whose hook is still to
\* come, and NoRentalIsForgotten says that this hook takes it up.
THEOREM EveryRentalHasAnEnd == Spec => OnlyZeroOrWrapLeavesBehind
<1>1. Init => RentalInv /\ RentalsStayScheduled
  <2>1. Init => RentalsStayScheduled
    BY DEF Init, RentalsStayScheduled
  <2> QED
    BY <2>1, InitInv
<1>2. RentalInv /\ RentalsStayScheduled /\ [Next]_vars =>
          RentalInv' /\ RentalsStayScheduled'
  BY NextInv, NextStays
<1>3. RentalInv /\ RentalsStayScheduled /\ [Next]_vars =>
          [\A id \in CollectibleId : LeftBehind(id)]_vars
  BY NextLooksAhead
<1> QED
  BY <1>1, <1>2, <1>3, PTL DEF Spec, OnlyZeroOrWrapLeavesBehind, LeftBehind

--------------------------------------------------------------------------------
\* A lessee gets the blocks it pays for

\* What PaidBlocksAreGranted says of one collectible and one step.
PaidFor(id) ==
    LET before == Lease(id)
        after == Lease(id)'
        extension == before # None /\ phase = "extrinsics"
        start == IF before = None THEN block_number ELSE before.next_rent_block
        lessor == Collectibles[id].lessor
        lessee == Collectibles'[id].lessee
        price == Collectibles[id].price_per_block
    IN after # None /\ (before # None => after.next_rent_block # start) =>
           \E blocks \in IF extension THEN U32 ELSE {after.rental_periodic_interval} :
               LET paid == (price * blocks) %
                               (IF extension THEN U32Size ELSE BalanceSize)
                   requested == (start + blocks) % U32Size
               IN /\ free_balance' = AfterTransfer(lessee, lessor, paid)
                  /\ \/ after.next_rent_block = requested
                     \/ /\ after.next_rent_block = FollowingBlock
                        /\ \/ CrowdedForOthersOf(id, requested)
                           \/ phase = "on_initialize" /\ requested = block_number

\* A step that moves no due date and makes no rental takes no rent.
LEMMA NothingMoved ==
  ASSUME RentalInv, RentalInv', NEW id \in CollectibleId,
         \A a \in AccountId : LesseeCollectibles'[a][id] # None =>
             /\ LesseeCollectibles[a][id] # None
             /\ LesseeCollectibles'[a][id].next_rent_block =
                    LesseeCollectibles[a][id].next_rent_block
  PROVE  PaidFor(id)
<1> SUFFICES ASSUME Lease(id)' # None
             PROVE  Lease(id) # None /\ Lease(id)'.next_rent_block = Lease(id).next_rent_block
  BY DEF PaidFor
<1>1. PICK a \in AccountId : LesseeCollectibles'[a][id] # None
  BY LeaseIsRentalNext DEF LeasesAreRentals
<1>2. Lease(id)' = LesseeCollectibles'[a][id]
  BY <1>1, LeaseIsRentalNext DEF LeasesAreRentals
<1>3. LesseeCollectibles[a][id] # None /\ Lease(id) = LesseeCollectibles[a][id]
  BY <1>1, LeaseIsRental DEF LeasesAreRentals
<1> QED
  BY <1>1, <1>2, <1>3

LEMMA RentPaid ==
  ASSUME RentalInv, RentalInv', NEW sender \in AccountId, NEW id \in CollectibleId,
         NEW blocks \in Blocks, NEW recurring \in BOOLEAN,
         Rent(sender, id, blocks, recurring), NEW i \in CollectibleId
  PROVE  PaidFor(i)
<1>1. block_number \in BlockNumber /\ blocks \in U32
  BY InputsAssumption DEF RentalInv, TypeOK
<1>2. PICK c \in BlockNumber : RentMade(sender, id, blocks, recurring, c)
  BY RentEffect DEF RentalInv
<1>3. /\ LesseeCollectibles'[sender][id] # None
      /\ LesseeCollectibles'[sender][id].rental_periodic_interval = blocks
      /\ LesseeCollectibles'[sender][id].next_rent_block = c
      /\ c = AvailableBlock(PendingRentals, block_number, blocks)
      /\ OthersKept(sender, id)
  BY <1>2, NoneAssumption DEF RentMade
<1>4. CASE i # id
  BY <1>3, <1>4, NothingMoved DEF OthersKept
<1>5. CASE i = id
  <2>1. /\ Collectibles[id].lessee = None
        /\ phase = "extrinsics"
        /\ free_balance' =
               AfterTransfer(sender, Collectibles[id].lessor, RentPrice(id, blocks))
    BY DEF Rent, MayRent, NotAParty, InCall
  <2>2. Lease(id) = None
    BY <2>1 DEF Lease
  <2>3. Lease(id)' = LesseeCollectibles'[sender][id] /\ Collectibles'[id].lessee = sender
    BY <1>3, LeaseIsRentalNext DEF LeasesAreRentals
  <2>4. RequestedBlock(block_number, blocks) \in BlockNumber
    BY <1>1, SearchedBlocks
  <2>5. \/ c = RequestedBlock(block_number, blocks)
        \/ /\ c = FollowingBlock
           /\ CrowdedForOthersOf(id, RequestedBlock(block_number, blocks))
    BY <1>3, <2>1, <2>4, NoRoomForRent DEF AvailableBlock
  <2> QED
    BY <1>3, <1>5, <2>1, <2>2, <2>3, <2>5 DEF PaidFor, RequestedBlock, RentPrice
<1> QED
  BY <1>4, <1>5

LEMMA ExtendRentPaid ==
  ASSUME RentalInv, RentalInv', NEW sender \in AccountId, NEW id \in CollectibleId,
         NEW blocks \in Blocks, ExtendRent(sender, id, blocks), NEW i \in CollectibleId
  PROVE  PaidFor(i)
<1>1. PICK due \in BlockNumber, c \in BlockNumber :
          /\ due = LesseeCollectibles[sender][id].next_rent_block
          /\ c = AvailableBlock(WithoutRental(sender, id), due, blocks)
          /\ Moved(sender, id, c)
  <2>1. PICK due \in BlockNumber, c \in BlockNumber, base \in PendingType :
            Extended(sender, id, blocks, due, c, base)
    BY ExtendRentEffect DEF RentalInv
  <2>2. LesseeCollectibles[sender][id] # None /\ LesseeCollectibles \in
            [AccountId -> [CollectibleId -> RentalPeriodConfig \cup {None}]]
    BY DEF ExtendRent, MayExtend, RentalInv, TypeOK
  <2>3. LesseeCollectibles'[sender][id].next_rent_block =
            AvailableBlock(WithoutRental(sender, id), due, blocks)
    <3>1. PICK rental \in RentalPeriodConfig : rental = LesseeCollectibles[sender][id]
      BY <2>2
    <3>2. LesseeCollectibles'[sender][id] = [rental EXCEPT !.next_rent_block =
              AvailableBlock(WithoutRental(sender, id), due, blocks)]
      BY <2>1, <2>2, <3>1 DEF ExtendRent, Extended
    <3> QED
      BY <3>1, <3>2 DEF RentalPeriodConfig
  <2> QED
    BY <2>1, <2>3 DEF Extended, Moved
<1>2. /\ LesseeCollectibles'[sender][id] # None
      /\ LesseeCollectibles'[sender][id].next_rent_block = c
      /\ OthersKept(sender, id)
  BY <1>1, NoneAssumption DEF Moved
<1>3. /\ phase = "extrinsics"
      /\ LesseeCollectibles[sender][id] # None
      /\ Collectibles[id].price_per_block # None
      /\ Exists(id)
      /\ free_balance' =
             AfterTransfer(sender, Collectibles[id].lessor, ExtensionPrice(id, blocks))
  BY DEF ExtendRent, MayExtend, InCall
<1>4. CASE i # id
  BY <1>2, <1>3, <1>4, NothingMoved DEF OthersKept
<1>5. CASE i = id
  <2>1. Lease(id) = LesseeCollectibles[sender][id]
    BY <1>3, LeaseIsRental DEF LeasesAreRentals
  <2>2. Lease(id)' = LesseeCollectibles'[sender][id] /\ Collectibles'[id].lessee = sender
    BY <1>2, LeaseIsRentalNext DEF LeasesAreRentals
  <2>3. blocks \in U32 /\ RequestedBlock(due, blocks) \in BlockNumber
    BY SearchedBlocks, InputsAssumption
  <2>4. \/ c = RequestedBlock(due, blocks)
        \/ c = FollowingBlock /\ CrowdedForOthersOf(id, RequestedBlock(due, blocks))
    BY <1>1, <1>3, <2>3, NoRoomForExtension DEF AvailableBlock
  <2>5. ExtensionPrice(id, blocks) = (Collectibles[id].price_per_block * blocks) % U32Size
    <3>1. PICK price \in Nat : price = Collectibles[id].price_per_block
      <4>1. Collectibles[id] \in Collectible
        BY <1>3, RentalTypes DEF RentalInv
      <4> QED
        BY <1>3, <4>1, SizesAssumption DEF Collectible, Balance
    <3>2. price * blocks = blocks * price
      BY <2>3, SizesAssumption DEF U32
    <3> QED
      BY <3>1, <3>2 DEF ExtensionPrice
  <2>6. Lease(id) # None
    BY <1>3, <2>1
  <2> QED
    BY <1>1, <1>2, <1>3, <1>5, <2>1, <2>2, <2>3, <2>4, <2>5, <2>6
       DEF PaidFor, RequestedBlock
<1> QED
  BY <1>4, <1>5

LEMMA RenewRentalPaid ==
  ASSUME RentalInv, RentalInv', NEW lessee \in AccountId, NEW id \in CollectibleId,
         RenewRental(id, lessee), NEW i \in CollectibleId
  PROVE  PaidFor(i)
<1>1. block_number \in BlockNumber
  BY DEF RentalInv, TypeOK
<1>2. PICK interval \in U32, c \in BlockNumber : Renewed(lessee, id, interval, c)
  BY RenewRentalEffect DEF RentalInv
<1>3. /\ LesseeCollectibles'[lessee][id] # None
      /\ interval = LesseeCollectibles[lessee][id].rental_periodic_interval
      /\ LesseeCollectibles'[lessee][id].rental_periodic_interval = interval
      /\ LesseeCollectibles'[lessee][id].next_rent_block = c
      /\ c = AvailableBlock(PendingRentals, block_number, interval)
      /\ OthersKept(lessee, id)
  BY <1>2, NoneAssumption DEF Renewed, Moved
<1>4. /\ Processing(id, lessee)
      /\ LesseeCollectibles[lessee][id] # None
      /\ phase = "on_initialize"
      /\ free_balance' =
             AfterTransfer(lessee, Collectibles[id].lessor, RentPrice(id, interval))
  BY <1>3 DEF RenewRental, Renews, Processing, RenewalPrice
<1>5. CASE i # id
  BY <1>3, <1>4, <1>5, NothingMoved DEF OthersKept
<1>6. CASE i = id
  <2>1. Lease(id) = LesseeCollectibles[lessee][id]
    BY <1>4, LeaseIsRental DEF LeasesAreRentals
  <2>2. Lease(id)' = LesseeCollectibles'[lessee][id] /\ Collectibles'[id].lessee = lessee
    BY <1>3, LeaseIsRentalNext DEF LeasesAreRentals
  <2>3. LesseeCollectibles[lessee][id].next_rent_block = block_number
    <3>1. PICK s : s = IF block_number = block_number THEN Tail(rentals)
                       ELSE PendingRentals[block_number]
      OBVIOUS
    <3>2. Due(id, lessee, block_number)
      BY <1>1, <1>4, <3>1, WithoutHead
    <3> QED
      BY <3>2 DEF Due
  <2>4. RequestedBlock(block_number, interval) \in BlockNumber
    BY <1>1, SearchedBlocks
  <2>5. \/ c = RequestedBlock(block_number, interval)
        \/ /\ c = FollowingBlock
           /\ \/ CrowdedForOthersOf(id, RequestedBlock(block_number, interval))
              \/ RequestedBlock(block_number, interval) = block_number
    BY <1>3, <1>4, <2>4, NoRoomForRenewal DEF AvailableBlock
  <2> QED
    BY <1>3, <1>4, <1>6, <2>1, <2>2, <2>3, <2>5 DEF PaidFor, RequestedBlock, RentPrice
<1> QED
  BY <1>5, <1>6

LEMMA NextPaid ==
  ASSUME RentalInv, [Next]_vars, NEW i \in CollectibleId
  PROVE  PaidFor(i)
<1>1. TypeOK /\ RentalInv'
  BY NextInv DEF RentalInv
<1>2. ASSUME UNCHANGED LesseeCollectibles PROVE PaidFor(i)
  BY <1>1, <1>2, NothingMoved
<1>3. CASE Call
  <2> SUFFICES ASSUME NEW sender \in AccountId, NEW id \in CollectibleId,
                      \/ \E blocks \in Blocks, recurring \in BOOLEAN :
                             Rent(sender, id, blocks, recurring)
                      \/ \E recurring \in BOOLEAN : SetRecurring(sender, id, recurring)
                      \/ \E blocks \in Blocks : ExtendRent(sender, id, blocks)
               PROVE  PaidFor(i)
    BY <1>2, <1>3 DEF Call, CallBy, Mint, Burn, SetRentable, SetUnrentable, RentSpins,
                      ExtendRentSpins, EquipCollectible, UnequipCollectible, storage
  <2>1. ASSUME NEW recurring \in BOOLEAN, SetRecurring(sender, id, recurring)
        PROVE  PaidFor(i)
    <3>1. /\ LesseeCollectibles[sender][id] # None
          /\ LesseeCollectibles'[sender][id].next_rent_block =
                 LesseeCollectibles[sender][id].next_rent_block
          /\ OthersKept(sender, id)
      BY <1>1, <2>1, SetRecurringEffect DEF SetRecurring
    <3> QED
      BY <1>1, <3>1, NothingMoved DEF OthersKept
  <2> QED
    BY <1>1, <2>1, RentPaid, ExtendRentPaid
<1>4. CASE ProcessRental
  <2>1. ASSUME NEW id \in CollectibleId, NEW lessee \in AccountId,
               RemoveLessee(id, lessee)
        PROVE  PaidFor(i)
    <3>1. LesseeCollectibles'[lessee][id] = None /\ OthersKept(lessee, id)
      BY <1>1, <2>1, RemoveLesseeEffect
    <3> QED
      BY <1>1, <3>1, NothingMoved DEF OthersKept
  <2> QED
    BY <1>1, <1>2, <1>4, <2>1, RenewRentalPaid
       DEF ProcessRental, EndRental, CancelUnpaidRental, RenewalSpins, storage
<1>5. CASE BeginBlock \/ FinishRentals \/ OtherPallets \/ UNCHANGED vars
  BY <1>2, <1>5
     DEF BeginBlock, FinishRentals, OtherPallets, BalancesTransfer, ChargeFee, storage, vars
<1> QED
  BY <1>3, <1>4, <1>5 DEF Next, OnInitialize

\* PaidBlocksAreGranted, whatever the parameters: whether a lessee rents, extends or
\* renews, the lessor gets the price of some blocks and the rental is due that many
\* blocks later, or in the following block for want of room.
THEOREM LesseeGetsWhatItPaysFor == Spec => PaidBlocksAreGranted
<1>1. RentalInv /\ [Next]_vars => [\A id \in CollectibleId : PaidFor(id)]_vars
  BY NextPaid
<1> QED
  BY <1>1, RentalInvariant, PTL DEF Spec, PaidBlocksAreGranted, PaidFor

--------------------------------------------------------------------------------
\* The hook gets to its end

\* While the loop has a rental left, one of the actions of the hook is possible: the
\* rental ends, it is cancelled because it cannot be paid, or it is renewed into a
\* block that the search finds.
TurnIsPossible ==
    \E id \in CollectibleId, lessee \in AccountId :
        /\ Processing(id, lessee)
        /\ \/ ~Continues(id, lessee)
           \/ /\ Continues(id, lessee)
              /\ Collectibles[id].price_per_block # None
              /\ ~CanRenew(id, lessee)
           \/ /\ Renews(id, lessee)
              /\ SearchEnds(PendingRentals, block_number,
                            LesseeCollectibles[lessee][id].rental_periodic_interval)

\* The block after the current one has no room for the rental whose turn it is.
HookIsCrowded == CrowdedForOthersOf(Head(rentals)[1], FollowingBlock)

HookGoesOn ==
    phase = "on_initialize" /\ ~spinning /\ rentals # <<>> =>
        TurnIsPossible \/ HookIsCrowded

\* A step in the hook takes one rental from the loop or, when none is left, hands
\* the block over to the extrinsics, or else it is the search in a crowd that does
\* not return.
TurnShortens ==
    phase = "on_initialize" =>
        \/ spinning' /\ rentals # <<>> /\ HookIsCrowded
        \/ IF rentals = <<>> THEN phase' = "extrinsics"
           ELSE phase' = phase /\ rentals' = Tail(rentals)

\* A turn of the loop: what its search does not find, others have taken.
LEMMA RenewalFindsOrIsCrowded ==
  ASSUME RentalInv, NEW lessee \in AccountId, NEW id \in CollectibleId,
         Processing(id, lessee)
  PROVE  \/ SearchEnds(PendingRentals, block_number,
                       LesseeCollectibles[lessee][id].rental_periodic_interval)
         \/ HookIsCrowded
<1>1. block_number \in BlockNumber /\ Head(rentals)[1] = id
  BY DEF Processing, RentalInv, TypeOK
<1>2. PICK interval \in U32 :
          interval = LesseeCollectibles[lessee][id].rental_periodic_interval
  BY RentalTypes DEF Processing, RentalInv, RentalPeriodConfig
<1>3. FollowingBlock \in BlockNumber /\ FollowingBlock # block_number
  BY <1>1, <1>2, SearchedBlocks
<1> QED
  BY <1>1, <1>3, NoRoomForRenewal DEF SearchEnds, HookIsCrowded

\* The hook can go on until its loop is done: the reads it unwraps are there, and
\* its search returns unless the following block is full of other rentals.
THEOREM HookCanGoOn == Spec => []HookGoesOn
<1>1. ASSUME RentalInv PROVE HookGoesOn
  <2> SUFFICES ASSUME phase = "on_initialize", ~spinning, rentals # <<>>
               PROVE  TurnIsPossible \/ HookIsCrowded
    BY DEF HookGoesOn
  <2>1. block_number \in BlockNumber /\ Scheduled(block_number) = rentals
    BY <1>1 DEF RentalInv, TypeOK, Scheduled
  <2>2. rentals \in Seq(PendingRental)
    BY <1>1, <2>1, EntryTypes DEF RentalInv
  <2>3. Head(rentals) \in Range(rentals)
    BY <2>2 DEF Range
  <2>4. PICK id \in CollectibleId, lessee \in AccountId : Head(rentals) = <<id, lessee>>
    BY <1>1, <2>1, <2>3, EntryTypes DEF RentalInv
  <2>5. Due(id, lessee, block_number)
    <3>1. Due(Head(rentals)[1], Head(rentals)[2], block_number)
      BY <1>1, <2>1, <2>3 DEF RentalInv, ScheduleAgreesWithRentals, EntriesAreRentals
    <3> QED
      BY <2>4, <3>1
  <2>6. Processing(id, lessee) /\ Collectibles[id].price_per_block # None
    BY <2>4, <2>5 DEF Processing, Due
  <2>7. \/ SearchEnds(PendingRentals, block_number,
                      LesseeCollectibles[lessee][id].rental_periodic_interval)
        \/ HookIsCrowded
    BY <1>1, <2>6, RenewalFindsOrIsCrowded
  <2> QED
    BY <2>6, <2>7 DEF TurnIsPossible, Renews
<1> QED
  BY <1>1, RentalInvariant, PTL

\* Every step that the hook takes brings it nearer to its end, but for the search of
\* a renewal that finds the following block full of other rentals: together with
\* HookCanGoOn, this is why BlocksAreFinished holds where no block is full.
THEOREM EveryTurnShortens == Spec => [][TurnShortens]_vars
<1>1. ASSUME RentalInv, phase = "on_initialize", Next PROVE TurnShortens
  <2>1. CASE ProcessRental
    <3>1. PICK id \in CollectibleId, lessee \in AccountId :
              /\ Processing(id, lessee)
              /\ \/ RemoveLessee(id, lessee)
                 \/ RenewRental(id, lessee)
                 \/ RenewalSpins(id, lessee)
      BY <2>1
         DEF ProcessRental, EndRental, CancelUnpaidRental, RenewRental, RenewalSpins, Renews
    <3>2. CASE RemoveLessee(id, lessee) \/ RenewRental(id, lessee)
      <4>1. rentals # <<>> /\ phase' = phase /\ rentals' = Tail(rentals)
        BY <3>1, <3>2 DEF Processing, RemoveLessee, RenewRental
      <4> QED
        BY <4>1 DEF TurnShortens
    <3>3. CASE RenewalSpins(id, lessee)
      <4>1. spinning' /\ rentals # <<>> /\ HookIsCrowded
        BY <1>1, <3>1, <3>3, RenewalFindsOrIsCrowded DEF RenewalSpins, Processing
      <4> QED
        BY <4>1 DEF TurnShortens
    <3> QED
      BY <3>1, <3>2, <3>3
  <2>2. CASE FinishRentals
    BY <2>2 DEF FinishRentals, TurnShortens
  <2>3. ~Call /\ ~BeginBlock /\ ~OtherPallets
    <3>1. ~InCall
      BY <1>1 DEF InCall
    <3>2. ASSUME NEW sender \in AccountId PROVE ~CallBy(sender)
      <4>1. ASSUME NEW id \in CollectibleId
            PROVE  /\ ~Mint(sender, id)
                   /\ ~Burn(sender, id)
                   /\ ~SetUnrentable(sender, id)
                   /\ ~EquipCollectible(sender, id)
                   /\ ~UnequipCollectible(sender, id)
        BY <3>1 DEF Mint, Burn, SetUnrentable, EquipCollectible, UnequipCollectible
      <4>2. ASSUME NEW id \in CollectibleId,
                   NEW price, NEW minimum, NEW maximum, NEW recurring, NEW blocks
            PROVE  /\ ~SetRentable(sender, id, price, minimum, maximum)
                   /\ ~SetRecurring(sender, id, recurring)
                   /\ ~MayRent(sender, id, blocks)
                   /\ ~MayExtend(sender, id, blocks)
        BY <3>1 DEF SetRentable, SetRecurring, MayRent, MayExtend
      <4> QED
        BY <4>1, <4>2 DEF CallBy, Rent, RentSpins, ExtendRent, ExtendRentSpins
    <3>3. ~BeginBlock /\ ~OtherPallets
      BY <3>1 DEF BeginBlock, OtherPallets, BalancesTransfer, ChargeFee
    <3> QED
      BY <3>2, <3>3 DEF Call
  <2> QED
    BY <1>1, <2>1, <2>2, <2>3 DEF Next, OnInitialize
<1>2. RentalInv /\ [Next]_vars => [TurnShortens]_vars
  BY <1>1 DEF TurnShortens
<1> QED
  BY <1>2, RentalInvariant, PTL DEF Spec

================================================================================
