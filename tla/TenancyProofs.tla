----------------------------- MODULE TenancyProofs -----------------------------
(***************************************************************************)
(* The rent pallet implements Tenancy, and the application of extrinsics   *)
(* in Dispatch implements the rent pallet, for all capacities, periods and *)
(* widths.                                                                 *)
(*                                                                         *)
(* The argument.  Each step of the pallet is a step of Tenancy on OwnerOf  *)
(* and LeaseOf, or leaves what Tenancy speaks of alone.  LeaseOf is read   *)
(* from two storage maps, and is a lease of Tenancy because they agree,    *)
(* which is RentalInv; that the hook leaves no due lease unsettled is      *)
(* RentalsStayScheduled.  A call that is refused changes nothing, as its   *)
(* storage layer is dropped.                                               *)
(*                                                                         *)
(* The rest is about the extrinsics: whose funds they take, and which      *)
(* calls panic, from the order of their checks and TermsAreComplete.       *)
(***************************************************************************)
EXTENDS OwnershipProofs, Dispatch

--------------------------------------------------------------------------------
\* What the steps do to the leases

\* The lease of Tenancy for a rental of the pallet.
TenantLease(tenant, rental) ==
    [ tenant |-> tenant,
      due    |-> rental.next_rent_block,
      period |-> rental.rental_periodic_interval,
      renew  |-> rental.recurring ]

LEMMA TenantLeaseType ==
  ASSUME NEW tenant \in AccountId, NEW rental \in RentalPeriodConfig
  PROVE  /\ TenantLease(tenant, rental) # None
         /\ TenantLease(tenant, rental).tenant = tenant
         /\ TenantLease(tenant, rental).due = rental.next_rent_block
         /\ TenantLease(tenant, rental).period = rental.rental_periodic_interval
         /\ TenantLease(tenant, rental).renew = rental.recurring
<1>1. TenantLease(tenant, rental) \in
          [ tenant : AccountId, due : BlockNumber, period : U32, renew : BOOLEAN ]
  BY DEF TenantLease, RentalPeriodConfig
<1> QED
  BY <1>1, NoneIsNoLease DEF TenantLease

\* A lease is a rental, and without a rental there is none.
LeasesMapRentals ==
    \A id \in CollectibleId :
        /\ \A a \in AccountId : LesseeCollectibles[a][id] # None =>
               LeaseOf[id] = TenantLease(a, LesseeCollectibles[a][id])
        /\ (\A a \in AccountId : LesseeCollectibles[a][id] = None) => LeaseOf[id] = None

LEMMA LeaseIsMapped == RentalInv => LeasesMapRentals
<1> SUFFICES ASSUME RentalInv, NEW id \in CollectibleId
             PROVE  /\ \A a \in AccountId : LesseeCollectibles[a][id] # None =>
                           LeaseOf[id] = TenantLease(a, LesseeCollectibles[a][id])
                    /\ (\A a \in AccountId : LesseeCollectibles[a][id] = None) =>
                           LeaseOf[id] = None
  BY DEF LeasesMapRentals
<1>1. ASSUME NEW a \in AccountId, LesseeCollectibles[a][id] # None
      PROVE  LeaseOf[id] = TenantLease(a, LesseeCollectibles[a][id])
  <2>1. Collectibles[id].lessee = a /\ Lease(id) = LesseeCollectibles[a][id]
    BY <1>1, LeaseIsRental DEF LeasesAreRentals
  <2>2. Rented(id)
    BY <1>1, <2>1, NoneAssumption DEF Rented, RentalInv, RentalsHaveOneLessee
  <2> QED
    BY <2>1, <2>2 DEF LeaseOf, TenantLease
<1>2. ASSUME \A a \in AccountId : LesseeCollectibles[a][id] = None
      PROVE  LeaseOf[id] = None
  <2>1. ~Rented(id)
    <3>1. Rented(id) => Collectibles[id].lessee \in AccountId
      BY DEF Rented, Exists, RentalInv, TypeOK, Collectible
    <3> QED
      BY <1>2, <3>1 DEF Rented, RentalInv, RentalsHaveOneLessee
  <2> QED
    BY <2>1 DEF LeaseOf
<1> QED
  BY <1>1, <1>2

LEMMA LeaseIsMappedNext == RentalInv' => LeasesMapRentals'
  BY LeaseIsMapped, PTL

LEMMA LeaseOfDomain ==
  /\ LeaseOf = [id \in CollectibleId |-> LeaseOf[id]]
  /\ LeaseOf' = [id \in CollectibleId |-> LeaseOf'[id]]
  /\ OwnerOf = [id \in CollectibleId |-> OwnerOf[id]]
  /\ OwnerOf' = [id \in CollectibleId |-> OwnerOf'[id]]
  BY DEF LeaseOf, OwnerOf

LEMMA SameLeases ==
  ASSUME RentalInv, RentalInv', UNCHANGED LesseeCollectibles
  PROVE  UNCHANGED LeaseOf
<1>1. ASSUME NEW id \in CollectibleId PROVE LeaseOf'[id] = LeaseOf[id]
  <2>1. CASE \A a \in AccountId : LesseeCollectibles[a][id] = None
    BY <2>1, LeaseIsMapped, LeaseIsMappedNext DEF LeasesMapRentals
  <2>2. ASSUME NEW a \in AccountId, LesseeCollectibles[a][id] # None
        PROVE  LeaseOf'[id] = LeaseOf[id]
    BY <2>2, LeaseIsMapped, LeaseIsMappedNext DEF LeasesMapRentals
  <2> QED
    BY <2>1, <2>2
<1> QED
  BY <1>1, LeaseOfDomain

\* The step touches the rental of id by lessee, who is its only one.
LEMMA OneLease ==
  ASSUME RentalInv, RentalInv', NEW lessee \in AccountId, NEW id \in CollectibleId,
         OthersKept(lessee, id),
         \A a \in AccountId : a # lessee => LesseeCollectibles[a][id] = None,
         NEW new,
         new = IF LesseeCollectibles'[lessee][id] = None THEN None
               ELSE TenantLease(lessee, LesseeCollectibles'[lessee][id])
  PROVE  LeaseOf' = [LeaseOf EXCEPT ![id] = new]
<1>1. ASSUME NEW i \in CollectibleId, i # id PROVE LeaseOf'[i] = LeaseOf[i]
  <2>1. \A a \in AccountId : LesseeCollectibles'[a][i] = LesseeCollectibles[a][i]
    BY <1>1 DEF OthersKept
  <2>2. CASE \A a \in AccountId : LesseeCollectibles[a][i] = None
    BY <2>1, <2>2, LeaseIsMapped, LeaseIsMappedNext DEF LeasesMapRentals
  <2>3. ASSUME NEW a \in AccountId, LesseeCollectibles[a][i] # None
        PROVE  LeaseOf'[i] = LeaseOf[i]
    BY <2>1, <2>3, LeaseIsMapped, LeaseIsMappedNext DEF LeasesMapRentals
  <2> QED
    BY <2>2, <2>3
<1>2. LeaseOf'[id] = new
  <2>1. \A a \in AccountId : a # lessee => LesseeCollectibles'[a][id] = None
    BY DEF OthersKept
  <2> QED
    BY <2>1, LeaseIsMappedNext DEF LeasesMapRentals
<1> QED
  BY <1>1, <1>2, LeaseOfDomain

--------------------------------------------------------------------------------
\* What the steps do to the owners

LEMMA OwnerOfId ==
  ASSUME TypeOK, NEW id \in CollectibleId
  PROVE  /\ Exists(id) => /\ OwnerOf[id] = Collectibles[id].lessor
                          /\ OwnerOf[id] \in AccountId
                          /\ OwnerOf[id] # None
         /\ ~Exists(id) => OwnerOf[id] = None
<1>1. Exists(id) => Collectibles[id] \in Collectible
  BY DEF TypeOK, Exists
<1>2. Exists(id) => Collectibles[id].lessor \in AccountId
  BY <1>1 DEF Collectible
<1> QED
  BY <1>2, NoneAssumption DEF OwnerOf

LEMMA SameOwners ==
  ASSUME \A id \in CollectibleId :
             /\ Exists(id)' <=> Exists(id)
             /\ Exists(id) => Collectibles'[id].lessor = Collectibles[id].lessor
  PROVE  UNCHANGED OwnerOf
<1>1. \A id \in CollectibleId : OwnerOf'[id] = OwnerOf[id]
  BY DEF OwnerOf
<1> QED
  BY <1>1, LeaseOfDomain

\* rent, set_rentable, set_unrentable and the end of a rental change no owner.
LEMMA SameOwnersBut ==
  ASSUME NEW id \in CollectibleId, CollectiblesKept(id), Exists(id), Exists(id)',
         Collectibles'[id].lessor = Collectibles[id].lessor
  PROVE  UNCHANGED OwnerOf
  BY SameOwners DEF CollectiblesKept, Exists

LEMMA OneOwner ==
  ASSUME NEW id \in CollectibleId, CollectiblesKept(id), NEW new,
         new = IF Exists(id)' THEN Collectibles'[id].lessor ELSE None
  PROVE  OwnerOf' = [OwnerOf EXCEPT ![id] = new]
<1>1. ASSUME NEW i \in CollectibleId, i # id PROVE OwnerOf'[i] = OwnerOf[i]
  BY <1>1 DEF OwnerOf, CollectiblesKept, Exists
<1>2. OwnerOf'[id] = new
  BY DEF OwnerOf
<1> QED
  BY <1>1, <1>2, LeaseOfDomain

--------------------------------------------------------------------------------
\* Each step is one of Tenancy

\* transfer_funds takes from the lessee what it gives to the lessor.
LEMMA TransferPays ==
  ASSUME TypeOK, NEW id \in CollectibleId, Exists(id), NEW lessee \in AccountId,
         lessee # Collectibles[id].lessor, NEW amount \in Nat,
         CanTransfer(lessee, Collectibles[id].lessor, amount),
         free_balance' = AfterTransfer(lessee, Collectibles[id].lessor, amount)
  PROVE  T!Pays(lessee, id)
<1>1. OwnerOf[id] = Collectibles[id].lessor
  BY OwnerOfId
<1>2. /\ free_balance[lessee] \in Nat
      /\ free_balance[lessee] >= amount
  BY DEF CanTransfer, TypeOK
<1>3. amount \in 0 .. free_balance[lessee]
  BY <1>2
<1>4. free_balance' = [free_balance EXCEPT ![lessee] = @ - amount, ![OwnerOf[id]] = @ + amount]
  BY <1>1 DEF AfterTransfer
<1> QED
  BY <1>3, <1>4 DEF T!Pays

\* The block that the search finds is one that Tenancy grants.
LEMMA FoundIsGranted ==
  ASSUME NEW pending, NEW interval \in U32, NEW c \in BlockNumber,
         c = AvailableBlock(pending, block_number, interval)
  PROVE  c \in T!Granted(interval)
  BY DEF AvailableBlock, RequestedBlock, FollowingBlock, T!Granted

\* Who rents nothing has no lease, and who rents has the lease of its rental.
LEMMA TenantOf ==
  ASSUME RentalInv, NEW id \in CollectibleId, NEW lessee \in AccountId,
         LesseeCollectibles[lessee][id] # None
  PROVE  /\ Exists(id)
         /\ Collectibles[id].lessee = lessee
         /\ Collectibles[id].lessor # lessee
         /\ LesseeCollectibles[lessee][id] \in RentalPeriodConfig
         /\ LeaseOf[id] = TenantLease(lessee, LesseeCollectibles[lessee][id])
         /\ LeaseOf[id] # None
         /\ LeaseOf[id].tenant = lessee
         /\ LeaseOf[id].due = LesseeCollectibles[lessee][id].next_rent_block
         /\ LeaseOf[id].period = LesseeCollectibles[lessee][id].rental_periodic_interval
         /\ LeaseOf[id].renew = LesseeCollectibles[lessee][id].recurring
         /\ \A a \in AccountId : a # lessee => LesseeCollectibles[a][id] = None
<1>1. /\ Exists(id) /\ Collectibles[id].lessee = lessee
      /\ Collectibles[id].lessor # lessee
  BY DEF RentalInv, RentalsHaveOneLessee
<1>2. LesseeCollectibles[lessee][id] \in RentalPeriodConfig
  BY RentalTypes DEF RentalInv
<1>3. LeaseOf[id] = TenantLease(lessee, LesseeCollectibles[lessee][id])
  BY LeaseIsMapped DEF LeasesMapRentals
<1> QED
  BY <1>1, <1>2, <1>3, TenantLeaseType, NoOtherLessee

LEMMA VacantHasNoLease ==
  ASSUME RentalInv, NEW id \in CollectibleId, Exists(id) => Collectibles[id].lessee = None
  PROVE  /\ LeaseOf[id] = None
         /\ \A a \in AccountId : LesseeCollectibles[a][id] = None
<1>1. \A a \in AccountId : LesseeCollectibles[a][id] = None
  BY NoneAssumption DEF RentalInv, RentalsHaveOneLessee
<1> QED
  BY <1>1, LeaseIsMapped DEF LeasesMapRentals

LEMMA MintCreates ==
  ASSUME RentalInv, RentalInv', NEW sender \in AccountId, NEW id \in CollectibleId,
         Mint(sender, id)
  PROVE  T!Create(id, sender)
<1>1. /\ ~Exists(id) /\ Exists(id)' /\ Collectibles'[id].lessor = sender
      /\ CollectiblesKept(id)
  BY MintEffect DEF RentalInv
<1>2. /\ phase = "extrinsics"
      /\ UNCHANGED << LesseeCollectibles, free_balance, block_number, phase >>
  BY DEF Mint, InCall, clock
<1>3. OwnerOf[id] = None /\ OwnerOf' = [OwnerOf EXCEPT ![id] = sender]
  BY <1>1, OneOwner, OwnerOfId DEF RentalInv
<1>4. UNCHANGED LeaseOf
  BY <1>2, SameLeases
<1> QED
  BY <1>2, <1>3, <1>4 DEF T!Create

LEMMA BurnDestroys ==
  ASSUME RentalInv, RentalInv', NEW sender \in AccountId, NEW id \in CollectibleId,
         Burn(sender, id)
  PROVE  T!Destroy(id)
<1>1. /\ Exists(id) /\ ~Exists(id)' /\ Collectibles[id].lessee = None
      /\ CollectiblesKept(id)
  BY BurnEffect DEF RentalInv
<1>2. /\ phase = "extrinsics"
      /\ UNCHANGED << LesseeCollectibles, free_balance, block_number, phase >>
  BY DEF Burn, InCall, clock
<1>3. OwnerOf[id] # None /\ OwnerOf' = [OwnerOf EXCEPT ![id] = None]
  BY <1>1, OneOwner, OwnerOfId DEF RentalInv
<1>4. LeaseOf[id] = None
  BY <1>1, VacantHasNoLease
<1>5. UNCHANGED LeaseOf
  BY <1>2, SameLeases
<1> QED
  BY <1>2, <1>3, <1>4, <1>5 DEF T!Destroy

LEMMA RentLets ==
  ASSUME RentalInv, RentalInv', NEW sender \in AccountId, NEW id \in CollectibleId,
         NEW blocks \in Blocks, NEW recurring \in BOOLEAN,
         Rent(sender, id, blocks, recurring)
  PROVE  T!Let(id)
<1>1. PICK c \in BlockNumber : RentMade(sender, id, blocks, recurring, c)
  BY RentEffect DEF RentalInv
<1>2. /\ Exists(id) /\ Collectibles[id].lessee = None
      /\ Collectibles[id].lessor # sender
      /\ Collectibles[id].price_per_block # None
      /\ phase = "extrinsics"
      /\ CanTransfer(sender, Collectibles[id].lessor, RentPrice(id, blocks))
      /\ free_balance' =
             AfterTransfer(sender, Collectibles[id].lessor, RentPrice(id, blocks))
      /\ UNCHANGED << block_number, phase >>
  BY DEF Rent, MayRent, NotAParty, InCall, clock
<1>3. NewLessee(id, sender)
  BY RentLessee DEF RentalInv
<1>4. LeaseOf[id] = None /\ \A a \in AccountId : LesseeCollectibles[a][id] = None
  BY <1>2, VacantHasNoLease
<1>5. PICK rental \in RentalPeriodConfig :
          /\ rental = LesseeCollectibles'[sender][id]
          /\ rental.rental_periodic_interval = blocks
          /\ rental.next_rent_block = c
          /\ rental.recurring = recurring
  BY <1>1 DEF RentMade
<1>6. rental # None
  BY NoneAssumption
<1>7. LeaseOf' = [LeaseOf EXCEPT ![id] = TenantLease(sender, rental)]
  <2>1. OthersKept(sender, id)
    BY <1>1 DEF RentMade
  <2> QED
    BY <1>4, <1>5, <1>6, <2>1, OneLease
<1>8. TenantLease(sender, rental) =
          [tenant |-> sender, due |-> c, period |-> blocks, renew |-> recurring]
  BY <1>5 DEF TenantLease
<1>9. blocks \in U32
  BY InputsAssumption
<1>10. c \in T!Granted(blocks)
  BY <1>1, <1>9, FoundIsGranted DEF RentMade
<1>11. T!Pays(sender, id)
  <2>1. RentPrice(id, blocks) \in Nat
    BY <1>2, <1>9, RentPriceType DEF RentalInv
  <2> QED
    BY <1>2, <2>1, TransferPays DEF RentalInv
<1>12. OwnerOf[id] # None /\ sender # OwnerOf[id]
  BY <1>2, OwnerOfId DEF RentalInv
<1>13. UNCHANGED OwnerOf
  BY <1>3, SameOwnersBut DEF NewLessee
<1>14. blocks \in 0 .. U32Size - 1
  BY <1>9 DEF U32
<1>15. LeaseOf' = [LeaseOf EXCEPT ![id] =
           [tenant |-> sender, due |-> c, period |-> blocks, renew |-> recurring]]
  BY <1>7, <1>8
<1> QED
  BY <1>2, <1>4, <1>10, <1>11, <1>12, <1>13, <1>14, <1>15 DEF T!Let

\* A rental whose due block moves is a lease whose due block moves.
LEMMA MovedLease ==
  ASSUME RentalInv, RentalInv', NEW lessee \in AccountId, NEW id \in CollectibleId,
         NEW c \in BlockNumber, LesseeCollectibles[lessee][id] # None,
         Moved(lessee, id, c)
  PROVE  LeaseOf' = [LeaseOf EXCEPT ![id].due = c]
<1>1. PICK before \in RentalPeriodConfig, after \in RentalPeriodConfig :
          /\ before = LesseeCollectibles[lessee][id]
          /\ after = LesseeCollectibles'[lessee][id]
          /\ after.rental_periodic_interval = before.rental_periodic_interval
          /\ after.next_rent_block = c
          /\ after.recurring = before.recurring
  BY DEF Moved
<1>2. /\ LeaseOf[id] = TenantLease(lessee, before)
      /\ \A a \in AccountId : a # lessee => LesseeCollectibles[a][id] = None
  BY <1>1, TenantOf
<1>3. after # None
  BY NoneAssumption
<1>4. LeaseOf' = [LeaseOf EXCEPT ![id] = TenantLease(lessee, after)]
  BY <1>1, <1>2, <1>3, OneLease DEF Moved
<1>5. TenantLease(lessee, after) = [TenantLease(lessee, before) EXCEPT !.due = c]
  BY <1>1 DEF TenantLease
<1>6. TenantLease(lessee, after) = [LeaseOf[id] EXCEPT !.due = c]
  BY <1>2, <1>5
<1> QED
  BY <1>4, <1>6, LeaseOfDomain

LEMMA SetRecurringSetsRenew ==
  ASSUME RentalInv, RentalInv', NEW sender \in AccountId, NEW id \in CollectibleId,
         NEW recurring \in BOOLEAN, SetRecurring(sender, id, recurring)
  PROVE  T!SetRenew(id, recurring)
<1>1. /\ phase = "extrinsics" /\ LesseeCollectibles[sender][id] # None
      /\ UNCHANGED << Collectibles, free_balance, block_number, phase >>
  BY DEF SetRecurring, InCall, clock
<1>2. PICK before \in RentalPeriodConfig, after \in RentalPeriodConfig :
          /\ before = LesseeCollectibles[sender][id]
          /\ after = LesseeCollectibles'[sender][id]
          /\ after.rental_periodic_interval = before.rental_periodic_interval
          /\ after.next_rent_block = before.next_rent_block
          /\ after.recurring = recurring
          /\ OthersKept(sender, id)
  BY SetRecurringEffect DEF RentalInv
<1>3. /\ LeaseOf[id] = TenantLease(sender, before) /\ LeaseOf[id] # None
      /\ \A a \in AccountId : a # sender => LesseeCollectibles[a][id] = None
  BY <1>1, <1>2, TenantOf
<1>4. after # None
  BY NoneAssumption
<1>5. LeaseOf' = [LeaseOf EXCEPT ![id] = TenantLease(sender, after)]
  BY <1>2, <1>3, <1>4, OneLease
<1>6. TenantLease(sender, after) = [TenantLease(sender, before) EXCEPT !.renew = recurring]
  BY <1>2 DEF TenantLease
<1>7. TenantLease(sender, after) = [LeaseOf[id] EXCEPT !.renew = recurring]
  BY <1>3, <1>6
<1>8. LeaseOf' = [LeaseOf EXCEPT ![id].renew = recurring]
  BY <1>5, <1>7, LeaseOfDomain
<1>9. UNCHANGED OwnerOf
  BY <1>1, SameOwners DEF Exists
<1> QED
  BY <1>1, <1>3, <1>8, <1>9 DEF T!SetRenew

LEMMA ExtendRentProlongs ==
  ASSUME RentalInv, RentalInv', NEW sender \in AccountId, NEW id \in CollectibleId,
         NEW blocks \in Blocks, ExtendRent(sender, id, blocks)
  PROVE  T!Prolong(id)
<1>1. PICK due \in BlockNumber, c \in BlockNumber, base \in PendingType :
          Extended(sender, id, blocks, due, c, base)
  BY ExtendRentEffect DEF RentalInv
<1>2. /\ Exists(id) /\ LesseeCollectibles[sender][id] # None
      /\ Collectibles[id].price_per_block # None
      /\ phase = "extrinsics"
      /\ CanTransfer(sender, Collectibles[id].lessor, ExtensionPrice(id, blocks))
      /\ free_balance' =
             AfterTransfer(sender, Collectibles[id].lessor, ExtensionPrice(id, blocks))
      /\ UNCHANGED << Collectibles, block_number, phase >>
  BY DEF ExtendRent, MayExtend, InCall, clock
<1>3. LeaseOf' = [LeaseOf EXCEPT ![id].due = c]
  BY <1>1, <1>2, MovedLease DEF Extended
<1>4. /\ LeaseOf[id] # None /\ LeaseOf[id].tenant = sender
      /\ Collectibles[id].lessor # sender
  BY <1>2, TenantOf
<1>5. T!Pays(sender, id)
  <2>1. ExtensionPrice(id, blocks) \in Nat
    BY <1>2, InputsAssumption, ExtensionPriceType DEF RentalInv
  <2> QED
    BY <1>2, <1>4, <2>1, TransferPays DEF RentalInv
<1>6. UNCHANGED OwnerOf
  BY <1>2, SameOwners DEF Exists
<1>7. c \in 0 .. U32Size - 1
  BY DEF BlockNumber, U32
<1> QED
  BY <1>2, <1>3, <1>4, <1>5, <1>6, <1>7 DEF T!Prolong

\* The rental that the loop is at is due now.
LEMMA ProcessedIsDue ==
  ASSUME RentalInv, NEW lessee \in AccountId, NEW id \in CollectibleId,
         Processing(id, lessee)
  PROVE  /\ LesseeCollectibles[lessee][id] # None
         /\ LesseeCollectibles[lessee][id].next_rent_block = block_number
         /\ phase = "on_initialize"
<1>1. block_number \in BlockNumber
  BY DEF RentalInv, TypeOK
<1>2. PICK s : s = IF block_number = block_number THEN Tail(rentals)
                   ELSE PendingRentals[block_number]
  OBVIOUS
<1>3. Due(id, lessee, block_number)
  BY <1>1, <1>2, WithoutHead
<1> QED
  BY <1>3 DEF Due, Processing

LEMMA RemoveLesseeExpires ==
  ASSUME RentalInv, RentalInv', NEW lessee \in AccountId, NEW id \in CollectibleId,
         Processing(id, lessee), RemoveLessee(id, lessee)
  PROVE  T!Expire(id)
<1>1. /\ LesseeCollectibles[lessee][id] # None
      /\ LesseeCollectibles[lessee][id].next_rent_block = block_number
      /\ phase = "on_initialize"
      /\ UNCHANGED << free_balance, block_number, phase >>
  BY ProcessedIsDue DEF RemoveLessee
<1>2. /\ LeaseOf[id] # None /\ LeaseOf[id].due = block_number
      /\ \A a \in AccountId : a # lessee => LesseeCollectibles[a][id] = None
  BY <1>1, TenantOf
<1>3. LesseeCollectibles'[lessee][id] = None /\ OthersKept(lessee, id)
  BY RemoveLesseeEffect DEF RentalInv
<1>4. LeaseOf' = [LeaseOf EXCEPT ![id] = None]
  BY <1>2, <1>3, OneLease
<1>5. UNCHANGED OwnerOf
  BY RemovedLessee, SameOwnersBut DEF NewLessee
<1> QED
  BY <1>1, <1>2, <1>4, <1>5 DEF T!Expire, T!DueNow

LEMMA RenewRentalRenews ==
  ASSUME RentalInv, RentalInv', NEW lessee \in AccountId, NEW id \in CollectibleId,
         RenewRental(id, lessee)
  PROVE  T!Renew(id)
<1>1. PICK interval \in U32, c \in BlockNumber : Renewed(lessee, id, interval, c)
  BY RenewRentalEffect DEF RentalInv
<1>2. /\ Processing(id, lessee) /\ Exists(id)
      /\ LesseeCollectibles[lessee][id].recurring
      /\ Collectibles[id].price_per_block # None
      /\ CanTransfer(lessee, Collectibles[id].lessor, RenewalPrice(id, lessee))
      /\ free_balance' =
             AfterTransfer(lessee, Collectibles[id].lessor, RenewalPrice(id, lessee))
      /\ UNCHANGED << Collectibles, block_number, phase >>
  <2>1. Renews(id, lessee)
    BY DEF RenewRental
  <2>2. /\ Processing(id, lessee) /\ Exists(id)
        /\ LesseeCollectibles[lessee][id].recurring
        /\ Collectibles[id].price_per_block # None
        /\ CanTransfer(lessee, Collectibles[id].lessor, RenewalPrice(id, lessee))
    BY <2>1 DEF Renews, Processing, Continues, CanRenew
  <2>3. /\ free_balance' =
               AfterTransfer(lessee, Collectibles[id].lessor, RenewalPrice(id, lessee))
        /\ UNCHANGED << Collectibles, block_number, phase >>
    BY DEF RenewRental
  <2> QED
    BY <2>2, <2>3
<1>3. /\ LesseeCollectibles[lessee][id] # None
      /\ LesseeCollectibles[lessee][id].next_rent_block = block_number
      /\ phase = "on_initialize"
  BY <1>2, ProcessedIsDue
<1>4. interval = LesseeCollectibles[lessee][id].rental_periodic_interval
  BY <1>1 DEF Renewed
<1>5. /\ LeaseOf[id] # None /\ LeaseOf[id].due = block_number
      /\ LeaseOf[id].tenant = lessee /\ LeaseOf[id].period = interval
      /\ LeaseOf[id].renew
      /\ Collectibles[id].lessor # lessee
  BY <1>2, <1>3, <1>4, TenantOf
<1>6. LeaseOf' = [LeaseOf EXCEPT ![id].due = c]
  BY <1>1, <1>3, MovedLease DEF Renewed
<1>7. c \in T!Granted(LeaseOf[id].period)
  BY <1>1, <1>5, FoundIsGranted DEF Renewed
<1>8. T!Pays(lessee, id)
  <2>1. RenewalPrice(id, lessee) \in Nat
    BY <1>2, <1>4, RentPriceType DEF RentalInv, RenewalPrice
  <2> QED
    BY <1>2, <1>5, <2>1, TransferPays DEF RentalInv
<1>9. UNCHANGED OwnerOf
  BY <1>2, SameOwners DEF Exists
<1> QED
  BY <1>2, <1>3, <1>5, <1>6, <1>7, <1>8, <1>9 DEF T!Renew, T!DueNow

\* When the loop is done, a rental that is still due in this block would be one
\* that the schedule has forgotten.
LEMMA FinishOpens ==
  ASSUME RentalInv, RentalInv', RentalsStayScheduled, FinishRentals
  PROVE  T!Opened
<1>1. /\ phase = "on_initialize" /\ phase' = "extrinsics" /\ rentals = <<>>
      /\ UNCHANGED << Collectibles, LesseeCollectibles, free_balance, block_number >>
  BY DEF FinishRentals
<1>2. ASSUME NEW id \in CollectibleId, T!DueNow(id) PROVE LeaseOf[id].period = 0
  <2>1. LeaseOf[id] # None /\ LeaseOf[id].due = block_number
    BY <1>2 DEF T!DueNow
  <2>2. PICK a \in AccountId : LesseeCollectibles[a][id] # None
    BY <2>1, LeaseIsMapped DEF LeasesMapRentals
  <2>3. /\ LesseeCollectibles[a][id].next_rent_block = block_number
        /\ LeaseOf[id].period = LesseeCollectibles[a][id].rental_periodic_interval
    BY <2>1, <2>2, TenantOf
  <2>4. Scheduled(block_number) = <<>>
    BY <1>1 DEF Scheduled
  <2>5. <<id, a>> \notin Range(Scheduled(block_number))
    BY <2>4 DEF Range
  <2> QED
    BY <2>2, <2>3, <2>5 DEF RentalsStayScheduled
<1>3. UNCHANGED LeaseOf /\ UNCHANGED OwnerOf
  BY <1>1, SameLeases, SameOwners DEF Exists
<1> QED
  BY <1>1, <1>2, <1>3 DEF T!Opened

\* Nothing that Tenancy speaks of changes.
LEMMA StutterMaps ==
  ASSUME RentalInv, RentalInv',
         UNCHANGED << Collectibles, LesseeCollectibles, free_balance, block_number, phase >>
  PROVE  UNCHANGED T!vars
  BY SameLeases, SameOwners DEF T!vars, Exists

LEMMA CallMaps ==
  ASSUME RentalInv, RentalInv', Call
  PROVE  [T!Next]_(T!vars)
<1> PICK sender \in AccountId : CallBy(sender)
  BY DEF Call
<1> PICK id \in CollectibleId :
        \/ Mint(sender, id)
        \/ Burn(sender, id)
        \/ \E price \in Prices, minimum, maximum \in Periods :
               SetRentable(sender, id, price, minimum, maximum)
        \/ \E blocks \in Blocks, recurring \in BOOLEAN :
               Rent(sender, id, blocks, recurring)
        \/ \E blocks \in Blocks : RentSpins(sender, id, blocks)
        \/ SetUnrentable(sender, id)
        \/ \E recurring \in BOOLEAN : SetRecurring(sender, id, recurring)
        \/ \E blocks \in Blocks : ExtendRent(sender, id, blocks)
        \/ \E blocks \in Blocks : ExtendRentSpins(sender, id, blocks)
        \/ EquipCollectible(sender, id)
        \/ UnequipCollectible(sender, id)
  BY DEF CallBy
<1>1. CASE Mint(sender, id)
  BY <1>1, MintCreates DEF T!Next
<1>2. CASE Burn(sender, id)
  BY <1>2, BurnDestroys DEF T!Next
<1>3. ASSUME NEW price \in Prices, NEW minimum \in Periods, NEW maximum \in Periods,
             SetRentable(sender, id, price, minimum, maximum)
      PROVE  UNCHANGED T!vars
  <2>1. UNCHANGED << LesseeCollectibles, free_balance, block_number, phase >>
    BY <1>3 DEF SetRentable, clock
  <2>2. UNCHANGED OwnerOf
    <3>1. /\ Exists(id) /\ Exists(id)' /\ CollectiblesKept(id)
          /\ Collectibles'[id].lessor = Collectibles[id].lessor
      BY <1>3, SetRentableEffect DEF RentalInv
    <3> QED
      BY <3>1, SameOwnersBut
  <2> QED
    BY <2>1, <2>2, SameLeases DEF T!vars
<1>4. CASE \E blocks \in Blocks, recurring \in BOOLEAN :
               Rent(sender, id, blocks, recurring)
  BY <1>4, RentLets DEF T!Next
<1>5. CASE SetUnrentable(sender, id)
  <2>1. UNCHANGED << LesseeCollectibles, free_balance, block_number, phase >>
    BY <1>5 DEF SetUnrentable, clock
  <2>2. UNCHANGED OwnerOf
    BY <1>5, SetUnrentableEffect, SameOwnersBut DEF RentalInv
  <2> QED
    BY <2>1, <2>2, SameLeases DEF T!vars
<1>6. CASE \E recurring \in BOOLEAN : SetRecurring(sender, id, recurring)
  BY <1>6, SetRecurringSetsRenew DEF T!Next
<1>7. CASE \E blocks \in Blocks : ExtendRent(sender, id, blocks)
  BY <1>7, ExtendRentProlongs DEF T!Next
<1>8. CASE \/ \E blocks \in Blocks : RentSpins(sender, id, blocks)
           \/ \E blocks \in Blocks : ExtendRentSpins(sender, id, blocks)
           \/ EquipCollectible(sender, id)
           \/ UnequipCollectible(sender, id)
  <2>1. UNCHANGED << Collectibles, LesseeCollectibles, free_balance, block_number, phase >>
    BY <1>8 DEF RentSpins, ExtendRentSpins, EquipCollectible, UnequipCollectible,
                storage, clock
  <2> QED
    BY <2>1, StutterMaps
<1> QED
  BY <1>1, <1>2, <1>3, <1>4, <1>5, <1>6, <1>7, <1>8

LEMMA HookMaps ==
  ASSUME RentalInv, RentalInv', RentalsStayScheduled, BeginBlock \/ OnInitialize
  PROVE  [T!Next]_(T!vars)
<1>1. CASE BeginBlock
  <2>1. /\ phase = "extrinsics" /\ phase' = "on_initialize"
        /\ block_number' = block_number + 1
        /\ UNCHANGED << Collectibles, LesseeCollectibles, free_balance >>
    BY <1>1 DEF BeginBlock, InCall, storage
  <2>2. UNCHANGED LeaseOf /\ UNCHANGED OwnerOf
    BY <2>1, SameLeases, SameOwners DEF Exists
  <2> QED
    BY <2>1, <2>2 DEF T!OpenBlock, T!Next
<1>2. CASE FinishRentals
  BY <1>2, FinishOpens DEF T!Next
<1>3. ASSUME NEW id \in CollectibleId, NEW lessee \in AccountId,
             EndRental(id, lessee) \/ CancelUnpaidRental(id, lessee)
      PROVE  T!Expire(id)
  BY <1>3, RemoveLesseeExpires DEF EndRental, CancelUnpaidRental
<1>4. ASSUME NEW id \in CollectibleId, NEW lessee \in AccountId, RenewalSpins(id, lessee)
      PROVE  UNCHANGED T!vars
  <2>1. UNCHANGED << Collectibles, LesseeCollectibles, free_balance, block_number, phase >>
    BY <1>4 DEF RenewalSpins, storage, clock
  <2> QED
    BY <2>1, StutterMaps
<1>5. CASE ProcessRental
  BY <1>3, <1>4, <1>5, RenewRentalRenews DEF ProcessRental, T!Next
<1> QED
  BY <1>1, <1>2, <1>5 DEF OnInitialize

LEMMA OtherPalletsMap ==
  ASSUME RentalInv, RentalInv', OtherPallets
  PROVE  T!MoveFunds
<1>1. /\ phase = "extrinsics"
      /\ UNCHANGED << Collectibles, LesseeCollectibles, block_number, phase >>
  BY DEF OtherPallets, BalancesTransfer, ChargeFee, InCall, storage, clock
<1>2. free_balance' \in [AccountId -> Nat]
  BY DEF RentalInv, TypeOK
<1>3. UNCHANGED LeaseOf /\ UNCHANGED OwnerOf
  BY <1>1, SameLeases, SameOwners DEF Exists
<1> QED
  BY <1>1, <1>2, <1>3 DEF T!MoveFunds

LEMMA NextMaps ==
  ASSUME RentalInv, RentalsStayScheduled, [Next]_vars
  PROVE  [T!Next]_(T!vars)
<1>1. RentalInv'
  BY NextInv
<1>2. CASE UNCHANGED vars
  BY <1>1, <1>2, StutterMaps DEF vars, storage, clock
<1> QED
  BY <1>1, <1>2, CallMaps, HookMaps, OtherPalletsMap DEF Next, T!Next

LEMMA InitMaps == Init => T!Init
<1> SUFFICES ASSUME Init PROVE T!Init
  OBVIOUS
<1>1. \A id \in CollectibleId : OwnerOf[id] = None /\ LeaseOf[id] = None
  BY DEF Init, OwnerOf, LeaseOf, Rented, Exists
<1>2. /\ OwnerOf = [id \in CollectibleId |-> None]
      /\ LeaseOf = [id \in CollectibleId |-> None]
  BY <1>1, LeaseOfDomain
<1>3. /\ free_balance \in [AccountId -> Nat]
      /\ block_number \in 0 .. U32Size - 1
  BY InitType DEF TypeOK, BlockNumber, U32
<1>4. (phase = "on_initialize") = FALSE
  BY DEF Init
<1> QED
  BY <1>2, <1>3, <1>4 DEF T!Init

\* The pallet keeps the promises of Tenancy whatever the capacities, the widths
\* and the calls: a lease ends or is renewed when it is due, before anybody acts
\* in that block, and only its tenant pays for it, and only its owner is paid.
THEOREM PalletImplementsTenancy == Spec => ImplementsTenancy
<1>1. RentalInv /\ RentalsStayScheduled /\ [Next]_vars => [T!Next]_(T!vars)
  BY NextMaps
<1> QED
  BY <1>1, InitMaps, RentalInvariant, NoRentalIsForgotten, PTL
     DEF Spec, ImplementsTenancy, T!Spec

--------------------------------------------------------------------------------
\* The application of extrinsics

\* What a refused call had written is gone, with its storage layer.
LEMMA RefusedChangesNothing ==
  ASSUME NEW sender \in AccountId, RefusedCallBy(sender)
  PROVE  UNCHANGED vars
  BY DEF RefusedCallBy, Refused, AfterError, vars, storage

LEMMA DispatchStep ==
  ASSUME [DispatchNext]_dispatchVars
  PROVE  [Next]_vars
<1>1. ASSUME NEW signer \in AccountId, NEW caller \in AccountId, Charge(signer, caller)
      PROVE  [Next]_vars
  BY <1>1 DEF Charge, Next, OtherPallets
<1>2. ASSUME NEW caller \in AccountId, Apply(caller)
      PROVE  [Next]_vars
  <2>1. CASE CallBy(caller)
    BY <2>1 DEF Next, Call
  <2>2. CASE RefusedCallBy(caller)
    BY <2>2, RefusedChangesNothing
  <2>3. CASE \E to \in AccountId, amount \in Amounts : BalancesTransfer(caller, to, amount)
    BY <2>3 DEF Next, OtherPallets
  <2> QED
    BY <1>2, <2>1, <2>2, <2>3 DEF Apply
<1>3. CASE BlockStep
  BY <1>3 DEF BlockStep, Next
<1>4. CASE SetKey \/ UNCHANGED dispatchVars
  BY <1>4 DEF SetKey, dispatchVars
<1> QED
  BY <1>1, <1>2, <1>3, <1>4 DEF DispatchNext

\* The model of the pallet, which has no step for a call that is refused, leaves
\* out nothing that Dispatch does: charging the signer, dispatching its call, or one
\* that the sudo key makes for another account, in a storage layer and dropping
\* the layer on an error come to steps of it.
THEOREM DispatchImplementsRent == DispatchSpec => Spec
<1>1. DispatchInit => Init
  BY DEF DispatchInit
<1> QED
  BY <1>1, DispatchStep, PTL DEF DispatchSpec, Spec

\* So the runtime keeps the promises of Tenancy, with calls that fail half-way.
THEOREM DispatchImplementsTenancy == DispatchSpec => ImplementsTenancy
  BY DispatchImplementsRent, PalletImplementsTenancy, PTL

\* And it keeps the index of the owners and the offers in order, although mint
\* and set_rentable write the collectible before the check that can still fail.
THEOREM DispatchKeepsOwnership == DispatchSpec => [](OwnersAreIndexed /\ OfferedIsFree)
  BY DispatchImplementsRent, OwnersIndexed, OffersAreFree, PTL

--------------------------------------------------------------------------------
\* Who pays

\* A transfer takes from the payer alone.
LEMMA OnlyThePayerPays ==
  ASSUME TypeOK, NEW from \in AccountId, NEW to \in AccountId, NEW amount \in Nat,
         NEW a \in AccountId, AfterTransfer(from, to, amount)[a] < free_balance[a]
  PROVE  a = from
<1>1. free_balance \in [AccountId -> Nat]
  BY DEF TypeOK
<1>2. free_balance[a] \in Nat
  BY <1>1
<1> SUFFICES ASSUME a # from PROVE FALSE
  OBVIOUS
<1>3. CASE from = to
  BY <1>2, <1>3 DEF AfterTransfer
<1>4. CASE from # to /\ a = to
  BY <1>1, <1>2, <1>4 DEF AfterTransfer
<1>5. CASE from # to /\ a # to
  BY <1>1, <1>2, <1>5 DEF AfterTransfer
<1> QED
  BY <1>3, <1>4, <1>5

\* Of the calls, rent and extend_rent move funds, and take them from the sender.
LEMMA SenderPays ==
  ASSUME RentalInv, NEW sender \in AccountId, CallBy(sender),
         NEW a \in AccountId, free_balance'[a] < free_balance[a]
  PROVE  a = sender
<1>1. TypeOK
  BY DEF RentalInv
<1>2. free_balance[a] \in Nat
  BY <1>1 DEF TypeOK
<1>3. ASSUME UNCHANGED free_balance PROVE a = sender
  BY <1>2, <1>3
<1>4. ASSUME NEW id \in CollectibleId, NEW blocks \in Blocks, NEW recurring \in BOOLEAN,
             Rent(sender, id, blocks, recurring)
      PROVE  a = sender
  <2>1. /\ Exists(id) /\ Collectibles[id].price_per_block # None
        /\ free_balance' =
               AfterTransfer(sender, Collectibles[id].lessor, RentPrice(id, blocks))
    BY <1>4 DEF Rent, MayRent
  <2>2. Collectibles[id].lessor \in AccountId
    BY <1>1, <2>1, RentalTypes DEF Collectible
  <2>3. RentPrice(id, blocks) \in Nat
    BY <1>1, <2>1, RentPriceType, InputsAssumption
  <2> QED
    BY <1>1, <2>1, <2>2, <2>3, OnlyThePayerPays
<1>5. ASSUME NEW id \in CollectibleId, NEW blocks \in Blocks, ExtendRent(sender, id, blocks)
      PROVE  a = sender
  <2>1. /\ Exists(id) /\ Collectibles[id].price_per_block # None
        /\ free_balance' =
               AfterTransfer(sender, Collectibles[id].lessor, ExtensionPrice(id, blocks))
    BY <1>5 DEF ExtendRent, MayExtend
  <2>2. Collectibles[id].lessor \in AccountId
    BY <1>1, <2>1, RentalTypes DEF Collectible
  <2>3. ExtensionPrice(id, blocks) \in Nat
    BY <1>1, <2>1, ExtensionPriceType, InputsAssumption
  <2> QED
    BY <1>1, <2>1, <2>2, <2>3, OnlyThePayerPays
<1>6. \/ UNCHANGED free_balance
      \/ \E id \in CollectibleId, blocks \in Blocks, recurring \in BOOLEAN :
             Rent(sender, id, blocks, recurring)
      \/ \E id \in CollectibleId, blocks \in Blocks : ExtendRent(sender, id, blocks)
  BY DEF CallBy, Mint, Burn, SetRentable, RentSpins, SetUnrentable, SetRecurring,
         ExtendRentSpins, EquipCollectible, UnequipCollectible
<1> QED
  BY <1>3, <1>4, <1>5, <1>6

LEMMA TransferTakesFromSender ==
  ASSUME RentalInv, NEW from \in AccountId, NEW to \in AccountId, NEW amount \in Amounts,
         BalancesTransfer(from, to, amount),
         NEW a \in AccountId, free_balance'[a] < free_balance[a]
  PROVE  a = from
<1> SUFFICES ASSUME a # from PROVE FALSE
  OBVIOUS
<1>1. free_balance \in [AccountId -> Nat] /\ free_balance[a] \in Nat /\ amount \in Nat
  BY InputsAssumption DEF RentalInv, TypeOK
<1>2. free_balance'[a] = IF a = to THEN free_balance[a] + amount ELSE free_balance[a]
  BY <1>1 DEF BalancesTransfer
<1> QED
  BY <1>1, <1>2

LEMMA FeeIsTheSigners ==
  ASSUME RentalInv, NEW who \in AccountId, NEW fee \in Fees, ChargeFee(who, fee),
         NEW a \in AccountId, free_balance'[a] < free_balance[a]
  PROVE  a = who
<1> SUFFICES ASSUME a # who PROVE FALSE
  OBVIOUS
<1>1. free_balance \in [AccountId -> Nat] /\ free_balance[a] \in Nat
  BY DEF RentalInv, TypeOK
<1>2. free_balance'[a] = free_balance[a]
  BY <1>1 DEF ChargeFee
<1> QED
  BY <1>1, <1>2

\* a's rental of id is due in this block, is recurring, and the hook is at it.
RenewalDue(a, id) ==
    /\ phase = "on_initialize"
    /\ Rented(id) /\ Collectibles[id].lessee = a
    /\ Lease(id).recurring
    /\ Lease(id).next_rent_block = block_number

\* The hook takes rent from the lessee of a rental it renews and from nobody else.
LEMMA HookTakesRent ==
  ASSUME RentalInv, BeginBlock \/ OnInitialize,
         NEW a \in AccountId, free_balance'[a] < free_balance[a]
  PROVE  \E id \in CollectibleId : RenewalDue(a, id)
<1>1. TypeOK
  BY DEF RentalInv
<1>2. free_balance[a] \in Nat
  BY <1>1 DEF TypeOK
<1>3. ASSUME UNCHANGED free_balance PROVE FALSE
  BY <1>2, <1>3
<1>4. PICK id \in CollectibleId, lessee \in AccountId : RenewRental(id, lessee)
  BY <1>3 DEF BeginBlock, OnInitialize, ProcessRental, EndRental, CancelUnpaidRental,
              RemoveLessee, RenewalSpins, FinishRentals
<1>5. Renews(id, lessee)
      /\ free_balance' =
             AfterTransfer(lessee, Collectibles[id].lessor, RenewalPrice(id, lessee))
  BY <1>4 DEF RenewRental
<1>6. /\ Processing(id, lessee) /\ phase = "on_initialize" /\ Exists(id)
      /\ LesseeCollectibles[lessee][id] # None
      /\ LesseeCollectibles[lessee][id].recurring
      /\ Collectibles[id].price_per_block # None
  BY <1>5 DEF Renews, Processing, Continues
<1>7. LesseeCollectibles[lessee][id].next_rent_block = block_number
  BY <1>6, ProcessedIsDue
<1>8. Collectibles[id].lessee = lessee /\ Lease(id) = LesseeCollectibles[lessee][id]
  BY <1>6, LeaseIsRental DEF LeasesAreRentals
<1>9. Rented(id)
  BY <1>6, <1>8, NoneAssumption DEF Rented
<1>10. a = lessee
  <2>1. Collectibles[id].lessor \in AccountId
    BY <1>1, <1>6, RentalTypes DEF Collectible
  <2>2. LesseeCollectibles[lessee][id].rental_periodic_interval \in U32
    BY <1>1, <1>6, RentalTypes DEF RentalPeriodConfig
  <2>3. RenewalPrice(id, lessee) \in Nat
    BY <1>1, <1>6, <2>2, RentPriceType DEF RenewalPrice
  <2> QED
    BY <1>1, <1>5, <2>1, <2>3, OnlyThePayerPays
<1> QED
  BY <1>6, <1>7, <1>8, <1>9, <1>10 DEF RenewalDue

\* What is applied was signed by its caller, or by the sudo key.
MayBeApplied ==
    extrinsic # None =>
        /\ extrinsic \in Extrinsic
        /\ extrinsic.signer \in {extrinsic.caller, sudo_key}

LEMMA StaysApplicable ==
  ASSUME MayBeApplied, [DispatchNext]_dispatchVars
  PROVE  MayBeApplied'
<1>1. ASSUME NEW signer \in AccountId, NEW caller \in AccountId, Charge(signer, caller)
      PROVE  MayBeApplied'
  BY <1>1 DEF Charge, MayCallFor, MayBeApplied, Extrinsic
<1>2. CASE \E caller \in AccountId : Apply(caller)
  BY <1>2 DEF Apply, MayBeApplied
<1>3. CASE SetKey
  BY <1>3 DEF SetKey, MayBeApplied
<1>4. CASE BlockStep \/ UNCHANGED dispatchVars
  BY <1>4 DEF BlockStep, dispatchVars, MayBeApplied
<1> QED
  BY <1>1, <1>2, <1>3, <1>4 DEF DispatchNext

LEMMA StepIsPaidFor ==
  ASSUME RentalInv, MayBeApplied, [DispatchNext]_dispatchVars,
         NEW a \in AccountId, free_balance'[a] < free_balance[a]
  PROVE  \/ extrinsic = None /\ extrinsic' # None /\ extrinsic'.signer = a
         \/ /\ extrinsic # None
            /\ extrinsic.caller = a
            /\ extrinsic.signer \in {a, sudo_key}
         \/ \E id \in CollectibleId : RenewalDue(a, id)
<1> DEFINE signed == extrinsic = None /\ extrinsic' # None /\ extrinsic'.signer = a
<1> DEFINE called == /\ extrinsic # None
                     /\ extrinsic.caller = a
                     /\ extrinsic.signer \in {a, sudo_key}
<1>1. ASSUME UNCHANGED free_balance PROVE FALSE
  <2>1. free_balance[a] \in Nat
    BY DEF RentalInv, TypeOK
  <2> QED
    BY <1>1, <2>1
<1>2. ASSUME NEW signer \in AccountId, NEW caller \in AccountId, Charge(signer, caller)
      PROVE  signed
  <2>1. PICK e \in Extrinsic : e = [signer |-> signer, caller |-> caller]
    BY DEF Extrinsic
  <2>2. extrinsic = None /\ extrinsic' = e /\ e.signer = signer /\ e # None
    BY <1>2, <2>1, ExtrinsicAssumption DEF Charge
  <2>3. PICK fee \in Fees : ChargeFee(signer, fee)
    BY <1>1, <1>2 DEF Charge, vars, storage
  <2>4. a = signer
    BY <2>3, FeeIsTheSigners
  <2> QED
    BY <2>2, <2>4
<1>3. ASSUME NEW caller \in AccountId, Apply(caller)
      PROVE  called
  <2>1. extrinsic # None /\ extrinsic.caller = caller
    BY <1>3 DEF Apply
  <2>2. a = caller
    BY <1>1, <1>3, SenderPays, TransferTakesFromSender DEF Apply, RefusedCallBy
  <2> QED
    BY <2>1, <2>2 DEF MayBeApplied
<1>4. CASE BlockStep
  BY <1>4, HookTakesRent DEF BlockStep
<1>5. CASE SetKey \/ UNCHANGED dispatchVars
  BY <1>1, <1>5 DEF SetKey, dispatchVars, vars, storage
<1> QED
  BY <1>2, <1>3, <1>4, <1>5 DEF DispatchNext

\* An account's funds shrink only by the fee of an extrinsic it has signed, in a call
\* of its own that it or the sudo key has signed, or in the hook, for its own
\* recurring rental that is due in this block, with any fees, prices and widths:
\* no call that another account signs for itself can make it pay.
THEOREM OnlySignersAndLesseesPay == DispatchSpec => NobodyPaysForOthers
<1>1. RentalInv /\ MayBeApplied /\ [DispatchNext]_dispatchVars =>
          [\A a \in AccountId :
             free_balance'[a] < free_balance[a] =>
                \/ extrinsic = None /\ extrinsic' # None /\ extrinsic'.signer = a
                \/ /\ extrinsic # None
                   /\ extrinsic.caller = a
                   /\ extrinsic.signer \in {a, sudo_key}
                \/ \E id \in CollectibleId :
                       /\ phase = "on_initialize"
                       /\ Rented(id) /\ Collectibles[id].lessee = a
                       /\ Lease(id).recurring
                       /\ Lease(id).next_rent_block = block_number ]_dispatchVars
  BY StepIsPaidFor DEF RenewalDue
<1>2. DispatchInit => MayBeApplied
  BY DEF DispatchInit, MayBeApplied
<1> QED
  BY <1>1, <1>2, StaysApplicable, DispatchImplementsRent, RentalInvariant, PTL
     DEF DispatchSpec, NobodyPaysForOthers

--------------------------------------------------------------------------------
\* What the tables of checks return

\* The errors of the pallet and of the transfer, and the panic of an unwrap.
Failure ==
    { "NoCollectible", "DuplicateCollectible", "TooManyCollectiblesOwned", "NotLessor",
      "NotAllowedWhileRented", "MinimumMustBeLessThanMaximum", "TooManyCollectibles",
      "RentalPeriodTooShort", "RentalPeriodTooLong", "CannotRentOwnCollectible",
      "RentNotAvailable", "AlreadyRented", "NoLessee", "NotLessee", "NotEnoughBalance",
      "KeepAlive", "NoAccountFoundForCollectible", "TooManyCollectiblesEquiped", "panic" }

\* A check: what has to hold, and the error if it does not.
Check == BOOLEAN \X Failure

CheckTable == Seq(Check)

\* The first of the checks that fail decides; "Ok" says that none does.
LEMMA FirstFailing ==
  ASSUME NEW s \in CheckTable
  PROVE  \/ First(s) = "Ok" /\ \A i \in DOMAIN s : s[i][1]
         \/ \E i \in DOMAIN s : /\ ~s[i][1]
                                /\ \A j \in DOMAIN s : j < i => s[j][1]
                                /\ First(s) = s[i][2]
                                /\ First(s) # "Ok"
<1> DEFINE failing == {i \in DOMAIN s : ~s[i][1]}
<1>1. CASE failing = {}
  BY <1>1 DEF First
<1>2. CASE failing # {}
  <2>1. failing \in SUBSET Nat
    BY DEF CheckTable
  <2>2. PICK m \in failing : m = Min(failing)
    <3>1. PICK m \in failing : \A k \in failing : m <= k
      BY <1>2, <2>1, LeastElement
    <3> QED
      BY <3>1 DEF Min
  <2>3. \A k \in failing : m <= k
    <3>1. \E k \in failing : \A j \in failing : k <= j
      BY <1>2, <2>1, LeastElement
    <3> QED
      BY <2>2, <3>1 DEF Min
  <2>4. First(s) = s[m][2]
    BY <1>2, <2>2 DEF First
  <2>5. ASSUME NEW j \in DOMAIN s, j < m PROVE s[j][1]
    <3>1. m \in Nat /\ j \in Nat
      BY DEF CheckTable
    <3>2. ~(m <= j)
      BY <2>5, <3>1
    <3>3. j \notin failing
      BY <2>3, <3>2
    <3> QED
      BY <3>3
  <2>6. s[m][2] # "Ok"
    <3>1. s[m][2] \in Failure
      BY <2>2 DEF CheckTable, Check
    <3> QED
      BY <3>1 DEF Failure
  <2> QED
    BY <2>2, <2>4, <2>5, <2>6
<1> QED
  BY <1>1, <1>2

\* A call that goes through several tables returns what the first one returns that
\* does not return "Ok".
LEMMA FirstOfBoth ==
  ASSUME NEW s \in CheckTable, NEW t \in CheckTable
  PROVE  /\ s \o t \in CheckTable
         /\ First(s \o t) = IF First(s) = "Ok" THEN First(t) ELSE First(s)
<1> DEFINE u == s \o t
<1>1. /\ u \in CheckTable
      /\ Len(s) \in Nat /\ Len(t) \in Nat
      /\ DOMAIN s = 1 .. Len(s) /\ DOMAIN t = 1 .. Len(t)
      /\ DOMAIN u = 1 .. Len(s) + Len(t)
      /\ \A i \in DOMAIN s : u[i] = s[i]
      /\ \A i \in DOMAIN t : u[Len(s) + i] = t[i]
  BY DEF CheckTable
<1> HIDE DEF u
<1>2. CASE First(s) = "Ok"
  <2>1. \A i \in DOMAIN s : s[i][1]
    BY <1>2, FirstFailing
  <2>2. CASE First(t) = "Ok"
    <3>1. \A i \in DOMAIN t : t[i][1]
      BY <2>2, FirstFailing
    <3>2. ASSUME NEW i \in DOMAIN u PROVE u[i][1]
      <4>1. i \in DOMAIN s \/ (i - Len(s) \in DOMAIN t /\ i = Len(s) + (i - Len(s)))
        BY <1>1
      <4> QED
        BY <1>1, <2>1, <3>1, <4>1
    <3>3. First(u) = "Ok"
      BY <1>1, <3>2, FirstFailing
    <3> QED
      BY <1>1, <1>2, <2>2, <3>3 DEF u
  <2>3. CASE First(t) # "Ok"
    <3>1. PICK m \in DOMAIN t : /\ ~t[m][1]
                                /\ \A j \in DOMAIN t : j < m => t[j][1]
                                /\ First(t) = t[m][2]
      BY <2>3, FirstFailing
    <3>2. PICK n : n = Len(s) + m
      OBVIOUS
    <3>3. n \in DOMAIN u /\ n \in Nat /\ ~u[n][1] /\ u[n][2] = First(t)
      BY <1>1, <3>1, <3>2
    <3>4. ASSUME NEW i \in DOMAIN u, i < n PROVE u[i][1]
      <4>1. \/ i \in DOMAIN s
            \/ i - Len(s) \in DOMAIN t /\ i = Len(s) + (i - Len(s)) /\ i - Len(s) < m
        BY <1>1, <3>2, <3>4
      <4> QED
        BY <1>1, <2>1, <3>1, <4>1
    <3>5. PICK i \in DOMAIN u : /\ ~u[i][1]
                                /\ \A j \in DOMAIN u : j < i => u[j][1]
                                /\ First(u) = u[i][2]
      BY <1>1, <3>3, FirstFailing
    <3>6. i = n
      BY <1>1, <3>3, <3>4, <3>5
    <3> QED
      BY <1>1, <1>2, <3>3, <3>5, <3>6 DEF u
  <2> QED
    BY <2>2, <2>3
<1>3. CASE First(s) # "Ok"
  <2>1. PICK m \in DOMAIN s : /\ ~s[m][1]
                              /\ \A j \in DOMAIN s : j < m => s[j][1]
                              /\ First(s) = s[m][2]
    BY <1>3, FirstFailing
  <2>2. m \in DOMAIN u /\ ~u[m][1] /\ u[m][2] = First(s)
    BY <1>1, <2>1
  <2>3. PICK i \in DOMAIN u : /\ ~u[i][1]
                              /\ \A j \in DOMAIN u : j < i => u[j][1]
                              /\ First(u) = u[i][2]
    BY <1>1, <2>2, FirstFailing
  <2>4. i = m
    <3>1. ~(m < i)
      BY <2>2, <2>3
    <3>2. ASSUME i < m PROVE FALSE
      <4>1. i \in DOMAIN s
        BY <1>1, <2>1, <2>3, <3>2
      <4> QED
        BY <1>1, <2>1, <2>3, <3>2, <4>1
    <3> QED
      BY <1>1, <2>1, <2>3, <3>1, <3>2
  <2> QED
    BY <1>1, <1>3, <2>2, <2>3, <2>4 DEF u
<1> QED
  BY <1>2, <1>3

\* Tables of one, two and five checks.
LEMMA OneCheck ==
  ASSUME NEW a \in Check
  PROVE  /\ << a >> \in CheckTable
         /\ First(<< a >>) = IF ~a[1] THEN a[2] ELSE "Ok"
<1> DEFINE s == << a >>
<1>1. s \in CheckTable /\ DOMAIN s = {1} /\ s[1] = a
  BY DEF CheckTable, Check
<1> HIDE DEF s
<1>2. First(s) = IF ~a[1] THEN a[2] ELSE "Ok"
  BY <1>1, FirstFailing
<1> QED
  BY <1>1, <1>2 DEF s

LEMMA TwoChecks ==
  ASSUME NEW a \in Check, NEW b \in Check
  PROVE  /\ << a, b >> \in CheckTable
         /\ First(<< a, b >>) = IF ~a[1] THEN a[2] ELSE IF ~b[1] THEN b[2] ELSE "Ok"
<1> DEFINE s == << a, b >>
<1>1. s \in CheckTable /\ DOMAIN s = {1, 2} /\ s[1] = a /\ s[2] = b
  BY DEF CheckTable, Check
<1> HIDE DEF s
<1>2. First(s) = IF ~a[1] THEN a[2] ELSE IF ~b[1] THEN b[2] ELSE "Ok"
  BY <1>1, FirstFailing
<1> QED
  BY <1>1, <1>2 DEF s

LEMMA FiveChecks ==
  ASSUME NEW a \in Check, NEW b \in Check, NEW c \in Check, NEW d \in Check,
         NEW e \in Check
  PROVE  /\ << a, b, c, d, e >> \in CheckTable
         /\ First(<< a, b, c, d, e >>) =
                IF ~a[1] THEN a[2] ELSE IF ~b[1] THEN b[2] ELSE IF ~c[1] THEN c[2]
                ELSE IF ~d[1] THEN d[2] ELSE IF ~e[1] THEN e[2] ELSE "Ok"
<1> DEFINE s == << a, b, c, d, e >>
<1>1. /\ s \in CheckTable /\ DOMAIN s = {1, 2, 3, 4, 5}
      /\ s[1] = a /\ s[2] = b /\ s[3] = c /\ s[4] = d /\ s[5] = e
  BY DEF CheckTable, Check
<1> HIDE DEF s
<1>2. First(s) =
          IF ~a[1] THEN a[2] ELSE IF ~b[1] THEN b[2] ELSE IF ~c[1] THEN c[2]
          ELSE IF ~d[1] THEN d[2] ELSE IF ~e[1] THEN e[2] ELSE "Ok"
  BY <1>1, FirstFailing
<1> QED
  BY <1>1, <1>2 DEF s

\* The tables that rent and extend_rent share with other calls.
LEMMA LesseeTable ==
  ASSUME NEW sender, NEW id
  PROVE  /\ LesseeChecks(sender, id) \in CheckTable
         /\ First(LesseeChecks(sender, id)) =
                IF Collectibles[id].lessee = None THEN "NoLessee"
                ELSE IF IsLessee(sender, id) THEN "Ok" ELSE "NotLessee"
<1>1. PICK a \in Check : a = <<Collectibles[id].lessee # None, "NoLessee">>
  <2>1. <<Collectibles[id].lessee # None, "NoLessee">> \in Check
    BY DEF Check, Failure
  <2> QED
    BY <2>1
<1>2. PICK b \in Check : b = <<IsLessee(sender, id), "NotLessee">>
  <2>1. <<IsLessee(sender, id), "NotLessee">> \in Check
    BY DEF Check, Failure, IsLessee
  <2> QED
    BY <2>1
<1>3. LesseeChecks(sender, id) = << a, b >>
  BY <1>1, <1>2 DEF LesseeChecks
<1>4. /\ (a[1] <=> Collectibles[id].lessee # None) /\ a[2] = "NoLessee"
      /\ (b[1] <=> IsLessee(sender, id)) /\ b[2] = "NotLessee"
  BY <1>1, <1>2
<1> QED
  BY <1>3, <1>4, TwoChecks

LEMMA UnwrapTable ==
  ASSUME NEW option
  PROVE  /\ Unwrap(option) \in CheckTable
         /\ First(Unwrap(option)) = IF option # None THEN "Ok" ELSE "panic"
<1>1. PICK a \in Check : a = <<option # None, "panic">>
  <2>1. <<option # None, "panic">> \in Check
    BY DEF Check, Failure
  <2> QED
    BY <2>1
<1>2. Unwrap(option) = << a >>
  BY <1>1 DEF Unwrap
<1>3. (a[1] <=> option # None) /\ a[2] = "panic"
  BY <1>1
<1> QED
  BY <1>2, <1>3, OneCheck

\* The balance that the pallet checks is one of the things a transfer needs.
LEMMA TransferTable ==
  ASSUME NEW from, NEW to, NEW amount \in Int, free_balance[from] \in Int
  PROVE  /\ TransferChecks(from, to, amount) \in CheckTable
         /\ First(TransferChecks(from, to, amount)) = "Ok" <=> CanTransfer(from, to, amount)
         /\ First(TransferChecks(from, to, amount)) # "panic"
<1>1. PICK a \in Check : a = <<free_balance[from] >= amount, "NotEnoughBalance">>
  <2>1. <<free_balance[from] >= amount, "NotEnoughBalance">> \in Check
    <3>1. (free_balance[from] >= amount) \in BOOLEAN
      BY SMT
    <3> QED
      BY <3>1 DEF Check, Failure
  <2> QED
    BY <2>1
<1>2. PICK b \in Check : b = <<CanTransfer(from, to, amount), "KeepAlive">>
  <2>1. <<CanTransfer(from, to, amount), "KeepAlive">> \in Check
    BY DEF Check, Failure, CanTransfer
  <2> QED
    BY <2>1
<1>3. TransferChecks(from, to, amount) = << a, b >>
  BY <1>1, <1>2 DEF TransferChecks
<1>4. /\ (a[1] <=> free_balance[from] >= amount) /\ a[2] = "NotEnoughBalance"
      /\ (b[1] <=> CanTransfer(from, to, amount)) /\ b[2] = "KeepAlive"
  BY <1>1, <1>2
<1>5. CanTransfer(from, to, amount) => free_balance[from] >= amount
  BY DEF CanTransfer
<1> QED
  BY <1>3, <1>4, <1>5, TwoChecks

\* rent panics only on the price that it unwraps.
LEMMA RentReturns ==
  ASSUME TypeOK, InCall, NEW sender \in AccountId, NEW id \in CollectibleId,
         NEW blocks \in U32
  PROVE  /\ RentResult(sender, id, blocks) = "Ok" <=> MayRent(sender, id, blocks)
         /\ RentResult(sender, id, blocks) = "panic" =>
                Exists(id) /\ Collectibles[id].price_per_block = None
<1>1. CASE ~Exists(id)
  BY <1>1 DEF RentResult, Fetched, MayRent
<1>2. CASE Exists(id)
  <2> DEFINE c == Collectibles[id]
             long   == c.minimum_rental_period # None => blocks >= c.minimum_rental_period
             short  == c.maximum_rental_period # None => blocks <= c.maximum_rental_period
             other  == c.lessor # sender
             vacant == c.lessee = None
             new    == c.lessee # sender
             amount == IF c.price_per_block = None THEN 0 ELSE RentPrice(id, blocks)
             price  == Unwrap(c.price_per_block)
             funds  == TransferChecks(sender, c.lessor, amount)
  <2>1. PICK l \in Check : l = <<long, "RentalPeriodTooShort">>
    <3>1. <<long, "RentalPeriodTooShort">> \in Check
      BY DEF Check, Failure
    <3> QED
      BY <3>1
  <2>2. PICK s \in Check : s = <<short, "RentalPeriodTooLong">>
    <3>1. <<short, "RentalPeriodTooLong">> \in Check
      BY DEF Check, Failure
    <3> QED
      BY <3>1
  <2>3. PICK o \in Check : o = <<other, "CannotRentOwnCollectible">>
    <3>1. <<other, "CannotRentOwnCollectible">> \in Check
      BY DEF Check, Failure
    <3> QED
      BY <3>1
  <2>4. PICK v \in Check : v = <<vacant, "RentNotAvailable">>
    <3>1. <<vacant, "RentNotAvailable">> \in Check
      BY DEF Check, Failure
    <3> QED
      BY <3>1
  <2>5. PICK n \in Check : n = <<new, "AlreadyRented">>
    <3>1. <<new, "AlreadyRented">> \in Check
      BY DEF Check, Failure
    <3> QED
      BY <3>1
  <2> DEFINE terms == << l, s, o, v, n >>
  <2>6. /\ (l[1] <=> long) /\ l[2] = "RentalPeriodTooShort"
        /\ (s[1] <=> short) /\ s[2] = "RentalPeriodTooLong"
        /\ (o[1] <=> other) /\ o[2] = "CannotRentOwnCollectible"
        /\ (v[1] <=> vacant) /\ v[2] = "RentNotAvailable"
        /\ (n[1] <=> new) /\ n[2] = "AlreadyRented"
    BY <2>1, <2>2, <2>3, <2>4, <2>5
  <2>7. vacant => new
    BY NoneAssumption
  <2>8. /\ price \in CheckTable
        /\ First(price) = IF c.price_per_block # None THEN "Ok" ELSE "panic"
    BY UnwrapTable
  <2>9. /\ funds \in CheckTable
        /\ First(funds) = "Ok" <=> CanTransfer(sender, c.lessor, amount)
        /\ First(funds) # "panic"
    <3>1. amount \in Int
      BY <1>2, RentPriceType
    <3>2. free_balance[sender] \in Int
      BY DEF TypeOK
    <3> HIDE DEF amount
    <3> QED
      BY <3>1, <3>2, TransferTable
  <2>10. RentResult(sender, id, blocks) = First(terms \o price \o funds)
    BY <1>2, <2>1, <2>2, <2>3, <2>4, <2>5 DEF RentResult, Fetched
  <2>11. MayRent(sender, id, blocks) <=>
             /\ long /\ short /\ other /\ vacant
             /\ c.price_per_block # None
             /\ CanTransfer(sender, c.lessor, amount)
    BY <1>2 DEF MayRent, NotAParty
  <2> HIDE DEF long, short, other, vacant, new, amount, price, funds
  <2>12. /\ terms \in CheckTable
         /\ First(terms) =
                IF ~long THEN "RentalPeriodTooShort"
                ELSE IF ~short THEN "RentalPeriodTooLong"
                ELSE IF ~other THEN "CannotRentOwnCollectible"
                ELSE IF ~vacant THEN "RentNotAvailable"
                ELSE IF ~new THEN "AlreadyRented" ELSE "Ok"
    BY <2>6, FiveChecks
  <2> HIDE DEF terms
  <2>13. /\ terms \o price \in CheckTable
         /\ First(terms \o price) =
                IF First(terms) = "Ok" THEN First(price) ELSE First(terms)
    BY <2>8, <2>12, FirstOfBoth
  <2>14. First(terms \o price \o funds) =
             IF First(terms \o price) = "Ok" THEN First(funds) ELSE First(terms \o price)
    BY <2>9, <2>13, FirstOfBoth
  <2>15. First(terms) = "Ok" <=> long /\ short /\ other /\ vacant
    BY <2>7, <2>12
  <2>16. First(terms) # "panic"
    BY <2>12
  <2> QED
    BY <1>2, <2>8, <2>9, <2>10, <2>11, <2>13, <2>14, <2>15, <2>16
<1> QED
  BY <1>1, <1>2

\* extend_rent unwraps the maximum and the price, and converts the price to u32.
LEMMA ExtendRentReturns ==
  ASSUME TypeOK, InCall, NEW sender \in AccountId, NEW id \in CollectibleId,
         NEW blocks \in U32
  PROVE  LET c == Collectibles[id] IN
         /\ ExtendRentResult(sender, id, blocks) = "Ok" <=> MayExtend(sender, id, blocks)
         /\ ExtendRentResult(sender, id, blocks) = "panic" =>
                /\ Exists(id)
                /\ c.lessee # None
                /\ \/ c.maximum_rental_period = None
                   \/ c.price_per_block = None
                   \/ ~(c.price_per_block < U32Size)
<1>1. CASE ~Exists(id)
  BY <1>1 DEF ExtendRentResult, Fetched, MayExtend
<1>2. CASE Exists(id)
  <2> DEFINE c == Collectibles[id]
             rented   == LesseeCollectibles[sender][id] # None
             bounded  == c.maximum_rental_period # None
             priced   == c.price_per_block # None
             complete == rented /\ bounded /\ priced
             within   == complete => WithinMaximum(sender, id, blocks)
             narrow   == complete => c.price_per_block < U32Size
             amount   == IF complete THEN ExtensionPrice(id, blocks) ELSE 0
             lessee   == LesseeChecks(sender, id)
             maximum  == Unwrap(c.maximum_rental_period)
             price    == Unwrap(c.price_per_block)
             funds    == TransferChecks(sender, c.lessor, amount)
  <2>1. PICK r \in Check : r = <<rented, "NoCollectible">>
    <3>1. <<rented, "NoCollectible">> \in Check
      BY DEF Check, Failure
    <3> QED
      BY <3>1
  <2>2. PICK w \in Check : w = <<within, "RentalPeriodTooLong">>
    <3>1. <<within, "RentalPeriodTooLong">> \in Check
      BY DEF Check, Failure
    <3> QED
      BY <3>1
  <2>3. PICK n \in Check : n = <<narrow, "panic">>
    <3>1. <<narrow, "panic">> \in Check
      BY DEF Check, Failure
    <3> QED
      BY <3>1
  <2> DEFINE rental == << r >>
             limit  == << w >>
             fits   == << n >>
  <2>4. /\ (r[1] <=> rented) /\ r[2] = "NoCollectible"
        /\ (w[1] <=> within) /\ w[2] = "RentalPeriodTooLong"
        /\ (n[1] <=> narrow) /\ n[2] = "panic"
    BY <2>1, <2>2, <2>3
  <2>5. /\ lessee \in CheckTable
        /\ First(lessee) =
               IF c.lessee = None THEN "NoLessee"
               ELSE IF IsLessee(sender, id) THEN "Ok" ELSE "NotLessee"
    BY LesseeTable
  <2>6. /\ maximum \in CheckTable
        /\ First(maximum) = IF bounded THEN "Ok" ELSE "panic"
    BY UnwrapTable
  <2>7. /\ price \in CheckTable
        /\ First(price) = IF priced THEN "Ok" ELSE "panic"
    BY UnwrapTable
  <2>8. /\ funds \in CheckTable
        /\ First(funds) = "Ok" <=> CanTransfer(sender, c.lessor, amount)
        /\ First(funds) # "panic"
    <3>1. amount \in Int
      BY <1>2, ExtensionPriceType
    <3>2. free_balance[sender] \in Int
      BY DEF TypeOK
    <3> HIDE DEF amount
    <3> QED
      BY <3>1, <3>2, TransferTable
  <2>9. ExtendRentResult(sender, id, blocks) =
            First(lessee \o rental \o maximum \o limit \o price \o fits \o funds)
    BY <1>2, <2>1, <2>2, <2>3 DEF ExtendRentResult, Fetched
  <2>10. MayExtend(sender, id, blocks) <=>
             /\ IsLessee(sender, id) /\ rented /\ bounded /\ priced /\ within /\ narrow
             /\ CanTransfer(sender, c.lessor, amount)
    BY <1>2 DEF MayExtend
  <2>11. (IsLessee(sender, id) => c.lessee # None)
    BY NoneAssumption DEF IsLessee
  <2>12. narrow \/ ~(c.price_per_block < U32Size)
    OBVIOUS
  <2> HIDE DEF rented, bounded, priced, complete, within, narrow, amount, lessee,
               maximum, price, funds
  <2>13. /\ rental \in CheckTable
         /\ First(rental) = IF rented THEN "Ok" ELSE "NoCollectible"
    BY <2>4, OneCheck
  <2>14. /\ limit \in CheckTable
         /\ First(limit) = IF within THEN "Ok" ELSE "RentalPeriodTooLong"
    BY <2>4, OneCheck
  <2>15. /\ fits \in CheckTable
         /\ First(fits) = IF narrow THEN "Ok" ELSE "panic"
    BY <2>4, OneCheck
  <2> HIDE DEF rental, limit, fits
  <2> DEFINE t1 == lessee \o rental
             t2 == t1 \o maximum
             t3 == t2 \o limit
             t4 == t3 \o price
             t5 == t4 \o fits
  <2>16. /\ t1 \in CheckTable
         /\ First(t1) = IF First(lessee) = "Ok" THEN First(rental) ELSE First(lessee)
    BY <2>5, <2>13, FirstOfBoth
  <2>17. ExtendRentResult(sender, id, blocks) = First(t5 \o funds)
    BY <2>9
  <2> HIDE DEF t1
  <2>18. /\ t2 \in CheckTable
         /\ First(t2) = IF First(t1) = "Ok" THEN First(maximum) ELSE First(t1)
    BY <2>6, <2>16, FirstOfBoth
  <2> HIDE DEF t2
  <2>19. /\ t3 \in CheckTable
         /\ First(t3) = IF First(t2) = "Ok" THEN First(limit) ELSE First(t2)
    BY <2>14, <2>18, FirstOfBoth
  <2> HIDE DEF t3
  <2>20. /\ t4 \in CheckTable
         /\ First(t4) = IF First(t3) = "Ok" THEN First(price) ELSE First(t3)
    BY <2>7, <2>19, FirstOfBoth
  <2> HIDE DEF t4
  <2>21. /\ t5 \in CheckTable
         /\ First(t5) = IF First(t4) = "Ok" THEN First(fits) ELSE First(t4)
    BY <2>15, <2>20, FirstOfBoth
  <2> HIDE DEF t5
  <2>22. First(t5 \o funds) = IF First(t5) = "Ok" THEN First(funds) ELSE First(t5)
    BY <2>8, <2>21, FirstOfBoth
  <2>23. First(t5 \o funds) = "Ok" <=> MayExtend(sender, id, blocks)
    BY <2>5, <2>6, <2>7, <2>8, <2>10, <2>11, <2>13, <2>14, <2>15, <2>16, <2>18,
       <2>19, <2>20, <2>21, <2>22
  <2>24. First(t5 \o funds) = "panic" =>
             c.lessee # None /\ (~bounded \/ ~priced \/ ~narrow)
    BY <2>5, <2>6, <2>7, <2>8, <2>11, <2>13, <2>14, <2>15, <2>16, <2>18, <2>19,
       <2>20, <2>21, <2>22
  <2> QED
    BY <1>2, <2>12, <2>17, <2>23, <2>24 DEF bounded, priced
<1> QED
  BY <1>1, <1>2

--------------------------------------------------------------------------------
\* What is listed has terms, and which calls panic

\* A collectible in the list of what can be rented is offered.  It has a price and a
\* maximum, or neither: then it was never offered, and is not rented.  The list may
\* name a collectible that is burnt, but mint does not use its identifier again.
TermsAreComplete(i) ==
    /\ i \in Range(RentableCollectibles) => i \in generated
    /\ Exists(i) =>
           /\ i \in generated
           /\ i \in Range(RentableCollectibles) => Collectibles[i].rentable
           /\ Collectibles[i].price_per_block = None <=>
                  Collectibles[i].maximum_rental_period = None
           /\ Collectibles[i].price_per_block = None =>
                  /\ Collectibles[i].lessee = None
                  /\ Collectibles[i].rentable = FALSE

LEMMA MintCompletes ==
  ASSUME TypeOK, NEW i \in CollectibleId, TermsAreComplete(i),
         NEW sender \in AccountId, NEW id \in CollectibleId, Mint(sender, id)
  PROVE  TermsAreComplete(i)'
<1>1. /\ RentableCollectibles' = RentableCollectibles
      /\ generated' = generated \cup {id}
      /\ id \notin generated
  BY DEF Mint
<1>2. CollectiblesKept(id)
  BY MintEffect
<1>3. CASE i = id
  <2>1. Collectibles'[id] = NewCollectible(sender)
    BY DEF Mint, TypeOK
  <2>2. /\ Collectibles'[id].price_per_block = None
        /\ Collectibles'[id].maximum_rental_period = None
        /\ Collectibles'[id].lessee = None
        /\ Collectibles'[id].rentable = FALSE
    BY <2>1 DEF NewCollectible
  <2>3. id \notin Range(RentableCollectibles)
    BY <1>1, <1>3 DEF TermsAreComplete
  <2> QED
    BY <1>1, <1>3, <2>2, <2>3 DEF TermsAreComplete
<1>4. CASE i # id
  BY <1>1, <1>2, <1>4 DEF TermsAreComplete, CollectiblesKept, Exists
<1> QED
  BY <1>3, <1>4

LEMMA SetRentableCompletes ==
  ASSUME TypeOK, NEW i \in CollectibleId, TermsAreComplete(i),
         NEW sender \in AccountId, NEW id \in CollectibleId,
         NEW price \in Prices, NEW minimum \in Periods, NEW maximum \in Periods,
         SetRentable(sender, id, price, minimum, maximum)
  PROVE  TermsAreComplete(i)'
<1>1. generated' = generated /\ Exists(id)
  BY DEF SetRentable, OwnedAndVacant
<1>2. Range(RentableCollectibles') = Range(RentableCollectibles) \cup {id}
  <2>1. RentableCollectibles' = Append(RentableCollectibles, id)
    BY DEF SetRentable
  <2> QED
    BY <2>1, OwnedTypes, AppendRange
<1>3. CASE i = id
  <2>1. PICK c \in Collectible : c = Collectibles[id]
    BY <1>1 DEF TypeOK, Exists
  <2> DEFINE d == [c EXCEPT !.price_per_block = price,
                            !.rentable = TRUE,
                            !.minimum_rental_period = minimum,
                            !.maximum_rental_period = maximum]
  <2>2. Collectibles'[id] = d
    BY <2>1 DEF SetRentable, Offered, TypeOK
  <2>3. /\ d.price_per_block = price
        /\ d.maximum_rental_period = maximum
        /\ d.rentable = TRUE
    BY <2>1 DEF Collectible
  <2>4. price # None /\ maximum # None
    BY NoneAssumption, InputsAssumption, SizesAssumption DEF Balance, U32
  <2> HIDE DEF d
  <2> QED
    BY <1>1, <1>2, <1>3, <2>2, <2>3, <2>4 DEF TermsAreComplete
<1>4. CASE i # id
  <2>1. CollectiblesKept(id)
    BY SetRentableEffect
  <2> QED
    BY <1>1, <1>2, <1>4, <2>1 DEF TermsAreComplete, CollectiblesKept, Exists
<1> QED
  BY <1>3, <1>4

LEMMA NewLesseeCompletes ==
  ASSUME TypeOK, NEW i \in CollectibleId, TermsAreComplete(i),
         UNCHANGED << RentableCollectibles, generated >>,
         NEW id \in CollectibleId, NEW lessee \in AccountId \cup {None},
         NewLessee(id, lessee),
         lessee = None \/ Collectibles[id].price_per_block # None
  PROVE  TermsAreComplete(i)'
<1>1. CASE i = id
  <2>1. PICK c \in Collectible : c = Collectibles[id]
    BY DEF NewLessee, TypeOK, Exists
  <2> DEFINE d == [c EXCEPT !.lessee = lessee]
  <2>2. /\ d.price_per_block = c.price_per_block
        /\ d.maximum_rental_period = c.maximum_rental_period
        /\ d.rentable = c.rentable
        /\ d.lessee = lessee
    BY <2>1 DEF Collectible
  <2>3. Collectibles'[id] = d /\ Exists(id)
    BY <2>1 DEF NewLessee
  <2> HIDE DEF d
  <2> QED
    BY <1>1, <2>1, <2>2, <2>3 DEF TermsAreComplete
<1>2. CASE i # id
  BY <1>2 DEF TermsAreComplete, NewLessee, CollectiblesKept, Exists
<1> QED
  BY <1>1, <1>2

LEMMA NextCompletes ==
  ASSUME RentalInv, [Next]_vars, NEW i \in CollectibleId, TermsAreComplete(i)
  PROVE  TermsAreComplete(i)'
<1>1. TypeOK
  BY DEF RentalInv
<1>2. ASSUME UNCHANGED << Collectibles, RentableCollectibles, generated >>
      PROVE  TermsAreComplete(i)'
  BY <1>2 DEF TermsAreComplete, Exists
<1>3. CASE Call
  <2> SUFFICES ASSUME NEW sender \in AccountId, CallBy(sender)
               PROVE  TermsAreComplete(i)'
    BY <1>3 DEF Call
  <2>1. ASSUME NEW id \in CollectibleId, Mint(sender, id)
        PROVE  TermsAreComplete(i)'
    BY <1>1, <2>1, MintCompletes
  <2>2. ASSUME NEW id \in CollectibleId, Burn(sender, id)
        PROVE  TermsAreComplete(i)'
    <3>1. UNCHANGED << RentableCollectibles, generated >>
      BY <2>2 DEF Burn
    <3>2. ~Exists(id)' /\ CollectiblesKept(id)
      BY <1>1, <2>2, BurnEffect
    <3> QED
      BY <3>1, <3>2 DEF TermsAreComplete, CollectiblesKept, Exists
  <2>3. ASSUME NEW id \in CollectibleId, NEW price \in Prices,
               NEW minimum \in Periods, NEW maximum \in Periods,
               SetRentable(sender, id, price, minimum, maximum)
        PROVE  TermsAreComplete(i)'
    BY <1>1, <2>3, SetRentableCompletes
  <2>4. ASSUME NEW id \in CollectibleId, NEW blocks \in Blocks,
               NEW recurring \in BOOLEAN, Rent(sender, id, blocks, recurring)
        PROVE  TermsAreComplete(i)'
    <3>1. UNCHANGED << RentableCollectibles, generated >>
          /\ Collectibles[id].price_per_block # None
      BY <2>4 DEF Rent, MayRent
    <3>2. NewLessee(id, sender)
      BY <1>1, <2>4, RentLessee
    <3> QED
      BY <1>1, <3>1, <3>2, NewLesseeCompletes
  <2>5. ASSUME NEW id \in CollectibleId, SetUnrentable(sender, id)
        PROVE  TermsAreComplete(i)'
    <3>1. generated' = generated
      BY <2>5 DEF SetUnrentable
    <3>2. Range(RentableCollectibles') = Range(RentableCollectibles) \ {id}
      <4>1. RentableCollectibles' = Retain(RentableCollectibles, {id})
        BY <2>5 DEF SetUnrentable
      <4> QED
        BY <1>1, <4>1, OwnedTypes, RetainProperties
    <3>3. CollectiblesKept(id)
      BY <1>1, <2>5, SetUnrentableEffect
    <3>4. CASE i = id
      <4>1. PICK c \in Collectible : c = Collectibles[id] /\ Exists(id)
        BY <1>1, <2>5 DEF SetUnrentable, TypeOK, Exists
      <4> DEFINE d == [c EXCEPT !.rentable = FALSE]
      <4>2. /\ d.price_per_block = c.price_per_block
            /\ d.maximum_rental_period = c.maximum_rental_period
            /\ d.rentable = FALSE
            /\ d.lessee = c.lessee
        BY <4>1 DEF Collectible
      <4>3. Collectibles'[id] = d
        BY <1>1, <2>5, <4>1, SetUnrentableEffect
      <4> HIDE DEF d
      <4> QED
        BY <3>1, <3>2, <3>4, <4>1, <4>2, <4>3 DEF TermsAreComplete
    <3>5. CASE i # id
      BY <3>1, <3>2, <3>3, <3>5 DEF TermsAreComplete, CollectiblesKept, Exists
    <3> QED
      BY <3>4, <3>5
  <2> QED
    BY <1>2, <2>1, <2>2, <2>3, <2>4, <2>5
       DEF CallBy, RentSpins, SetRecurring, ExtendRent, ExtendRentSpins,
           EquipCollectible, UnequipCollectible, storage
<1>4. ASSUME NEW id \in CollectibleId, NEW lessee \in AccountId,
             Processing(id, lessee), RemoveLessee(id, lessee)
      PROVE  TermsAreComplete(i)'
  <2>1. UNCHANGED << RentableCollectibles, generated >>
    BY <1>4 DEF RemoveLessee
  <2>2. NewLessee(id, None)
    BY <1>4, RemovedLessee
  <2> QED
    BY <1>1, <2>1, <2>2, NewLesseeCompletes
<1>5. CASE ProcessRental
  BY <1>2, <1>4, <1>5
     DEF ProcessRental, EndRental, CancelUnpaidRental, RenewRental, RenewalSpins, storage
<1>6. CASE BeginBlock \/ FinishRentals \/ OtherPallets \/ UNCHANGED vars
  BY <1>2, <1>6
     DEF BeginBlock, FinishRentals, OtherPallets, BalancesTransfer, ChargeFee,
         storage, vars
<1> QED
  BY <1>3, <1>5, <1>6 DEF Next, OnInitialize

\* What is rented, rentable or in the list of what can be rented has been offered,
\* with a price and a maximum, and what is in the list still is.
THEOREM TermsAreThere == Spec => [](\A i \in CollectibleId : TermsAreComplete(i))
<1> DEFINE Complete == \A i \in CollectibleId : TermsAreComplete(i)
<1>1. Init => Complete
  <2> SUFFICES ASSUME Init, NEW i \in CollectibleId PROVE TermsAreComplete(i)
    OBVIOUS
  <2>1. Range(<<>>) = {}
    BY DEF Range
  <2>2. RentableCollectibles = <<>> /\ ~Exists(i)
    BY DEF Init, Exists
  <2> QED
    BY <2>1, <2>2 DEF TermsAreComplete
<1>2. RentalInv /\ Complete /\ [Next]_vars => Complete'
  BY NextCompletes
<1> HIDE DEF Complete
<1>3. Spec => []Complete
  BY <1>1, <1>2, RentalInvariant, PTL DEF Spec
<1> QED
  BY <1>3 DEF Complete

\* However often set_rentable has listed a collectible, set_unrentable takes it off
\* the list, for any capacity of the list and with collectibles burnt in between.
THEOREM ListHoldsOnlyOffers == Spec => []ListedIsOffered
<1>1. TypeOK /\ (\A i \in CollectibleId : TermsAreComplete(i)) => ListedIsOffered
  <2> SUFFICES ASSUME TypeOK, \A i \in CollectibleId : TermsAreComplete(i),
                      NEW id \in Range(RentableCollectibles), Exists(id)
               PROVE  Collectibles[id].rentable
    BY DEF ListedIsOffered
  <2>1. id \in CollectibleId
    BY OwnedTypes DEF Range
  <2> QED
    BY <2>1 DEF TermsAreComplete
<1> QED
  BY <1>1, TypeCorrect, TermsAreThere, PTL

\* The two panics that PanicsAreForeseen names are all there are, with any prices,
\* periods and widths: the maximum and the price that extend_rent unwraps
\* (lib.rs:530-541) are there for as long as anyone rents the collectible.
THEOREM PanicsForeseen == DispatchSpec => []PanicsAreForeseen
<1>1. TypeOK /\ (\A i \in CollectibleId : TermsAreComplete(i)) => PanicsAreForeseen
  <2> SUFFICES ASSUME TypeOK, \A i \in CollectibleId : TermsAreComplete(i), InCall,
                      NEW sender \in AccountId, NEW id \in CollectibleId,
                      NEW blocks \in Blocks
               PROVE  /\ RentResult(sender, id, blocks) = "panic" =>
                             /\ id \notin Range(RentableCollectibles)
                             /\ ~Collectibles[id].rentable
                      /\ ExtendRentResult(sender, id, blocks) = "panic" =>
                             /\ Collectibles[id].price_per_block # None
                             /\ Collectibles[id].price_per_block >= U32Size
    BY DEF PanicsAreForeseen
  <2>1. blocks \in U32 /\ TermsAreComplete(id)
    BY InputsAssumption
  <2>2. ASSUME RentResult(sender, id, blocks) = "panic"
        PROVE  id \notin Range(RentableCollectibles) /\ ~Collectibles[id].rentable
    <3>1. Exists(id) /\ Collectibles[id].price_per_block = None
      BY <2>1, <2>2, RentReturns
    <3> QED
      BY <2>1, <3>1 DEF TermsAreComplete
  <2>3. ASSUME ExtendRentResult(sender, id, blocks) = "panic"
        PROVE  /\ Collectibles[id].price_per_block # None
               /\ Collectibles[id].price_per_block >= U32Size
    <3>1. /\ Exists(id)
          /\ Collectibles[id].lessee # None
          /\ \/ Collectibles[id].maximum_rental_period = None
             \/ Collectibles[id].price_per_block = None
             \/ ~(Collectibles[id].price_per_block < U32Size)
      BY <2>1, <2>3, ExtendRentReturns
    <3>2. /\ Collectibles[id].price_per_block # None
          /\ ~(Collectibles[id].price_per_block < U32Size)
      BY <2>1, <3>1 DEF TermsAreComplete
    <3>3. Collectibles[id].price_per_block \in Balance
      BY <3>1, <3>2 DEF TypeOK, Exists, Collectible
    <3> QED
      BY <3>2, <3>3, SizesAssumption DEF Balance
  <2> QED
    BY <2>2, <2>3
<1> QED
  BY <1>1, DispatchImplementsRent, TypeCorrect, TermsAreThere, PTL

================================================================================
