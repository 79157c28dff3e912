----------------------------- MODULE RentProperties -----------------------------
(***************************************************************************)
(* What the rent pallet has to keep true.  The safety properties hold      *)
(* whatever the parameters are: with blocks that are full, periods of no   *)
(* block, and block numbers and prices that wrap.  Some of what the        *)
(* pallet's documents and comments say does not hold; it comes last, and   *)
(* the runs and README.md show how it fails.                               *)
(***************************************************************************)
EXTENDS PalletRent

\* A collectible's rental as its lessee has it, None when it is vacant.
Lease(id) ==
    IF Exists(id) /\ Collectibles[id].lessee # None
    THEN LesseeCollectibles[Collectibles[id].lessee][id]
    ELSE None

Rented(id) == Exists(id) /\ Collectibles[id].lessee # None

\* The rental is due in a block whose hook is still to come, or at work.
Ahead(id) ==
    /\ Rented(id)
    /\ \/ Lease(id).next_rent_block > block_number
       \/ phase = "on_initialize" /\ Lease(id).next_rent_block = block_number

\* The rentals that fall due in block b: while the hook is at work on b, what
\* is left of its loop.
Scheduled(b) ==
    IF phase = "on_initialize" /\ b = block_number THEN rentals
    ELSE PendingRentals[b]

--------------------------------------------------------------------------------
\* Invariants

\* Where the loop of do_process_rental_periods unwraps the rental of a pending
\* entry, its collectible and its price (lib.rs:601-617), all three are there.
\* If one were not, on_initialize would panic and no block could be built.
OnInitializeNeverTraps ==
    phase = "on_initialize" =>
        \A e \in Range(rentals) :
            /\ LesseeCollectibles[e[2]][e[1]] # None
            /\ Exists(e[1])
            /\ Collectibles[e[1]].price_per_block # None

\* A rental is kept twice, in Collectibles and in LesseeCollectibles, and the
\* two agree: an account has a rental of a collectible exactly when it is the
\* lessee of it, and the lessor never is.
RentalsHaveOneLessee ==
    /\ \A a \in AccountId, id \in CollectibleId :
           LesseeCollectibles[a][id] # None <=>
               Exists(id) /\ Collectibles[id].lessee = a
    /\ \A id \in CollectibleId :
           Exists(id) => Collectibles[id].lessee # Collectibles[id].lessor

\* The rental of id by lessee exists, has its price, and is due in block b.
Due(id, lessee, b) ==
    /\ Exists(id)
    /\ Collectibles[id].lessee = lessee
    /\ Collectibles[id].price_per_block # None
    /\ LesseeCollectibles[lessee][id] # None
    /\ LesseeCollectibles[lessee][id].next_rent_block = b

\* No collectible has two entries in s.
DistinctIds(s) == \A i, j \in DOMAIN s : i # j => s[i][1] # s[j][1]

\* An entry of the schedule is a rental that exists, of that lessee, due in
\* that very block: no call leaves a stale entry behind.
EntriesAreRentals ==
    \A b \in BlockNumber : \A e \in Range(Scheduled(b)) : Due(e[1], e[2], b)

\* A rental has one entry of the schedule, so that it is charged once a period.
EntriesAreDistinct == \A b \in BlockNumber : DistinctIds(Scheduled(b))

\* The schedule of PendingRentals and the rentals of LesseeCollectibles agree,
\* across rent, extend_rent, renewal and the end of a rental.
ScheduleAgreesWithRentals == EntriesAreRentals /\ EntriesAreDistinct

\* No rental is forgotten: one whose interval is not zero is in the schedule of
\* the block it is due in, even after the search has moved it, an extension
\* has rescheduled it, or the hook has removed the block's entry (lib.rs:662).
RentalsStayScheduled ==
    \A a \in AccountId, id \in CollectibleId :
        LET rental == LesseeCollectibles[a][id] IN
        rental # None /\ rental.rental_periodic_interval # 0 =>
            <<id, a>> \in Range(Scheduled(rental.next_rent_block))

\* LessorCollectibles is the index of Collectibles by lessor: it lists what an
\* account owns, once, and nothing that was burnt.
OwnersAreIndexed ==
    \A a \in AccountId :
        /\ Range(LessorCollectibles[a]) =
               {id \in CollectibleId : Exists(id) /\ IsLessor(a, id)}
        /\ \A i, j \in DOMAIN LessorCollectibles[a] :
               i # j => LessorCollectibles[a][i] # LessorCollectibles[a][j]

\* Only the two parties to a collectible can have it equipped: what an account
\* burns, or a lessee loses, it does not keep equipped.
EquippedByParties ==
    \A a \in AccountId : \A id \in Range(AccountEquips[a]) :
        Exists(id) /\ (IsLessor(a, id) \/ IsLessee(a, id))

\* While a collectible is offered for rent its lessor does not have it equipped,
\* and it is in the list of what can be rented.
OfferedIsFree ==
    \A id \in CollectibleId :
        Exists(id) /\ Collectibles[id].rentable =>
            /\ id \notin Range(AccountEquips[Collectibles[id].lessor])
            /\ id \in Range(RentableCollectibles)

\* The converse, for what has not been burnt: a collectible stays in the list only
\* while it is offered, so that set_unrentable takes out every entry that repeated
\* calls of set_rentable have appended (lib.rs:271, 327).
ListedIsOffered ==
    \A id \in Range(RentableCollectibles) : Exists(id) => Collectibles[id].rentable

--------------------------------------------------------------------------------
\* Action properties

\* A lessee keeps the collectible until its rental is due.  It loses it in no
\* call but in the hook of that block, and there only if it does not renew, the
\* lessor has withdrawn the collectible, or the rent cannot be paid.
LesseeKeepsUntilDue ==
    [][\A id \in CollectibleId :
         LET lessee == Collectibles[id].lessee IN
         Rented(id) =>
            \/ Exists(id)' /\ Collectibles'[id].lessee = lessee
            \/ /\ phase = "on_initialize"
               /\ Lease(id).next_rent_block = block_number
               /\ ~ /\ Collectibles[id].rentable
                    /\ Lease(id).recurring
                    /\ CanRenew(id, lessee) ]_vars

\* Nobody changes what a lessee has agreed to: while it rents, the lessor, the
\* price and the bounds on the period stay what they were.
TermsHoldWhileRented ==
    [][\A id \in CollectibleId :
         Rented(id) =>
            /\ Exists(id)'
            /\ \A term \in {"lessor", "price_per_block", "minimum_rental_period",
                            "maximum_rental_period"} :
                   Collectibles'[id][term] = Collectibles[id][term] ]_vars

\* The other collectibles whose rentals fall due in block b.
OthersDue(id, b) ==
    {i \in CollectibleId \ {id} : \E lessee \in AccountId : Due(i, lessee, b)}

\* As many others fall due in block b as it has room for, or more.
CrowdedForOthersOf(id, b) ==
    Injection(1 .. MaximumRentablesPerBlock, OthersDue(id, b)) # {}

\* A search for a block (lib.rs:702-708) never returns only if the block after the
\* current one is taken by as many rentals of other collectibles as it has room
\* for: neither a stale entry nor a double one makes a block full.
SpinsOnlyInACrowd ==
    [][~spinning /\ spinning' =>
         \E id \in CollectibleId : CrowdedForOthersOf(id, FollowingBlock)]_vars

\* A new rental falls due in the block it asks for, unless that one is taken by as
\* many rentals of other collectibles as it has room for.
MovedOnlyByACrowd ==
    [][\A id \in CollectibleId :
         Exists(id) /\ ~Rented(id) /\ Rented(id)' =>
             LET requested == RequestedBlock(block_number,
                                  Lease(id)'.rental_periodic_interval)
             IN  \/ Lease(id)'.next_rent_block = requested
                 \/ CrowdedForOthersOf(id, requested) ]_vars

\* Whoever pays for blocks gets them: when rent, extension or renewal sets the block
\* a rental is due in, the lessor gets the price of some number of blocks, for a
\* rental or a renewal that of its period, and the rental is due that many blocks
\* after the block it was due in (after the current one, for a new rental), or in
\* the following block because as many others as it has room for are due in the
\* block asked for.  A renewal may also find the current block full, of which its
\* own entry is not yet removed, if that is the one it asks for (lib.rs:684-718).
\* The price is a product of Balance, for an extension one of u32.
PaidBlocksAreGranted ==
    [][\A id \in CollectibleId :
         LET before == Lease(id)
             after == Lease(id)'
             extension == before # None /\ phase = "extrinsics"
             start == IF before = None THEN block_number ELSE before.next_rent_block
             lessor == Collectibles[id].lessor
             lessee == Collectibles'[id].lessee
             price == Collectibles[id].price_per_block
         IN after # None /\ (before # None => after.next_rent_block # start) =>
                \E blocks \in IF extension THEN U32
                              ELSE {after.rental_periodic_interval} :
                    LET paid == (price * blocks) %
                                    (IF extension THEN U32Size ELSE BalanceSize)
                        requested == (start + blocks) % U32Size
                    IN /\ free_balance' = AfterTransfer(lessee, lessor, paid)
                       /\ \/ after.next_rent_block = requested
                          \/ /\ after.next_rent_block = FollowingBlock
                             /\ \/ CrowdedForOthersOf(id, requested)
                                \/ phase = "on_initialize" /\ requested = block_number
      ]_vars

\* A rental is left behind, due in a block whose hook will not come any more, only
\* if its period is zero or the block it was to be due in, or the one after the
\* current block, wraps around u32: neither a full block, nor an extension, nor the
\* removal of the block's entry at the end of the hook (lib.rs:662) does it.
OnlyZeroOrWrapLeavesBehind ==
    [][\A id \in CollectibleId :
         LET before == Lease(id)
             after == Lease(id)'
         IN (before # None => Ahead(id)) /\ Rented(id)' /\ ~Ahead(id)' =>
                \/ after.rental_periodic_interval = 0
                \/ block_number + 1 = U32Size /\ after.next_rent_block = FollowingBlock
                \/ /\ before = None \/ phase = "on_initialize"
                   /\ block_number + after.rental_periodic_interval >= U32Size
                \/ \E sender \in AccountId, blocks \in Blocks :
                       /\ ExtendRent(sender, id, blocks)
                       /\ before.next_rent_block + blocks >= U32Size
      ]_vars

\* Once its lessor has withdrawn it, a rented collectible comes back at the latest
\* in the block its rental is due in or, if that is later, in the block numbered as
\* its maximum period: it stays withdrawn, the hook does not renew it, the check of
\* lib.rs:535-539 bounds every extension, and a full block only brings the end of
\* one forward.  The exception is a rental that had been left behind: an extension
\* may bring it back, into the following block.
WithdrawnRentalIsBounded ==
    [][\A id \in CollectibleId :
         Rented(id) /\ ~Collectibles[id].rentable /\ Rented(id)' =>
            /\ ~Collectibles'[id].rentable
            /\ Collectibles'[id].lessee = Collectibles[id].lessee
            /\ \/ Lease(id)'.next_rent_block <= Lease(id).next_rent_block
               \/ Lease(id)'.next_rent_block <= Collectibles[id].maximum_rental_period
               \/ ~Ahead(id) /\ Lease(id)'.next_rent_block = FollowingBlock
      ]_vars

--------------------------------------------------------------------------------
\* Liveness, under FairSpec

\* The hook always hands the block over to the extrinsics: the loop over the
\* rentals neither panics nor searches forever.
BlocksAreFinished == phase = "on_initialize" ~> phase = "extrinsics"

\* "burn - only when there is no lessee - use set_unrentable and then burn": a
\* rental of a collectible that its lessor has withdrawn does come to an end,
\* however its lessee sets recurring and extends.  The blocks modelled are enough
\* to see the end of the rentals that are due, and can be extended, within them.
WithdrawnRentalEnds ==
    \A id \in CollectibleId :
        /\ Rented(id)
        /\ ~Collectibles[id].rentable
        /\ Lease(id).next_rent_block <= LastBlock
        /\ Collectibles[id].maximum_rental_period <= LastBlock
        ~> ~Rented(id)

--------------------------------------------------------------------------------
\* What the pallet's documents and comments say, and the code does not do.  Each
\* is checked by a run that finds it violated.

\* README.md:59, "set a non-fungible asset unavailable for rent": what is not
\* rentable is not rented out.
OnlyRentableIsRented ==
    [][\A id \in CollectibleId :
         Exists(id) /\ ~Rented(id) /\ Rented(id)' => Collectibles[id].rentable]_vars

\* lib.rs:699-701, "if it fails (because the rental period is already full),
\* increment the rental period and try again": a full block delays the end of a
\* new rental, it never brings it forward.
FullBlockDelaysRental ==
    [][\A id \in CollectibleId :
         Exists(id) /\ ~Rented(id) /\ Rented(id)' =>
             Lease(id)'.next_rent_block
                 >= block_number + Lease(id)'.rental_periodic_interval]_vars

\* lib.rs:622-623, "Mutating state with a balance transfer, so nothing is allowed
\* to fail after this": the hook gets past the search that follows the transfer.
NothingFailsAfterTransfer == ~(spinning /\ phase = "on_initialize")

\* lib.rs:192, "Lessor cannot perform operation while collectible is rented", and
\* test_should_not_equip_rented_collectible_as_lessor.
LessorDoesNotEquipRented ==
    [][\A id \in CollectibleId :
         Rented(id) /\ id \notin Range(AccountEquips[Collectibles[id].lessor]) =>
             id \notin Range(AccountEquips'[Collectibles[id].lessor])]_vars

\* lib.rs:100, "List of rentable collectibles": what is in the list is rentable.
ListedIsRentable ==
    \A id \in Range(RentableCollectibles) : Exists(id) /\ Collectibles[id].rentable

================================================================================
