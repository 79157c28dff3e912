---------------------------- MODULE TenancyRefinement ----------------------------
(***************************************************************************)
(* The rent pallet implements Tenancy: who owns a collectible is read from *)
(* Collectibles, its lease from the two maps the pallet keeps it in.       *)
(***************************************************************************)
EXTENDS RentProperties

OwnerOf == [id \in CollectibleId |->
    IF Exists(id) THEN Collectibles[id].lessor ELSE None]

LeaseOf == [id \in CollectibleId |->
    IF Rented(id)
    THEN [ tenant |-> Collectibles[id].lessee,
           due    |-> Lease(id).next_rent_block,
           period |-> Lease(id).rental_periodic_interval,
           renew  |-> Lease(id).recurring ]
    ELSE None]

\* What LeaseOf gives for a rented collectible is told apart from None.
ASSUME NoneIsNoLease ==
    None \notin [ tenant : AccountId, due : BlockNumber, period : U32, renew : BOOLEAN ]

T == INSTANCE Tenancy WITH
        Id      <- CollectibleId,
        Account <- AccountId,
        Horizon <- U32Size,
        owner   <- OwnerOf,
        lease   <- LeaseOf,
        funds   <- free_balance,
        now     <- block_number,
        opening <- (phase = "on_initialize")

\* The pallet keeps the promises of Tenancy with any capacities, periods and
\* widths: every call and every turn of the hook's loop (lib.rs:594-663) is a step
\* of it or changes nothing it speaks of, and when the hook is done no lease that
\* was due is left unsettled.
ImplementsTenancy == T!Spec

================================================================================
