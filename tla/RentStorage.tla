------------------------------ MODULE RentStorage ------------------------------
(***************************************************************************)
(* The state of the rent pallet and the helpers its calls and its block    *)
(* hook are built from (pallets/rent/src/lib.rs, and the part of FRAME it  *)
(* uses): the storage maps, the balances it moves rent between, the clock  *)
(* it reads, and the search for a block with room for one more rental.     *)
(*                                                                         *)
(* A storage map is a total function that is None where the map has no     *)
(* entry; the maps read with unwrap_or_default and the ValueQuery maps are *)
(* the empty vector there.  Nothing reads events back: RentEvents has them *)
(***************************************************************************)
EXTENDS BoundedVec

CONSTANTS
    CollectibleId,              \* the identifiers mint can generate
    AccountId,
    None,                       \* Option::None
    MaximumOwned,               \* Config::MaximumOwned
    MaximumRentablesPerBlock,   \* Config::MaximumRentablesPerBlock
    ExistentialDeposit,         \* pallet_balances: below it an account is reaped
    Endowment,                  \* what the genesis gives to each account
    U32Size,                    \* u32 and BlockNumber hold 0 .. U32Size - 1
    BalanceSize                 \* Balance holds 0 .. BalanceSize - 1

U32 == 0 .. U32Size - 1
BlockNumber == U32
Balance == 0 .. BalanceSize - 1

Collectible ==
    [ price_per_block       : Balance \cup {None},
      lessor                : AccountId,
      lessee                : AccountId \cup {None},
      rentable              : BOOLEAN,
      minimum_rental_period : U32 \cup {None},
      maximum_rental_period : U32 \cup {None} ]

RentalPeriodConfig ==
    [ rental_periodic_interval : U32,
      next_rent_block          : BlockNumber,
      recurring                : BOOLEAN ]

\* An entry of PendingRentals: which collectible falls due, and for whom.
PendingRental == CollectibleId \X AccountId

ASSUME SizesAssumption ==
    /\ U32Size \in Nat \ {0}
    /\ BalanceSize \in Nat \ {0}
    /\ MaximumOwned \in Nat
    /\ MaximumRentablesPerBlock \in Nat
    /\ ExistentialDeposit \in Nat
    /\ Endowment \in Nat

ASSUME NoneAssumption ==
    /\ None \notin AccountId
    /\ None \notin Nat
    /\ None \notin Collectible
    /\ None \notin RentalPeriodConfig

VARIABLES
    Collectibles,           \* collectible -> Collectible
    LessorCollectibles,     \* account -> the collectibles it owns
    LesseeCollectibles,     \* account -> collectible -> RentalPeriodConfig
    RentableCollectibles,   \* the collectibles set rentable
    PendingRentals,         \* block -> the rentals that fall due in it
    AccountEquips,          \* account -> the collectibles it has equipped
    generated,              \* the identifiers mint has used
    free_balance,           \* pallet_balances: account -> free balance
    block_number,           \* frame_system: the block being built
    phase,                  \* what of that block is being executed
    rentals,                \* the loop of do_process_rental_periods: what is left
    spinning                \* the search for a block with room never returns

storage == << Collectibles, LessorCollectibles, LesseeCollectibles,
              RentableCollectibles, PendingRentals, AccountEquips >>
clock == << block_number, phase, rentals >>
vars == << storage, generated, free_balance, clock, spinning >>

OwnedIds == BoundedVec(CollectibleId, MaximumOwned)

TypeOK ==
    /\ Collectibles \in [CollectibleId -> Collectible \cup {None}]
    /\ LessorCollectibles \in [AccountId -> OwnedIds]
    /\ LesseeCollectibles \in
           [AccountId -> [CollectibleId -> RentalPeriodConfig \cup {None}]]
    /\ RentableCollectibles \in OwnedIds
    /\ PendingRentals \in
           [BlockNumber -> BoundedVec(PendingRental, MaximumRentablesPerBlock)]
    /\ AccountEquips \in [AccountId -> OwnedIds]
    /\ generated \in SUBSET CollectibleId
    /\ free_balance \in [AccountId -> Nat]
    /\ block_number \in BlockNumber
    /\ phase \in {"on_initialize", "extrinsics"}
    /\ rentals \in BoundedVec(PendingRental, MaximumRentablesPerBlock)
    /\ spinning \in BOOLEAN

--------------------------------------------------------------------------------
\* Helpers of the pallet

Exists(id) == Collectibles[id] # None

\* ensure_user_is_lessor and ensure_user_is_lessee, of a collectible that exists.
IsLessor(user, id) == Collectibles[id].lessor = user
IsLessee(user, id) == Collectibles[id].lessee = user

\* transfer_funds: the pallet's own check of the balance, then the checks of
\* pallet_balances for a transfer that keeps the payer alive.  A transfer of
\* nothing succeeds whatever the accounts hold.
CanTransfer(from, to, amount) ==
    /\ free_balance[from] >= amount
    /\ \/ amount = 0
       \/ from = to
       \/ /\ free_balance[from] - amount >= ExistentialDeposit
          /\ free_balance[to] + amount >= ExistentialDeposit

AfterTransfer(from, to, amount) ==
    IF from = to THEN free_balance
    ELSE [free_balance EXCEPT ![from] = @ - amount, ![to] = @ + amount]

\* The release build the chain runs wraps: neither profile checks for overflow.
RentPrice(id, blocks) ==
    (Collectibles[id].price_per_block * blocks) % BalanceSize

\* Mutant of RequestedBlock: it counts the starting block as the first one.
RequestedBlockInclusive(start, extra) == (start + extra - 1) % U32Size

\* append_pending_rental_to_available_block asks for the block that lies extra
\* after start.  When that block is full it looks at the block after the
\* current one, and if this one is full too it looks there again, forever.
RequestedBlock(start, extra) == (start + extra) % U32Size

FollowingBlock == (block_number + 1) % U32Size

\* Mutant of HasRoomAt: an off-by-one in the capacity.
HasRoomForOneTooMany(pending, b) == Len(pending[b]) <= MaximumRentablesPerBlock

HasRoomAt(pending, b) == HasRoom(pending[b], MaximumRentablesPerBlock)

SearchEnds(pending, start, extra) ==
    \/ HasRoomAt(pending, RequestedBlock(start, extra))
    \/ HasRoomAt(pending, FollowingBlock)

AvailableBlock(pending, start, extra) ==
    IF HasRoomAt(pending, RequestedBlock(start, extra))
    THEN RequestedBlock(start, extra)
    ELSE FollowingBlock

Schedule(pending, b, id, lessee) ==
    [pending EXCEPT ![b] = Append(@, <<id, lessee>>)]

\* Mutant of Unschedule: the collectible stays in the block it was due in.
UnscheduleForgotten(pending, b, id) == pending

\* do_extend_rent takes the collectible out of the block it was due in.
Unschedule(pending, b, id) ==
    [pending EXCEPT ![b] = Retain(@, {id} \X AccountId)]

\* Mutant of RemoveBlock: it also clears the blocks that have gone by.
RemoveBlocksUpTo(pending, b) ==
    [c \in BlockNumber |-> IF c <= b THEN <<>> ELSE pending[c]]

\* do_process_rental_periods removes the block it has processed.
RemoveBlock(pending, b) == [pending EXCEPT ![b] = <<>>]

\* unequip_collectible_from_account
Unequip(account, id) ==
    [AccountEquips EXCEPT ![account] = Retain(@, {id})]

================================================================================
