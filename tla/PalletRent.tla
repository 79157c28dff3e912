------------------------------- MODULE PalletRent -------------------------------
(***************************************************************************)
(* The rent pallet (pallets/rent/src/lib.rs): its nine calls, and the      *)
(* block hook that charges for or ends the rentals that fall due.          *)
(*                                                                         *)
(* A call is one step: FRAME runs it inside a storage transaction, so a    *)
(* call that returns an error changes nothing, whatever it wrote before    *)
(* (do_mint and set_rentable write before they can fail), and a call that  *)
(* panics is left out of the block.  Its guard is the conjunction of the   *)
(* checks of the code.                                                     *)
(*                                                                         *)
(* on_initialize is not in a transaction and may not fail: a panic there   *)
(* means that no block can be built on the parent.  Its loop is one step   *)
(* per rental, so that what the code reads before and in the loop can be   *)
(* told apart, and where the code would panic there is no step.            *)
(***************************************************************************)
EXTENDS RentStorage

CONSTANTS
    Prices,         \* the prices set_rentable is called with
    Periods,        \* the minima and maxima set_rentable is called with
    Blocks,         \* the lengths rent and extend_rent are called with
    Amounts,        \* what accounts transfer to each other outside the pallet
    Fees,           \* what an account can be charged for an extrinsic
    LastBlock       \* a bound of the model: no block is begun after it

ASSUME InputsAssumption ==
    /\ Prices \subseteq Balance
    /\ Periods \subseteq U32
    /\ Blocks \subseteq U32
    /\ Amounts \subseteq Nat
    /\ Fees \subseteq Nat
    /\ LastBlock \in U32
    /\ 1 \in U32

Init ==
    /\ Collectibles = [id \in CollectibleId |-> None]
    /\ LessorCollectibles = [a \in AccountId |-> <<>>]
    /\ LesseeCollectibles = [a \in AccountId |-> [id \in CollectibleId |-> None]]
    /\ RentableCollectibles = <<>>
    /\ PendingRentals = [b \in BlockNumber |-> <<>>]
    /\ AccountEquips = [a \in AccountId |-> <<>>]
    /\ generated = {}
    /\ free_balance = [a \in AccountId |-> Endowment]
    /\ block_number = 1
    /\ phase = "extrinsics"
    /\ rentals = <<>>
    /\ spinning = FALSE

--------------------------------------------------------------------------------
\* Calls

InCall == phase = "extrinsics" /\ ~spinning

NewCollectible(lessor) ==
    [ price_per_block       |-> None,
      lessor                |-> lessor,
      lessee                |-> None,
      rentable              |-> FALSE,
      minimum_rental_period |-> None,
      maximum_rental_period |-> None ]

\* The identifier is the hash of a random seed, the number of the extrinsic and
\* the block: it is one that no earlier mint has had.
Mint(sender, id) ==
    /\ InCall
    /\ id \notin generated
    /\ ~Exists(id)
    /\ HasRoom(LessorCollectibles[sender], MaximumOwned)
    /\ generated' = generated \cup {id}
    /\ Collectibles' = [Collectibles EXCEPT ![id] = NewCollectible(sender)]
    /\ LessorCollectibles' = [LessorCollectibles EXCEPT ![sender] = Append(@, id)]
    /\ UNCHANGED << LesseeCollectibles, RentableCollectibles, PendingRentals,
                    AccountEquips, free_balance, clock, spinning >>

\* Mutant of OwnedAndVacant: the check of NotAllowedWhileRented is missing.
Owned(sender, id) == Exists(id) /\ IsLessor(sender, id)

\* What burn and set_rentable ask: the sender owns it and nobody rents it.
OwnedAndVacant(sender, id) ==
    /\ Exists(id)
    /\ IsLessor(sender, id)
    /\ Collectibles[id].lessee = None

\* A burnt collectible stays in RentableCollectibles.
Burn(sender, id) ==
    /\ InCall
    /\ OwnedAndVacant(sender, id)
    /\ Collectibles' = [Collectibles EXCEPT ![id] = None]
    /\ LessorCollectibles' = [LessorCollectibles EXCEPT ![sender] = Retain(@, {id})]
    /\ AccountEquips' = Unequip(sender, id)
    /\ UNCHANGED << LesseeCollectibles, RentableCollectibles, PendingRentals,
                    generated, free_balance, clock, spinning >>

\* Mutant of Offered: the maximum is not stored.
OfferedWithoutMaximum(id, price, minimum, maximum) ==
    [Collectibles EXCEPT ![id] =
        [@ EXCEPT !.price_per_block = price,
                  !.rentable = TRUE,
                  !.minimum_rental_period = minimum]]

\* Collectibles once id is offered on these terms.
Offered(id, price, minimum, maximum) ==
    [Collectibles EXCEPT ![id] =
        [@ EXCEPT !.price_per_block = price,
                  !.rentable = TRUE,
                  !.minimum_rental_period = minimum,
                  !.maximum_rental_period = maximum]]

\* A collectible that is rentable already is listed once more.
SetRentable(sender, id, price, minimum, maximum) ==
    /\ InCall
    /\ OwnedAndVacant(sender, id)
    /\ minimum <= maximum
    /\ HasRoom(RentableCollectibles, MaximumOwned)
    /\ Collectibles' = Offered(id, price, minimum, maximum)
    /\ RentableCollectibles' = Append(RentableCollectibles, id)
    /\ AccountEquips' = Unequip(sender, id)
    /\ UNCHANGED << LessorCollectibles, LesseeCollectibles, PendingRentals,
                    generated, free_balance, clock, spinning >>

\* Mutant of NotAParty: CannotRentOwnCollectible is not checked.
NotTheLessee(sender, id) == Collectibles[id].lessee = None

NotAParty(sender, id) ==
    Collectibles[id].lessor # sender /\ Collectibles[id].lessee = None

\* The checks of rent; that the collectible is rentable is not one of them.  A
\* collectible that was never given a price makes do_rent_collectible panic.
MayRent(sender, id, blocks) ==
    /\ InCall
    /\ Exists(id)
    /\ LET c == Collectibles[id] IN
       /\ c.minimum_rental_period # None => blocks >= c.minimum_rental_period
       /\ c.maximum_rental_period # None => blocks <= c.maximum_rental_period
       /\ NotAParty(sender, id)
       /\ c.price_per_block # None
       /\ CanTransfer(sender, c.lessor, RentPrice(id, blocks))

Rent(sender, id, blocks, recurring) ==
    /\ MayRent(sender, id, blocks)
    /\ SearchEnds(PendingRentals, block_number, blocks)
    /\ LET b == AvailableBlock(PendingRentals, block_number, blocks) IN
       /\ PendingRentals' = Schedule(PendingRentals, b, id, sender)
       /\ LesseeCollectibles' = [LesseeCollectibles EXCEPT ![sender][id] =
              [ rental_periodic_interval |-> blocks,
                next_rent_block          |-> b,
                recurring                |-> recurring ]]
    /\ free_balance' =
           AfterTransfer(sender, Collectibles[id].lessor, RentPrice(id, blocks))
    /\ Collectibles' = [Collectibles EXCEPT ![id].lessee = sender]
    /\ UNCHANGED << LessorCollectibles, RentableCollectibles, AccountEquips,
                    generated, clock, spinning >>

\* The search for a block does not return, nor does the call.
RentSpins(sender, id, blocks) ==
    /\ MayRent(sender, id, blocks)
    /\ ~SearchEnds(PendingRentals, block_number, blocks)
    /\ spinning' = TRUE
    /\ UNCHANGED << storage, generated, free_balance, clock >>

SetUnrentable(sender, id) ==
    /\ InCall
    /\ Exists(id)
    /\ IsLessor(sender, id)
    /\ Collectibles' = [Collectibles EXCEPT ![id].rentable = FALSE]
    /\ RentableCollectibles' = Retain(RentableCollectibles, {id})
    /\ UNCHANGED << LessorCollectibles, LesseeCollectibles, PendingRentals,
                    AccountEquips, generated, free_balance, clock, spinning >>

SetRecurring(sender, id, recurring) ==
    /\ InCall
    /\ Exists(id)
    /\ IsLessee(sender, id)
    /\ LesseeCollectibles[sender][id] # None
    /\ LesseeCollectibles' =
           [LesseeCollectibles EXCEPT ![sender][id].recurring = recurring]
    /\ UNCHANGED << Collectibles, LessorCollectibles, RentableCollectibles,
                    PendingRentals, AccountEquips, generated, free_balance,
                    clock, spinning >>

\* Mutant of ExtensionPrice: one block is charged, however long the extension.
ExtensionPriceOfOneBlock(id, blocks) == Collectibles[id].price_per_block % U32Size

\* The price of an extension is computed in u32, where that of a rental is
\* computed in Balance; a price that does not fit makes do_extend_rent panic.
ExtensionPrice(id, blocks) ==
    (blocks * Collectibles[id].price_per_block) % U32Size

\* The maximum is compared with the block the rental would be due in.
WithinMaximum(sender, id, blocks) ==
    (blocks + LesseeCollectibles[sender][id].next_rent_block) % U32Size
        <= Collectibles[id].maximum_rental_period

MayExtend(sender, id, blocks) ==
    /\ InCall
    /\ Exists(id)
    /\ IsLessee(sender, id)
    /\ LesseeCollectibles[sender][id] # None
    /\ Collectibles[id].maximum_rental_period # None
    /\ Collectibles[id].price_per_block # None
    /\ WithinMaximum(sender, id, blocks)
    /\ Collectibles[id].price_per_block < U32Size
    /\ CanTransfer(sender, Collectibles[id].lessor, ExtensionPrice(id, blocks))

\* PendingRentals once the rental is taken out of the block it was due in.
WithoutRental(sender, id) ==
    Unschedule(PendingRentals, LesseeCollectibles[sender][id].next_rent_block, id)

ExtendRent(sender, id, blocks) ==
    /\ MayExtend(sender, id, blocks)
    /\ LET due == LesseeCollectibles[sender][id].next_rent_block
           b == AvailableBlock(WithoutRental(sender, id), due, blocks)
       IN /\ SearchEnds(WithoutRental(sender, id), due, blocks)
          /\ PendingRentals' = Schedule(WithoutRental(sender, id), b, id, sender)
          /\ LesseeCollectibles' =
                 [LesseeCollectibles EXCEPT ![sender][id].next_rent_block = b]
    /\ free_balance' =
           AfterTransfer(sender, Collectibles[id].lessor, ExtensionPrice(id, blocks))
    /\ UNCHANGED << Collectibles, LessorCollectibles, RentableCollectibles,
                    AccountEquips, generated, clock, spinning >>

ExtendRentSpins(sender, id, blocks) ==
    /\ MayExtend(sender, id, blocks)
    /\ ~SearchEnds(WithoutRental(sender, id),
                   LesseeCollectibles[sender][id].next_rent_block, blocks)
    /\ spinning' = TRUE
    /\ UNCHANGED << storage, generated, free_balance, clock >>

\* Mutant of MayEquip: that the collectible is rentable is not checked.
MayEquipEither(sender, id) == IsLessor(sender, id) \/ IsLessee(sender, id)

\* The lessor may equip what is not rentable, the lessee what it rents.
MayEquip(sender, id) ==
    IF IsLessor(sender, id) THEN ~Collectibles[id].rentable ELSE IsLessee(sender, id)

EquipCollectible(sender, id) ==
    /\ InCall
    /\ Exists(id)
    /\ MayEquip(sender, id)
    /\ HasRoom(AccountEquips[sender], MaximumOwned)
    /\ AccountEquips' = [AccountEquips EXCEPT ![sender] = Append(@, id)]
    /\ UNCHANGED << Collectibles, LessorCollectibles, LesseeCollectibles,
                    RentableCollectibles, PendingRentals, generated,
                    free_balance, clock, spinning >>

UnequipCollectible(sender, id) ==
    /\ InCall
    /\ Exists(id)
    /\ IsLessee(sender, id) \/ IsLessor(sender, id)
    /\ AccountEquips' = Unequip(sender, id)
    /\ UNCHANGED << Collectibles, LessorCollectibles, LesseeCollectibles,
                    RentableCollectibles, PendingRentals, generated,
                    free_balance, clock, spinning >>

--------------------------------------------------------------------------------
\* Blocks

\* The runtime begins the next block and calls on_initialize, which reads the
\* rentals of the block once and then loops over what it has read.
BeginBlock ==
    /\ InCall
    /\ block_number < LastBlock
    /\ block_number' = block_number + 1
    /\ phase' = "on_initialize"
    /\ rentals' = PendingRentals[block_number + 1]
    /\ UNCHANGED << storage, generated, free_balance, spinning >>

\* The rental <<id, lessee>> is next in the loop, and both reads that the code
\* unwraps find something.
Processing(id, lessee) ==
    /\ phase = "on_initialize"
    /\ ~spinning
    /\ rentals # <<>>
    /\ Head(rentals) = <<id, lessee>>
    /\ LesseeCollectibles[lessee][id] # None
    /\ Exists(id)

\* Mutant of Continues: that the lessor has withdrawn it is not checked.
ContinuesWithdrawn(id, lessee) ==
    Collectibles[id].lessee # None /\ LesseeCollectibles[lessee][id].recurring

\* Mutant of Continues: that the lessee does not want to renew is not checked.
ContinuesUnasked(id, lessee) ==
    Collectibles[id].rentable /\ Collectibles[id].lessee # None

Continues(id, lessee) ==
    /\ Collectibles[id].rentable
    /\ Collectibles[id].lessee # None
    /\ LesseeCollectibles[lessee][id].recurring

RenewalPrice(id, lessee) ==
    RentPrice(id, LesseeCollectibles[lessee][id].rental_periodic_interval)

CanRenew(id, lessee) ==
    CanTransfer(lessee, Collectibles[id].lessor, RenewalPrice(id, lessee))

RemoveLessee(id, lessee) ==
    /\ LesseeCollectibles' = [LesseeCollectibles EXCEPT ![lessee][id] = None]
    /\ Collectibles' = [Collectibles EXCEPT ![id].lessee = None]
    /\ AccountEquips' = Unequip(lessee, id)
    /\ rentals' = Tail(rentals)
    /\ UNCHANGED << LessorCollectibles, RentableCollectibles, PendingRentals,
                    generated, free_balance, block_number, phase, spinning >>

EndRental(id, lessee) ==
    /\ Processing(id, lessee)
    /\ ~Continues(id, lessee)
    /\ RemoveLessee(id, lessee)

CancelUnpaidRental(id, lessee) ==
    /\ Processing(id, lessee)
    /\ Continues(id, lessee)
    /\ Collectibles[id].price_per_block # None
    /\ ~CanRenew(id, lessee)
    /\ RemoveLessee(id, lessee)

Renews(id, lessee) ==
    /\ Processing(id, lessee)
    /\ Continues(id, lessee)
    /\ Collectibles[id].price_per_block # None
    /\ CanRenew(id, lessee)

RenewRental(id, lessee) ==
    /\ Renews(id, lessee)
    /\ LET interval == LesseeCollectibles[lessee][id].rental_periodic_interval
           b == AvailableBlock(PendingRentals, block_number, interval)
       IN /\ SearchEnds(PendingRentals, block_number, interval)
          /\ PendingRentals' = Schedule(PendingRentals, b, id, lessee)
          /\ LesseeCollectibles' =
                 [LesseeCollectibles EXCEPT ![lessee][id].next_rent_block = b]
    /\ free_balance' =
           AfterTransfer(lessee, Collectibles[id].lessor, RenewalPrice(id, lessee))
    /\ rentals' = Tail(rentals)
    /\ UNCHANGED << Collectibles, LessorCollectibles, RentableCollectibles,
                    AccountEquips, generated, block_number, phase, spinning >>

RenewalSpins(id, lessee) ==
    /\ Renews(id, lessee)
    /\ ~SearchEnds(PendingRentals, block_number,
                   LesseeCollectibles[lessee][id].rental_periodic_interval)
    /\ spinning' = TRUE
    /\ UNCHANGED << storage, generated, free_balance, clock >>

\* The block's entry of PendingRentals goes, with whatever the loop added to it.
FinishRentals ==
    /\ phase = "on_initialize"
    /\ ~spinning
    /\ rentals = <<>>
    /\ PendingRentals' = RemoveBlock(PendingRentals, block_number)
    /\ phase' = "extrinsics"
    /\ UNCHANGED << Collectibles, LessorCollectibles, LesseeCollectibles,
                    RentableCollectibles, AccountEquips, generated,
                    free_balance, block_number, rentals, spinning >>

--------------------------------------------------------------------------------
\* The rest of the runtime, as far as the pallet sees it: accounts move their
\* funds with the balances pallet, which reaps an account that falls below the
\* existential deposit, and are charged for extrinsics.

BalancesTransfer(from, to, amount) ==
    /\ InCall
    /\ from # to
    /\ amount > 0
    /\ free_balance[from] >= amount
    /\ free_balance[to] + amount >= ExistentialDeposit
    /\ LET rest == free_balance[from] - amount IN
       free_balance' = [free_balance EXCEPT
           ![from] = IF rest < ExistentialDeposit THEN 0 ELSE rest,
           ![to] = @ + amount]
    /\ UNCHANGED << storage, generated, clock, spinning >>

\* The fee of an extrinsic is withdrawn from its signer, whom it must leave
\* alive, before the call is dispatched, and is burnt.
ChargeFee(who, fee) ==
    /\ InCall
    /\ fee > 0
    /\ free_balance[who] - fee >= ExistentialDeposit
    /\ free_balance' = [free_balance EXCEPT ![who] = @ - fee]
    /\ UNCHANGED << storage, generated, clock, spinning >>

--------------------------------------------------------------------------------

\* The calls that an account can sign.
CallBy(sender) ==
    \E id \in CollectibleId :
        \/ Mint(sender, id)
        \/ Burn(sender, id)
        \/ \E price \in Prices, minimum, maximum \in Periods :
               SetRentable(sender, id, price, minimum, maximum)
        \/ \E blocks \in Blocks, recurring \in BOOLEAN :
               Rent(sender, id, blocks, recurring)
        \/ \E blocks \in Blocks : RentSpins(sender, id, blocks)
        \/ SetUnrentable(sender, id)
        \/ \E recurring \in BOOLEAN : SetRecurring(sender, id, recurring)
        \/ \E blocks \in Blocks : ExtendRent(sender, id, blocks)
        \/ \E blocks \in Blocks : ExtendRentSpins(sender, id, blocks)
        \/ EquipCollectible(sender, id)
        \/ UnequipCollectible(sender, id)

Call == \E sender \in AccountId : CallBy(sender)

ProcessRental ==
    \E id \in CollectibleId, lessee \in AccountId :
        \/ EndRental(id, lessee)
        \/ CancelUnpaidRental(id, lessee)
        \/ RenewRental(id, lessee)
        \/ RenewalSpins(id, lessee)

OnInitialize == ProcessRental \/ FinishRentals

OtherPallets ==
    \/ \E from, to \in AccountId, amount \in Amounts :
           BalancesTransfer(from, to, amount)
    \/ \E who \in AccountId, fee \in Fees : ChargeFee(who, fee)

Next == Call \/ BeginBlock \/ OnInitialize \/ OtherPallets

Spec == Init /\ [][Next]_vars

\* The chain keeps building blocks, and the hook runs to its end in each of them.
\* Nobody is obliged to call.
Fairness == WF_vars(BeginBlock) /\ WF_vars(OnInitialize)

FairSpec == Spec /\ Fairness

================================================================================
