-------------------------------- MODULE Dispatch --------------------------------
(***************************************************************************)
(* How the runtime applies a signed extrinsic to the rent pallet           *)
(* (runtime/src/lib.rs): the signer is charged, then its call is           *)
(* dispatched in a storage layer, which is committed when the call returns *)
(* Ok and dropped when it returns an error.  The call's caller is the      *)
(* signer, or anyone whom the sudo key names.  PalletRent takes this for   *)
(* granted, and has no step for a call that is refused.  Here there is     *)
(* one: it keeps the fee, and whatever the call had written before it      *)
(* failed is for the layer to undo.                                        *)
(*                                                                         *)
(* What a call returns is a table of its checks, in the order of the code. *)
(***************************************************************************)
EXTENDS TenancyRefinement, FiniteSetsExt

VARIABLES
    extrinsic,  \* who signed the one being applied and who is its caller, or None
    sudo_key    \* pallet_sudo: the account that may call for others

dispatchVars == << vars, extrinsic, sudo_key >>

Extrinsic == [signer : AccountId, caller : AccountId]

ASSUME ExtrinsicAssumption == None \notin Extrinsic

--------------------------------------------------------------------------------
\* What the calls return

\* The error of the first check that fails.
First(checks) ==
    LET failing == {i \in DOMAIN checks : ~checks[i][1]} IN
    IF failing = {} THEN "Ok" ELSE checks[Min(failing)][2]

\* fetch_collectible comes first, and without the collectible nothing else does.
Fetched(id, result) == IF Exists(id) THEN result ELSE "NoCollectible"

LessorChecks(sender, id) == << << IsLessor(sender, id), "NotLessor" >> >>

LesseeChecks(sender, id) ==
    << << Collectibles[id].lessee # None, "NoLessee" >>,
       << IsLessee(sender, id), "NotLessee" >> >>

VacancyChecks(id) ==
    << << Collectibles[id].lessee = None, "NotAllowedWhileRented" >> >>

\* The second error is one of pallet_balances.
TransferChecks(from, to, amount) ==
    << << free_balance[from] >= amount, "NotEnoughBalance" >>,
       << CanTransfer(from, to, amount), "KeepAlive" >> >>

\* What the code unwraps has to be there.
Unwrap(option) == << << option # None, "panic" >> >>

MintResult(sender, id) ==
    First(<< << ~Exists(id), "DuplicateCollectible" >>,
             << HasRoom(LessorCollectibles[sender], MaximumOwned),
                "TooManyCollectiblesOwned" >> >>)

BurnResult(sender, id) ==
    Fetched(id, First(LessorChecks(sender, id) \o VacancyChecks(id)))

SetRentableResult(sender, id, minimum, maximum) ==
    Fetched(id, First(
        LessorChecks(sender, id)
        \o << << minimum <= maximum, "MinimumMustBeLessThanMaximum" >> >>
        \o VacancyChecks(id)
        \o << << HasRoom(RentableCollectibles, MaximumOwned),
                 "TooManyCollectibles" >> >>))

RentResult(sender, id, blocks) ==
    Fetched(id, LET c == Collectibles[id] IN First(
        << << c.minimum_rental_period # None => blocks >= c.minimum_rental_period,
              "RentalPeriodTooShort" >>,
           << c.maximum_rental_period # None => blocks <= c.maximum_rental_period,
              "RentalPeriodTooLong" >>,
           << c.lessor # sender, "CannotRentOwnCollectible" >>,
           << c.lessee = None, "RentNotAvailable" >>,
           << c.lessee # sender, "AlreadyRented" >> >>
        \o Unwrap(c.price_per_block)
        \o TransferChecks(sender, c.lessor,
               IF c.price_per_block = None THEN 0 ELSE RentPrice(id, blocks))))

SetUnrentableResult(sender, id) == Fetched(id, First(LessorChecks(sender, id)))

SetRecurringResult(sender, id) ==
    Fetched(id, First(
        LesseeChecks(sender, id)
        \o << << LesseeCollectibles[sender][id] # None, "NoCollectible" >> >>))

ExtendRentResult(sender, id, blocks) ==
    Fetched(id, LET c == Collectibles[id]
                    complete == /\ LesseeCollectibles[sender][id] # None
                                /\ c.maximum_rental_period # None
                                /\ c.price_per_block # None
                IN First(
        LesseeChecks(sender, id)
        \o << << LesseeCollectibles[sender][id] # None, "NoCollectible" >> >>
        \o Unwrap(c.maximum_rental_period)
        \o << << complete => WithinMaximum(sender, id, blocks),
                 "RentalPeriodTooLong" >> >>
        \o Unwrap(c.price_per_block)
        \o << << complete => c.price_per_block < U32Size, "panic" >> >>
        \o TransferChecks(sender, c.lessor,
               IF complete THEN ExtensionPrice(id, blocks) ELSE 0)))

EquipResult(sender, id) ==
    Fetched(id, LET c == Collectibles[id]
                    lessor == IsLessor(sender, id)
                IN First(
        << << lessor => ~c.rentable, "NotAllowedWhileRented" >>,
           << lessor \/ c.lessee # None, "NoAccountFoundForCollectible" >>,
           << lessor \/ IsLessee(sender, id), "NotLessee" >>,
           << HasRoom(AccountEquips[sender], MaximumOwned),
              "TooManyCollectiblesEquiped" >> >>))

UnequipResult(sender, id) ==
    Fetched(id, First(<< << IsLessee(sender, id) \/ IsLessor(sender, id),
                            "NotLessor" >> >>))

--------------------------------------------------------------------------------
\* The application of an extrinsic

\* Mutant of AfterError: the call runs without a storage layer.
AfterErrorKept(before, written) == written

\* The layer is dropped, with what the call wrote into it.
AfterError(before, written) == before

\* A call that returned result after it had written to Collectibles.  One that
\* panics is not part of a block.
Refused(result, written) ==
    /\ result \notin {"Ok", "panic"}
    /\ Collectibles' = AfterError(Collectibles, written)

\* do_mint and set_rentable write the collectible before their last check.
MintWrites(sender, id) ==
    IF Exists(id) THEN Collectibles
    ELSE [Collectibles EXCEPT ![id] = NewCollectible(sender)]

SetRentableWrites(sender, id, price, minimum, maximum) ==
    IF SetRentableResult(sender, id, minimum, maximum) = "TooManyCollectibles"
    THEN Offered(id, price, minimum, maximum)
    ELSE Collectibles

RefusedCallBy(sender) ==
    /\ InCall
    /\ \E id \in CollectibleId :
          \/ /\ id \notin generated
             /\ Refused(MintResult(sender, id), MintWrites(sender, id))
          \/ \E price \in Prices, minimum, maximum \in Periods :
                 Refused(SetRentableResult(sender, id, minimum, maximum),
                         SetRentableWrites(sender, id, price, minimum, maximum))
          \/ Refused(BurnResult(sender, id), Collectibles)
          \/ \E blocks \in Blocks :
                 \/ Refused(RentResult(sender, id, blocks), Collectibles)
                 \/ Refused(ExtendRentResult(sender, id, blocks), Collectibles)
          \/ Refused(SetUnrentableResult(sender, id), Collectibles)
          \/ Refused(SetRecurringResult(sender, id), Collectibles)
          \/ Refused(EquipResult(sender, id), Collectibles)
          \/ Refused(UnequipResult(sender, id), Collectibles)
    /\ UNCHANGED << LessorCollectibles, LesseeCollectibles, RentableCollectibles,
                    PendingRentals, AccountEquips, generated, free_balance,
                    clock, spinning >>

\* sudo and its set_key take no fee: what was withdrawn is given back.
CanPayFee(who) == \E fee \in Fees : free_balance[who] - fee >= ExistentialDeposit

\* sudo_as: the sudo key has a call dispatched with another account as its caller.
MayCallFor(signer, caller) ==
    signer = sudo_key /\ caller # signer /\ CanPayFee(signer)

\* The signed extensions are run first; the last of them withdraws the fee.
Charge(signer, caller) ==
    /\ extrinsic = None
    /\ InCall
    /\ \/ caller = signer /\ \E fee \in Fees : ChargeFee(signer, fee)
       \/ MayCallFor(signer, caller) /\ UNCHANGED vars
    /\ extrinsic' = [signer |-> signer, caller |-> caller]
    /\ UNCHANGED sudo_key

Apply(caller) ==
    /\ extrinsic # None
    /\ extrinsic.caller = caller
    /\ \/ CallBy(caller)
       \/ RefusedCallBy(caller)
       \/ \E to \in AccountId, amount \in Amounts : BalancesTransfer(caller, to, amount)
    /\ extrinsic' = None
    /\ UNCHANGED sudo_key

\* The sudo key hands its rights on.
SetKey ==
    /\ extrinsic = None
    /\ InCall
    /\ CanPayFee(sudo_key)
    /\ sudo_key' \in AccountId
    /\ UNCHANGED << vars, extrinsic >>

\* Blocks begin and hooks run between extrinsics.
BlockStep ==
    /\ extrinsic = None
    /\ BeginBlock \/ OnInitialize
    /\ UNCHANGED << extrinsic, sudo_key >>

DispatchInit == Init /\ extrinsic = None /\ sudo_key \in AccountId

DispatchNext ==
    \/ \E signer, caller \in AccountId : Charge(signer, caller)
    \/ \E caller \in AccountId : Apply(caller)
    \/ SetKey
    \/ BlockStep

DispatchSpec == DispatchInit /\ [][DispatchNext]_dispatchVars

--------------------------------------------------------------------------------
\* Properties

\* A call can panic in two ways only.  rent unwraps the price (lib.rs:493) of a
\* collectible that was never offered, so not of one that is in the list of what
\* can be rented; extend_rent finds all it unwraps (lib.rs:530-544), but the price
\* may not fit into u32.
PanicsAreForeseen ==
    InCall => \A sender \in AccountId, id \in CollectibleId, blocks \in Blocks :
        LET c == Collectibles[id] IN
        /\ RentResult(sender, id, blocks) = "panic" =>
               id \notin Range(RentableCollectibles) /\ ~c.rentable
        /\ ExtendRentResult(sender, id, blocks) = "panic" =>
               c.price_per_block # None /\ c.price_per_block >= U32Size

\* An account's funds shrink only by the fee of an extrinsic it has signed, in a call
\* of its own that it or the sudo key has signed, or in the hook, for a rental it
\* has left recurring and that is due in this block: transfer_funds (lib.rs:784) is
\* only ever called with the lessee as payer.
NobodyPaysForOthers ==
    [][\A a \in AccountId :
         free_balance'[a] < free_balance[a] =>
            \/ extrinsic = None /\ extrinsic' # None /\ extrinsic'.signer = a
            \/ /\ extrinsic # None
               /\ extrinsic.caller = a
               /\ extrinsic.signer \in {a, sudo_key}
            \/ \E id \in CollectibleId :
                   /\ phase = "on_initialize"
                   /\ Rented(id) /\ Collectibles[id].lessee = a
                   /\ Lease(id).recurring
                   /\ Lease(id).next_rent_block = block_number ]_dispatchVars

================================================================================
