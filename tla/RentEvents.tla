------------------------------- MODULE RentEvents -------------------------------
(***************************************************************************)
(* The events of the rent pallet (pallets/rent/src/lib.rs), and what an    *)
(* observer that sees nothing but the events knows of the pallet: an       *)
(* indexer that keeps, for each collectible, who rents it and until when,  *)
(* for each account what it has equipped and what rents have earned it.    *)
(*                                                                         *)
(* Each step of PalletRent is joined with the events it deposits, in the   *)
(* order of the code.  A call that never returns deposits nothing that     *)
(* anybody sees.  The balances pallet has events of its own, and the       *)
(* transfers accounts make with it are left out here.                      *)
(***************************************************************************)
EXTENDS RentProperties

VARIABLE observer    \* what the indexer has made of all events so far

eventVars == << vars, observer >>

--------------------------------------------------------------------------------
\* Events, without the fields that the observer does not read

CollectibleCreated(id) == [type |-> "CollectibleCreated", id |-> id]
RentMadeAvailable(id) == [type |-> "RentMadeAvailable", id |-> id]
RentMadeUnavailable(id) == [type |-> "RentMadeUnavailable", id |-> id]
RentalSetRecurring(id) == [type |-> "RentalSetRecurring", id |-> id]
RentalPeriodRemoved(id) == [type |-> "RentalPeriodRemoved", id |-> id]
RentalExtended(id) == [type |-> "RentalExtended", id |-> id]
RentalEnded(id) == [type |-> "RentalEnded", id |-> id]
ErrorTransferingRent(id) == [type |-> "ErrorTransferingRent", id |-> id]

RentPayed(id, lessor, lessee, price) ==
    [type |-> "RentPayed", id |-> id, lessor |-> lessor, lessee |-> lessee,
     price |-> price]

RentalPeriodAdded(id, b) == [type |-> "RentalPeriodAdded", id |-> id, due |-> b]

CollectibleEquipped(account, id) ==
    [type |-> "CollectibleEquipped", id |-> id, account |-> account]

CollectibleUnequipped(account, id) ==
    [type |-> "CollectibleUnequipped", id |-> id, account |-> account]

--------------------------------------------------------------------------------
\* The observer

NothingObserved ==
    [ lessee   |-> [id \in CollectibleId |-> None],
      due      |-> [id \in CollectibleId |-> None],
      equipped |-> [a \in AccountId |-> {}],
      earned   |-> [a \in AccountId |-> 0] ]

\* What the observer knows once a rent is paid, a collectible falls due in the
\* block b, is vacant, or an account has the collectibles ids equipped.
LesseePaid(known, e) ==
    [known EXCEPT !.lessee[e.id] = e.lessee,
                  !.earned[e.lessor] = @ + e.price,
                  !.earned[e.lessee] = @ - e.price]

FallsDue(known, id, b) == [known EXCEPT !.due[id] = b]

Vacated(known, id) == [known EXCEPT !.lessee[id] = None, !.due[id] = None]

HasEquipped(known, account, ids) == [known EXCEPT !.equipped[account] = ids]

\* What it knows once it has seen the event e.
Observe(known, e) ==
    CASE e.type = "RentPayed" -> LesseePaid(known, e)
      [] e.type = "RentalPeriodAdded" -> FallsDue(known, e.id, e.due)
      [] e.type = "RentalPeriodRemoved" -> FallsDue(known, e.id, None)
      [] e.type \in {"RentalEnded", "ErrorTransferingRent"} -> Vacated(known, e.id)
      [] e.type = "CollectibleEquipped" ->
            HasEquipped(known, e.account, known.equipped[e.account] \cup {e.id})
      [] e.type = "CollectibleUnequipped" ->
            HasEquipped(known, e.account, known.equipped[e.account] \ {e.id})
      [] OTHER -> known

\* What it knows once it has seen the events, one after the other.
ObserveAll(known, events) ==
    LET after[n \in 0 .. Len(events)] ==
            IF n = 0 THEN known ELSE Observe(after[n - 1], events[n])
    IN  after[Len(events)]

Deposit(events) == observer' = ObserveAll(observer, events)

--------------------------------------------------------------------------------
\* What the steps deposit

\* Mutant of UnequipEvents: the helper removes it silently.
UnequipSilently(account, id) == <<>>

\* unequip_collectible_from_account tells when it has removed something.
UnequipEvents(account, id) ==
    IF id \in Range(AccountEquips[account])
    THEN << CollectibleUnequipped(account, id) >>
    ELSE <<>>

PaymentEvents(lessee, id, price) ==
    << RentPayed(id, Collectibles[id].lessor, lessee, price),
       RentalPeriodAdded(id, LesseeCollectibles'[lessee][id].next_rent_block) >>

\* Mutant of ExtensionEvents: the old period is said to be removed at the end.
ExtensionEventsSwapped(lessee, id, blocks) ==
    PaymentEvents(lessee, id, ExtensionPrice(id, blocks)) \o << RentalPeriodRemoved(id) >>

\* The search deposits RentalPeriodAdded, and do_extend_rent does so again.
ExtensionEvents(lessee, id, blocks) ==
    LET due == LesseeCollectibles'[lessee][id].next_rent_block IN
    << RentPayed(id, Collectibles[id].lessor, lessee, ExtensionPrice(id, blocks)),
       RentalPeriodRemoved(id),
       RentalPeriodAdded(id, due),
       RentalExtended(id),
       RentalPeriodAdded(id, due) >>

\* Mutant of RenewalEvents: a renewal only tells when it is due again.
RenewalEventsUnpaid(lessee, id) == Tail(PaymentEvents(lessee, id, 0))

RenewalEvents(lessee, id) == PaymentEvents(lessee, id, RenewalPrice(id, lessee))

CallWithEvents ==
    \E sender \in AccountId, id \in CollectibleId :
        \/ Mint(sender, id) /\ Deposit(<< CollectibleCreated(id) >>)
        \/ Burn(sender, id) /\ Deposit(UnequipEvents(sender, id))
        \/ \E price \in Prices, minimum, maximum \in Periods :
               /\ SetRentable(sender, id, price, minimum, maximum)
               /\ Deposit(UnequipEvents(sender, id) \o << RentMadeAvailable(id) >>)
        \/ \E blocks \in Blocks, recurring \in BOOLEAN :
               /\ Rent(sender, id, blocks, recurring)
               /\ Deposit(PaymentEvents(sender, id, RentPrice(id, blocks)))
        \/ \E blocks \in Blocks :
               RentSpins(sender, id, blocks) /\ Deposit(<<>>)
        \/ SetUnrentable(sender, id) /\ Deposit(<< RentMadeUnavailable(id) >>)
        \/ \E recurring \in BOOLEAN :
               /\ SetRecurring(sender, id, recurring)
               /\ Deposit(<< RentalSetRecurring(id) >>)
        \/ \E blocks \in Blocks :
               /\ ExtendRent(sender, id, blocks)
               /\ Deposit(ExtensionEvents(sender, id, blocks))
        \/ \E blocks \in Blocks :
               ExtendRentSpins(sender, id, blocks) /\ Deposit(<<>>)
        \/ EquipCollectible(sender, id) /\ Deposit(<< CollectibleEquipped(sender, id) >>)
        \/ /\ UnequipCollectible(sender, id)
           /\ Deposit(UnequipEvents(sender, id) \o << CollectibleUnequipped(sender, id) >>)

HookWithEvents ==
    \/ \E id \in CollectibleId, lessee \in AccountId :
           \/ /\ EndRental(id, lessee)
              /\ Deposit(UnequipEvents(lessee, id) \o << RentalEnded(id) >>)
           \/ /\ CancelUnpaidRental(id, lessee)
              /\ Deposit(UnequipEvents(lessee, id) \o << ErrorTransferingRent(id) >>)
           \/ RenewRental(id, lessee) /\ Deposit(RenewalEvents(lessee, id))
           \/ RenewalSpins(id, lessee) /\ Deposit(<<>>)
    \/ FinishRentals /\ Deposit(<<>>)

EventInit == Init /\ observer = NothingObserved

EventNext ==
    \/ CallWithEvents
    \/ BeginBlock /\ Deposit(<<>>)
    \/ HookWithEvents

EventSpec == EventInit /\ [][EventNext]_eventVars

--------------------------------------------------------------------------------
\* Properties

\* The events tell who rents what, and when each rental is due, in the middle of
\* the hook too: no rental begins, moves or ends without an event, and the order
\* of the events of one step is one that an observer can follow.
RentalsFollowFromEvents ==
    \A id \in CollectibleId :
        /\ observer.lessee[id] = IF Rented(id) THEN Collectibles[id].lessee ELSE None
        /\ observer.due[id] = IF Rented(id) THEN Lease(id).next_rent_block ELSE None

\* The events tell what each account has equipped: whichever call or hook takes
\* a collectible away from an account says so (lib.rs:735-747).
EquipmentFollowsFromEvents ==
    \A a \in AccountId : observer.equipped[a] = Range(AccountEquips[a])

\* The events account for every amount that the pallet moves, be it for a rental,
\* an extension or a renewal: the price announced is the price charged.
RevenueFollowsFromEvents ==
    \A a \in AccountId : free_balance[a] = Endowment + observer.earned[a]

================================================================================
