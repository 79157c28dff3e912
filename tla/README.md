# Verification of pallet-rent

TLA+ models of the rent pallet (`src/pallets/rent/src/lib.rs`), of the runtime that
applies its calls and of the node that runs it, the TLC runs that check them on small
instances, and theorems that TLAPS proves for every value of the parameters. Line
numbers below are those of `lib.rs` unless a file is named.

## The system

`pallet_rent` is a Substrate pallet: an account mints a collectible, offers it at a
price per block, another account rents it for a number of blocks, once or
recurring, and a hook at the start of every block charges for or ends the rentals
that fall due. The repository also holds a runtime (`src/runtime`), which fixes the
pallet's parameters, and a node (`src/node`), which is Substrate's template.

### Components

| Component | State | Operations | Modelled by |
| --- | --- | --- | --- |
| Calls of the lessor | `Collectibles`, `LessorCollectibles`, `RentableCollectibles` | `mint`, `burn`, `set_rentable`, `set_unrentable` | `PalletRent` |
| Calls of the lessee | `LesseeCollectibles`, `PendingRentals` | `rent`, `set_recurring`, `extend_rent` | `PalletRent` |
| Equipment | `AccountEquips` | `equip_collectible`, `unequip_collectible` | `PalletRent` |
| Block hook | the loop of `do_process_rental_periods` over a copy of `PendingRentals` | `on_initialize` | `PalletRent` |
| Search for a block | – | `append_pending_rental_to_available_block` | `RentStorage` |
| Identifiers | the block's seed, the index of the extrinsic, the block number | `gen_collectible_id` | `CollectibleIds` |
| Events | what an observer has seen | `deposit_event` in every call and in the hook | `RentEvents` |
| What the pallet promises | owners and leases | letting, prolonging, settling | `Tenancy`, abstract |
| Application of extrinsics (`src/runtime/src/lib.rs:280-335`) | who signed the extrinsic being applied and who is its caller; the sudo key | charge the fee, dispatch in a storage layer, undo on an error; `sudo_as`, `set_key` | `Dispatch` |
| Bounded vectors (FRAME) | – | `try_push`, `try_append`, `retain` | `BoundedVec` |
| Balances, executive (FRAME) | free balances, block number | `transfer` with KeepAlive, other transfers, the next block | external parts of `RentStorage`, `PalletRent` |
| Runtime configuration | – | `src/runtime/src/lib.rs:52,62,207-213,251` | CONSTANTS |
| Node service, command line (`src/node/src/service.rs`, `command.rs`) | the parts put together so far, background tasks | start, failure of a step, end of a task, stop, restart | `NodeService` |
| RPC extensions, benchmarks, mock runtime | – | – | not modelled |

### How they interact, and what is hard

The calls and the hook share the storage maps. A rental is kept in three of them:
`Collectibles` has its lessee, `LesseeCollectibles` its terms and the block it is
due in, `PendingRentals` lists it under that block. Calls run one after the other,
each in a storage transaction; the hook runs before them in each block, is **not**
in a transaction, and unwraps what it reads (601-605, 619): if one of the three maps
disagreed, the hook would panic, and no block could be built.

Hard behaviours: the hook works on a copy of the block's entry while renewals write
to the map, and then removes the entry (595, 662); the search for a block with room
(702-708); payments that may fail in the middle of the hook (624); capacities; zero
periods; block numbers and prices that wrap, since release builds do not check for
overflow; and long sequences of legal calls (`set_unrentable` during a rental). Around
the pallet: calls that write before they fail and rely on the dispatch to undo it;
identifiers that stay unique although the random seed repeats; events that have to
tell an observer everything, in an order it can follow; and a node whose background
tasks run, and may end, while it is still being put together. There is no network
protocol, no concurrency inside a block and no crash recovery in this code.
`PROJECT.json` lists the hazards with their lines.

What makes each component correct: the three maps agree and the hook never panics;
a lessee has its collectible until the rental is due and, but for full blocks, gets the
blocks it paid for; no rental is left behind but those of no block and those that wrap;
the terms do not change during a rental; the index of owners and the equipment agree
with the collectibles; the hook ends; a withdrawn rental ends; a refused call costs its
fee and nothing else; only the sudo key makes another account pay; no identifier is
used twice; leases, equipment and revenue can be rebuilt from the events; the node joins
the network whole and goes down with its consensus tasks.

## The modules

| Module | What it is |
| --- | --- |
| `BoundedVec` | Bounded vectors; `Retain` is written with positions, not recursion, so that it can be proved about |
| `RentStorage` | Parameters, types and variables; the helpers of the pallet |
| `PalletRent` | One action per call, the hook step by step, the environment; `Spec` and `FairSpec` |
| `RentProperties` | Invariants, action properties, liveness, and the statements of documents and comments that the code contradicts |
| `Tenancy` | Abstract: what owner and tenant are promised, without schedule, lists, capacities or loop |
| `TenancyRefinement` | The mapping from the pallet's maps to `Tenancy` (extends `RentProperties`) |
| `Dispatch` | The pallet behind the runtime's dispatch: fees, the error of each call, the storage layer (extends `TenancyRefinement`) |
| `RentEvents` | The pallet with its events, and an observer of them (extends `RentProperties`) |
| `CollectibleIds` | Blocks, extrinsics and the identifiers that mint generates in them |
| `NodeService` | Start, run and stop of the node |
| `MCPalletRent`, `MCDispatch`, `MCRentEvents`, `MCCollectibleIds`, `MCNodeService` | Instances for TLC (symmetry; the parameters are in the `.cfg` files) |
| `RentProofs` | What `retain` leaves of a vector of any length; type correctness |
| `ScheduleProofs` | The inductive invariant of the schedule, and what follows from it |
| `LeaseProofs` | Rentals over time: none is forgotten, which are left behind, what is paid for is granted; when the search for a block returns |
| `OwnershipProofs` | Owners, equipment, offers and terms; when a withdrawn rental ends |
| `TenancyProofs` | The pallet refines `Tenancy`; `Dispatch` refines the pallet; who pays; what is listed; which calls panic |
| `EventProofs` | The observer of the events is right |
| `NodeServiceProofs` | The safety invariants of the node, and the safety half of its liveness |
| `CollectibleIdsProofs` | Identifiers are unique |

### State and actions

The variables of `RentStorage` have the names of the storage items. A map is a total
function with `None`, or the empty vector, where the code has no entry. `rentals` is
what is left of the loop's copy, `phase` says whether the hook or the extrinsics of
`block_number` run, `spinning` is set when a search never returns (then nothing else
happens), and `generated` holds the identifiers that were minted.

A call is one action whose guard is the conjunction of its checks: FRAME rolls back a
call that fails, so a failed call is no step of `PalletRent`, also where the code
writes before it checks (`do_mint`, `set_rentable`); `Dispatch` has that step and shows
that it is harmless. A call that panics is left out of the block, so
the `unwrap` of the price in `do_rent_collectible` is a guard too. `Rent` and
`RentSpins` (`ExtendRent` and `ExtendRentSpins`, `RenewRental` and `RenewalSpins`)
tell apart whether the search returns.

The hook is `BeginBlock` (the executive starts a block; the hook reads the block's
entry), one of `EndRental`, `CancelUnpaidRental`, `RenewRental` per rental, and
`FinishRentals` (the entry is removed). Where the code would panic no action is
enabled, and `OnInitializeNeverTraps` says that this is never so.

`Init` is the state after the hook of block 1. `BalancesTransfer` and `ChargeFee` stand
for all other movements of funds; the first includes the reaping of accounts. They are
not enabled in the hook, nor does anything else interleave with a call or the hook:
execution of a block is sequential.

### Dispatch

`MintResult`, `RentResult` and the others are tables: the checks of a call in the order
of the code, each with its error (168-204); the first that fails is what the call
returns. An extrinsic is two steps, `Charge` (the signed extensions, of which the last
withdraws the fee) and `Apply` (the call succeeds, is refused, or is one of the balances
pallet). `Refused` gives `AfterError` what the call had written by then: the collectible
of `do_mint`, the terms of `set_rentable`. The real `AfterError` drops it; its mutant
keeps it, as dispatch without a storage layer would, and the indexes break.

The caller of the call need not be the signer: the runtime mounts `pallet_sudo`
(`src/runtime/src/lib.rs:280-283`, `301`), and its `sudo_as` has any call dispatched with
another account as its caller, in an extrinsic that the account `sudo_key` signs
(`MayCallFor`). `SetKey` hands that right on. Both take the fee and give it back, so the
signer only has to be able to pay it (`CanPayFee`); during the call nothing reads the
balance that the fee is missing from, since the caller is another account. `sudo_as` for
oneself is left out: it does what an extrinsic of one's own does. What the sudo key
dispatches as root is not modelled: the pallet has no such call, and those of other pallets
(`set_storage`, `set_code`, `force_transfer`, `set_balance`) can replace any state, so that
nothing could be said of it.

### CollectibleIds

An identifier is the payload `<<seed, index, block>>` of the hash: the hash is taken to
have no collisions, the seed is not. `InitializeBlock` takes any seed, also one of an
earlier block. Every applied extrinsic advances the index, whatever its call returns;
one that panics is not applied. Extrinsic 0 is the timestamp inherent, and there is no
batch call in the runtime and `sudo_as` wraps one call, so an extrinsic mints at most
once. `PalletRent!Mint` uses the result: its identifier is one that was never generated.

### RentEvents

Each action of `PalletRent` is conjoined with `Deposit` of its events, in code order.
`Observe` is what an indexer does with one event, and `ObserveAll` does so with the events
of a step one after the other; the indexer is not in this repository, and reads only what
the events carry. `burn` deposits nothing of its own, so existence and
ownership cannot be rebuilt, and no property says so.

### Tenancy

`Tenancy` has an owner and a lease per collectible, the funds, and a clock that is either
opening a block or open. Leases are let, prolonged and set to renew while the block is
open, and renewed or ended while it is opening, if they are due now; the block is open
only when none is left. A rental of zero blocks is due again at once and is exempt.
Where the pallet itself leaves it open `Tenancy` does too: a lease may be prolonged to any
block for any amount, and a lease that is due may be ended. What an extension costs and
where a full block puts it is `PaidBlocksAreGranted`.
`TenancyRefinement` maps `Collectibles` and `LesseeCollectibles` to it; a step of the
schedule, the lists or the equipment alone is a stutter, and so are a search that never
returns and a refused call.

### NodeService

The start is a sequence of steps, those of `new_partial` and of `new_full`
(`service.rs:39-148`, `158-340`). `Advance` takes the next one and spawns its task, or
passes over it when the configuration does not ask for it (`Needed`); `FailToStart` is
the `?` of a fallible one. A task may end at any time from its spawning on. `Down` drops
the task manager, and with it all tasks. The commands differ in what they put together
(`command.rs:53-211`): nothing, the chain specification, `new_partial`, or the node; a
benchmark binds only the client, so its task manager is dropped before it runs.
`Restart` begins anew with any arguments.

## The runs

| Run | Question | Properties |
| --- | --- | --- |
| `crowded` | What holds for all parameters: capacities of one, zero periods, u32 of size 4 and balances of size 8, so that blocks are full and block numbers and prices wrap | `TypeOK`, `OnInitializeNeverTraps`, `RentalsHaveOneLessee`, `ScheduleAgreesWithRentals`, `RentalsStayScheduled`, `OwnersAreIndexed`, `OfferedIsFree`, `LesseeKeepsUntilDue`, `TermsHoldWhileRented`, `SpinsOnlyInACrowd`, `MovedOnlyByACrowd`, `PaidBlocksAreGranted`, `OnlyZeroOrWrapLeavesBehind`, `WithdrawnRentalIsBounded` |
| `lifecycle` | What becomes of rentals over several renewals, with room in the blocks and nothing wrapping, while accounts move funds and are reaped; liveness | `LesseeKeepsUntilDue`, `WithdrawnRentalIsBounded`, `BlocksAreFinished`, `WithdrawnRentalEnds` |
| `duplicates` | Lists longer than there are collectibles, so that `set_rentable` and `equip_collectible` repeat an entry: is every copy taken out? | `EquippedByParties`, `ListedIsOffered` |
| `refused` | What do refused calls, and the fees of all calls, leave behind? Capacities of one, so that `mint` and `set_rentable` fail after they have written. Which calls panic? Who pays, when the sudo key calls for others? Do pallet and dispatch implement `Tenancy`, with full blocks and wrapping block numbers? | `OwnersAreIndexed`, `OfferedIsFree`, `PanicsAreForeseen`, `NobodyPaysForOthers`, `ImplementsTenancy` |
| `fresh` | Are identifiers unique although seeds repeat? | `IdentifierIsFresh`, `BurntStaysBurnt` |
| `indexer` | What can be rebuilt from events? | `RentalsFollowFromEvents`, `EquipmentFollowsFromEvents`, `RevenueFollowsFromEvents` |
| `start` | All commands and configurations of the node, any step failing, any task ending | `JoinsTheNetworkWhole`, `CommandsStayOffline`, `RemoteKeystoreIsRefusedFirst`, `ConsensusFailureStopsTheNode`, `StartEnds` |
| `withdrawn` | Is only what is rentable rented? (no) | `OnlyRentableIsRented` |
| `fullblock` | Does a full block delay a rental? (no, it shortens it) | `FullBlockDelaysRental` |
| `endless` | Does nothing fail after the payment in the hook? (a renewal for one block meets a full next block, and the search never returns) | `NothingFailsAfterTransfer` |
| `lessorequips` | Is the lessor kept from equipping what is rented? (no) | `LessorDoesNotEquipRented` |
| `burnt` | Is what is listed rentable? (no) | `ListedIsRentable` |

The last five end in a violation: each shows that the code does something other
than the document, comment or test that its finding in `PROJECT.json` quotes. The
properties of `crowded` say how far two of them go. A block is full, and a search goes on
forever, only because of as many rentals as a block has room for, never because of a stale
or double entry (`SpinsOnlyInACrowd`, `MovedOnlyByACrowd`); and a lessee is granted other
blocks than it has paid for only in such a crowd (`PaidBlocksAreGranted`). An extension
whose search comes back to the block that the rental was due in anyway changes no rental;
that the lessee has paid for it in vain is the same crowd, which the property does not
mention, as it speaks of steps that change the due block.

Met while modelling, and small enough to need no run: a rental of zero blocks, which a
minimum period of 0 allows, is scheduled in the block it is made in, whose hook has run,
and never ends; `rent` never returns `AlreadyRented` (306), because `RentNotAvailable`
(305) covers it; an extension deposits `RentalPeriodAdded` twice (586, 712);
`unequip_collectible` deposits `CollectibleUnequipped` also for what was not equipped, and
twice for what was (434, 742). `extend_rent` compares a block number with the
maximum period (535-539), so that the maximum of an extended rental is in effect the number
of its last block; the pallet's tests expect as much (`tests.rs:546-585`). The models do as
the code does in all five. Two panics
can be met (`PanicsAreForeseen`): `rent` of a collectible that was minted and never offered
(493), and `extend_rent` at a price that does not fit into u32 (542). A call that panics is
left out of the block.

### Bounds

- Two accounts: each can be the other's lessor and lessee; a rental has two parties,
  and an account that is neither can only call what the checks refuse it, or rent what
  either of the two could rent. Two collectibles: enough for two rentals to contend
  for a block, and to share one lessee's funds with a transfer.
- `LastBlock` 3 or 4, but for `refused`: a rental, its renewal and the renewal of the
  renewal; `BeginBlock` is not enabled after it. Rentals may be due later.
- `MaximumRentablesPerBlock` 1 (`crowded`, `refused`: the requested block, the following
  block and the block being processed fill up) or 2 (`lifecycle`, `duplicates`: as many as
  there are collectibles, so never full). The chain has 100; the search does not depend on
  the number.
- `MaximumOwned` 1 bounds `LessorCollectibles`, `RentableCollectibles` and
  `AccountEquips`; each is full in many states. With 3 (`duplicates`) two copies of one
  collectible and one of the other fit.
- `U32Size` 3 or 4 (wraps) or 8 to 16 (does not, within the blocks modelled), `BalanceSize`
  likewise. The endowments of all accounts together stay below `BalanceSize`.
- `crowded`: with room for one rental, one other collectible is a crowd; both searches that
  never return and rentals that are moved occur.
- `lifecycle`: a maximum of 4 lets a rental that is due in block 2 be extended by two
  blocks; the transfer of 3 empties an account.
- `CHECK_DEADLOCK FALSE`: the model stops at `LastBlock` once every identifier is
  burnt, and when it spins. That the hook does not stop is `OnInitializeNeverTraps` and
  `BlocksAreFinished`.
- `refused`: every extrinsic takes two steps, and its fee makes the balances of otherwise
  equal states differ, so this run has the smallest bounds that still reach what it asks
  about: one period, one price that fits into a u32 of size 3 and one (3) that does not,
  endowments of 3 with fees of 1, so that some accounts cannot pay both fee and rent, and
  blocks up to 2, with due blocks that wrap to 0 and 1. In it blocks are full, the search
  spins, rentals are extended, and both panics are met. Rentals of no block
  are in `crowded`, and in the theorems about `Dispatch`.
- `fresh`: three blocks of the inherent and three more extrinsics, two seeds, so that a
  seed repeats in at least two of the blocks; a mint, a burn and another mint fit in one
  block.
- `indexer`: `Amounts` and `Fees` are empty, since those have no event of the pallet; the
  capacity of one block, zero periods and funds for two rents let every action of the
  hook happen.
- `start`: `MaxEnded` 8 is the number of tasks, so it bounds nothing.
- Symmetry under permutations of accounts and of collectibles is used where no liveness
  is checked, so not in `lifecycle` and `start`.

### Fairness

`FairSpec`, the specification of `lifecycle`, assumes weak fairness of `BeginBlock` and
of the steps of the hook: the chain produces blocks (Aura gives every slot an author)
and executes the hook of a block to its end before anything else. It assumes nothing of
accounts: nobody has to call anything. `BeginBlock` stays enabled during the extrinsics
of a block, so weak fairness is enough.

`NodeService!Fairness`: the process takes the next step of its start or fails in it, the
future it waits for is polled once an essential task has ended, and a command that is
not the node comes to its end. Nobody has to stop or restart it, and no task has to end.

## The proofs

TLAPS proves, for any accounts, collectibles, capacities, prices, periods and integer
sizes that satisfy the named assumptions: `SizesAssumption`, `NoneAssumption`,
`InputsAssumption` and `NoneIsNoLease` say that sizes are natural numbers, that `None`
is not a value, and that the inputs have their types; `BoundsAssumption` says that the
bounds of `CollectibleIds` are natural numbers; `ExtrinsicAssumption` that `None` is not an
extrinsic. No theorem has a hypothesis of its own: full blocks, periods of zero and numbers
that wrap are covered by all of them.

Types and the schedule:

- `RentProofs!TypeCorrect`: `Spec => []TypeOK`. `TypeOK` is inductive. Its content is
  in the bounded vectors (`PushKeepsCapacity`, `RetainKeepsCapacity`,
  `AvailableBlockHasRoom`) and in the balances (`TransferType`). `RetainProperties`:
  `Retain` keeps exactly what is not dropped, from distinct positions.
- `ScheduleProofs!RentalInvariant`: `Spec => []RentalInv`, with `RentalInv` the
  conjunction of `TypeOK`, `RentalsHaveOneLessee` and `ScheduleAgreesWithRentals`. Neither
  of the last two is inductive alone: that an entry of the schedule is not stale needs
  that its collectible has one lessee and one entry, and that it is entered once needs
  that entries are rentals. `Scheduled` makes the invariant hold inside the hook as
  well, where the map still has the entries that the loop has done. Every step either
  leaves the schedule alone (`SameSchedule`), or is the old schedule without one
  collectible (`NewSchedule`) and maybe one new entry of it (`NewScheduleWithEntry`).
- `OneLessee`, `ScheduleAgrees`, `HookNeverTraps` (no `unwrap` of the hook fails) follow
  from `RentalInv`; so does the action property of `LesseeIsSafeUntilDue`.

Rentals over time (`LeaseProofs`). The lemmas `RentEffect`, `ExtendRentEffect` and the like say
once what each step does to the rentals; all later proofs use them.

- `NoRentalIsForgotten`: `RentalsStayScheduled`, which is inductive relative to
  `RentalInv`; with it `HookTakesUpWhatIsDue`: the hook that begins a block takes up every
  rental of at least one block that is due in it. It does not say that this block is still
  to come: with a period that wraps a rental may be scheduled in a past block.
- `EveryRentalHasAnEnd`: that is `OnlyZeroOrWrapLeavesBehind`. A rental that is due ahead of
  the clock stays so (`Ahead`), because the clock passes a block only when the hook has
  settled what was due in it (`RentalInv`, `RentalsStayScheduled`); a search ends in the block
  asked for or in the following one (`SearchLooksAhead`), and both are ahead unless they wrap.
- `LesseeGetsWhatItPaysFor`: the action property `PaidBlocksAreGranted`, with full blocks and
  prices that wrap as well. Each of the three steps that set a due block pays the product
  of price and blocks in its own width, and a search that does not end in the block asked
  for has found it crowded (`FullListIsCrowd`) or, in the hook, asked for the current block.

The search for a block (`LeaseProofs`):

- `OnlyACrowdStopsTheChain` and `OnlyACrowdMovesARental`: `SpinsOnlyInACrowd` and
  `MovedOnlyByACrowd`. A list without room names `MaximumRentablesPerBlock` other
  collectibles, each once (`FullListIsCrowd`, which gives the injection), and each is due
  in that block, since entries are rentals and distinct (`RentalInv`). `extend_rent` has
  taken its own entry out before it searches; a renewal asks the following block, whose
  entry, unlike that of the current one, is up to date.
- `HookCanGoOn` and `EveryTurnShortens`: whatever is left of the hook's loop, its reads are
  there and its search returns, unless the following block is taken by as many other
  rentals as it has room for (`HookIsCrowded`); and each step of the hook takes one rental
  from the loop, or ends it, or is that search. This is the invariant and the variant of
  `BlocksAreFinished`; what is left to TLC is that fairness then gets it to its end.

Owners and equipment (`OwnershipProofs`), for all parameters:

- `OwnershipInvariant`: `OwnershipInv` is `RentalInv` with `OwnersAreIndexed`,
  `EquippedByParties` and `OfferedIsFree`. `RentalInv` is needed since the end of a rental
  unequips the lessee that the schedule names, which must be the lessee in `Collectibles`.
  `OwnersIndexed`, `PartiesEquip` and `OffersAreFree` state the three.
- `TermsAreKept`: the action property `TermsHoldWhileRented`.
- `WithdrawnComesBack`: `WithdrawnRentalIsBounded`: a rented collectible that is withdrawn
  stays so, and its end is moved no further than the block numbered as its maximum, by no
  extension, renewal or full block: a full block only brings the end forward
  (`FollowingIsSoon`). The exception is a rental that had been left behind, which a full
  block may bring back. It is what bounds the wait in `WithdrawnRentalEnds`.

Refinement (`TenancyProofs`), for all parameters, with full blocks and numbers that wrap:

- `PalletImplementsTenancy`: `Spec => T!Spec` under the mapping of `TenancyRefinement`.
  One lemma per action says which step of `Tenancy` it is; the mapped lease is of the
  abstract type because two maps agree (`RentalInv`), and a block of `Tenancy` may open
  only because no due rental is forgotten (`RentalsStayScheduled`).
- `DispatchImplementsRent`: `DispatchSpec => Spec`. A charge is `ChargeFee` or,
  for the sudo key, a stutter, an applied call is that call, whoever signed it, and a refused
  one a stutter, since `AfterError` drops what was written.
  `DispatchImplementsTenancy` and `DispatchKeepsOwnership` follow: whatever holds of the
  pallet holds of it behind the dispatch, with calls that fail half-way.
- `OnlySignersAndLesseesPay`: the action property `NobodyPaysForOthers`, from `RentalInv`
  (the lessee that the hook charges is the one in `Collectibles`, and its rental is due) and
  `MayBeApplied`, an inductive invariant of `Dispatch`: what is being applied was signed by
  its caller or by the sudo key.

Lists and panics (`TenancyProofs`), for all parameters:

- `TermsAreThere`: `TermsAreComplete`, an inductive invariant: a collectible has both a price
  and a maximum, or neither, and then it is not rented or rentable; and what is listed
  is rentable. The list may name what is burnt; that this does no harm needs that `mint`
  reuses no identifier. `ListHoldsOnlyOffers`: `ListedIsOffered` follows, for any capacity
  and any number of copies.
- `PanicsForeseen`: `PanicsAreForeseen`, from `TermsAreThere` and the types. `RentReturns` and
  `ExtendRentReturns` say what the first failing check of the two calls is.

Events (`EventProofs`), for all parameters:

- `EventsImplementRent`: `EventSpec => Spec`, so that the invariants above may be used.
- `EventInvariant`: `EventInv` is `RentalInv` with the type of what the observer knows
  and the three properties of the run `indexer`; `EventsTellRentals`, `EventsTellEquipment`
  and `EventsTellRevenue` state them. A step deposits at most five events, and
  `SeenInOrder` unfolds `ObserveAll` for those; `RentalInv` tells that the lessee whose
  rental ends is the one the observer knows.

Identifiers and the node:

- `CollectibleIdsProofs!IdsLieBehindTheClock`, from which `IdentifiersAreUnique` and
  `BurntIdsStayBurnt` follow: every identifier given out names an earlier block, or an
  earlier extrinsic of this block. Freshness is not inductive alone, since it does not
  say that what was generated lies behind the clock. It holds for any set of seeds, one
  seed included: the seed plays no part in it.
- `NodeServiceProofs!ServiceInvariant`: `ServiceInv` says what is left of the order of the
  start while its steps are taken: the network is last (`NetworkLast`), the keystore is
  checked before anything is spawned (`KeystoreFirst`), and a needed step that is no longer
  to be taken has spawned its task (`NothingIsSkipped`). `NetworkJoinedWhole`,
  `DatabaseCommandsStayOffline` and `KeystoreRefusedFirst` follow, for
  any number of tasks that end.
- `FailureIsNotForgotten`: a consensus task that has ended stays so until the service goes
  down, and belongs to a node that is starting or running. `StartGetsShorter`: a step of a
  start leaves fewer steps, or is the end of one more of finitely many tasks.

Model-checked only:

- The liveness properties `BlocksAreFinished`, `WithdrawnRentalEnds`,
  `ConsensusFailureStopsTheNode` and `StartEnds`: TLAPS cannot reason about fairness. What
  of each is safety is proved: `HookCanGoOn` and `EveryTurnShortens`, `WithdrawnComesBack`,
  `FailureIsNotForgotten`, `StartGetsShorter`.
- The properties of the runs that end in a violation: each is refuted by one behaviour.

The definitions named as mutants in comments (`Owned`, `UnscheduleForgotten`, ...) are
wrong on purpose: each is a plausible mistake in the definition after it, and one of
the properties is violated when it takes that definition's place.

## Not modelled

- Weights (all calls declare zero), nonces, locks and reserves, issuance.
- What `pallet_sudo` dispatches as root, and `sudo_unchecked_weight`: such calls may replace
  any state. `sudo_as` and `set_key` are in `Dispatch`.
- Timestamp, Aura and GRANDPA as pallets: they do not write the rent pallet's storage.
- Collisions of the hash in `gen_collectible_id`.
- Forks, block import, gossip and finality: Substrate's code, not this repository's. The
  model is of one chain's execution, and of the node that assembles those parts.
- `rpc.rs` (two library modules merged; that it may fail is a step of `NodeService`),
  `benchmarking.rs` (sample extrinsics), `mock.rs` and `tests.rs` (read for what they say
  of the pallet), the keys and names of `chain_spec.rs`. They keep no state.

## Plan

Done, in this order: `BoundedVec`, `RentStorage`, `PalletRent`, their properties and
runs; type correctness and the invariant of the schedule; fees and `Dispatch`;
`CollectibleIds` with its proofs; `RentEvents`; `Tenancy` and the refinement;
`NodeService`.

Then the proofs: the invariant of the schedule, identifiers, rentals over time, owners
and equipment, the refinements, the events, the node; then who pays, what is listed and
which calls panic, the search for a block, and the safety half of the liveness properties.

Every invariant and action property of the passing runs is now a theorem, without
hypotheses on the parameters. What is left is liveness under fairness, which is out of the
prover's reach.
