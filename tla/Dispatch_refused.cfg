\* Capacities of one, so that mint and set_rentable are refused after they have
\* written; fees that a lessee may just be able to pay; numbers that wrap, and a
\* price beyond u32.
SPECIFICATION DispatchSpec
CONSTANTS
    CollectibleId = {c1, c2}
    AccountId = {a1, a2}
    None = None
    MaximumOwned = 1
    MaximumRentablesPerBlock = 1
    ExistentialDeposit = 1
    Endowment = 3
    U32Size = 3
    BalanceSize = 8
    Prices = {1, 3}
    Periods = {1}
    Blocks = {1}
    Amounts = {}
    Fees = {1}
    LastBlock = 2
\* The model stops when nobody can pay a fee any more.
CHECK_DEADLOCK FALSE
SYMMETRY Symmetry
INVARIANTS
    OwnersAreIndexed
    OfferedIsFree
    PanicsAreForeseen
PROPERTIES
    NobodyPaysForOthers
    ImplementsTenancy
