\* Funds for a few rents only, so that renewals are paid, refused and ended.
SPECIFICATION EventSpec
CONSTANTS
    CollectibleId = {c1, c2}
    AccountId = {a1, a2}
    None = None
    MaximumOwned = 1
    MaximumRentablesPerBlock = 1
    ExistentialDeposit = 1
    Endowment = 3
    U32Size = 8
    BalanceSize = 16
    Prices = {1}
    Periods = {0, 3}
    Blocks = {0, 1}
    Amounts = {}
    Fees = {}
    LastBlock = 4
\* The model stops when every identifier is burnt and the last block is reached.
CHECK_DEADLOCK FALSE
SYMMETRY Symmetry
INVARIANTS
    RentalsFollowFromEvents
    EquipmentFollowsFromEvents
    RevenueFollowsFromEvents
