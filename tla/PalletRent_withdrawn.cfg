\* rent of a collectible that is not rentable.
SPECIFICATION Spec
CONSTANTS
    None = None
    CollectibleId = {c1}
    AccountId = {a1, a2}
    MaximumOwned = 1
    MaximumRentablesPerBlock = 1
    ExistentialDeposit = 1
    Endowment = 5
    U32Size = 8
    BalanceSize = 100
    Prices = {1}
    Periods = {1, 3}
    Blocks = {1, 2}
    Amounts = {}
    Fees = {}
    LastBlock = 3
CHECK_DEADLOCK FALSE
PROPERTIES
    OnlyRentableIsRented
