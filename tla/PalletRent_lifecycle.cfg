\* Blocks with room for every rental, periods of at least a block, and no number
\* that wraps.  Accounts move funds and are reaped between two renewals, and the
\* hook is run in every block.
SPECIFICATION FairSpec
CONSTANTS
    CollectibleId = {c1, c2}
    AccountId = {a1, a2}
    None = None
    MaximumOwned = 1
    MaximumRentablesPerBlock = 2
    ExistentialDeposit = 1
    Endowment = 3
    U32Size = 16
    BalanceSize = 100
    Prices = {1}
    Periods = {1, 4}
    Blocks = {1, 2}
    Amounts = {3}
    Fees = {}
    LastBlock = 4
\* The model stops when every identifier is burnt and the last block is reached.
CHECK_DEADLOCK FALSE
PROPERTIES
    LesseeKeepsUntilDue
    WithdrawnRentalIsBounded
    BlocksAreFinished
    WithdrawnRentalEnds
