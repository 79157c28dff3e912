\* A recurring rental is renewed for one block, and the next one is full: it is both
\* the block asked for and the one the search turns to.
SPECIFICATION Spec
CONSTANTS
    None = None
    CollectibleId = {c1, c2}
    AccountId = {a1, a2}
    MaximumOwned = 1
    MaximumRentablesPerBlock = 1
    ExistentialDeposit = 1
    Endowment = 5
    U32Size = 8
    BalanceSize = 100
    Prices = {1}
    Periods = {1, 3}
    Blocks = {1, 2}
    Amounts = {}
    Fees = {}
    LastBlock = 3
CHECK_DEADLOCK FALSE
INVARIANTS
    NothingFailsAfterTransfer
