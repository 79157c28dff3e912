\* Lists with room for an entry more than there are collectibles: a collectible is
\* listed, or equipped, twice.
SPECIFICATION Spec
CONSTANTS
    CollectibleId = {c1, c2}
    AccountId = {a1, a2}
    None = None
    MaximumOwned = 3
    MaximumRentablesPerBlock = 2
    ExistentialDeposit = 1
    Endowment = 3
    U32Size = 8
    BalanceSize = 100
    Prices = {1}
    Periods = {1}
    Blocks = {1}
    Amounts = {}
    Fees = {}
    LastBlock = 3
\* The model stops when every identifier is burnt and the last block is reached.
CHECK_DEADLOCK FALSE
SYMMETRY Symmetry
INVARIANTS
    EquippedByParties
    ListedIsOffered
