\* Blocks with room for one rental, rentals of no block, numbers that wrap.
SPECIFICATION Spec
CONSTANTS
    CollectibleId = {c1, c2}
    AccountId = {a1, a2}
    None = None
    MaximumOwned = 1
    MaximumRentablesPerBlock = 1
    ExistentialDeposit = 1
    Endowment = 3
    U32Size = 4
    BalanceSize = 8
    Prices = {3}
    Periods = {0, 3}
    Blocks = {0, 1, 3}
    Amounts = {}
    Fees = {}
    LastBlock = 3
\* The model stops when a search for a block with room does not return.
CHECK_DEADLOCK FALSE
SYMMETRY Symmetry
INVARIANTS
    TypeOK
    OnInitializeNeverTraps
    RentalsHaveOneLessee
    ScheduleAgreesWithRentals
    RentalsStayScheduled
    OwnersAreIndexed
    OfferedIsFree
PROPERTIES
    LesseeKeepsUntilDue
    TermsHoldWhileRented
    SpinsOnlyInACrowd
    MovedOnlyByACrowd
    PaidBlocksAreGranted
    OnlyZeroOrWrapLeavesBehind
    WithdrawnRentalIsBounded
