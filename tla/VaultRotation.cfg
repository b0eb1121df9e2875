SPECIFICATION Spec
CONSTANTS
    u1 = u1
    u2 = u2
    vault = vault
    allocator = allocator
    blend = blend
    mock = mock
    child = child
    Users = {u1}
    Vault = vault
    Allocator = allocator
    MockStrategies = {mock, child}
    BlendStrategies = {}
    SCALAR_12 = 1
    MaxRate = 1
    Children = {child}
    Fragile = {child}
    Evictable = {}
    MAX_CHILDREN = 1
    BPS_DENOM = 4
    InitialBaskets <- HalfAndHalf
    WeightOrders <- AllNativeOrHalf
    Authorities = {TRUE}
    KeeperAmounts = {1}
    VIRTUAL_SHARES = 2
    VIRTUAL_ASSETS = 1
    MIN_REDEEM_ASSETS = 1
    InitialStrategy = allocator
    Wallets <- Two
    DepositAmounts = {1, 2}
    MinOuts = {0}
    ShareAmounts = {1}
    MaxRequests = 1
    MaxSupply = 100
    MaxTokens = 3
    YieldAmounts = {1}
INVARIANTS OnlyActiveHoldsFunds CancelAlwaysPossible
PROPERTIES PriceNeverFalls NoSharesPricedBlind
CHECK_DEADLOCK FALSE
