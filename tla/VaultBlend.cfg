SPECIFICATION Spec
CONSTANTS
    u1 = u1
    u2 = u2
    vault = vault
    allocator = allocator
    blend = blend
    mock = mock
    child = child
    Users = {u1}
    Vault = vault
    Allocator = allocator
    MockStrategies = {}
    BlendStrategies = {blend, child}
    SCALAR_12 = 2
    MaxRate = 3
    Children = {child}
    Fragile = {}
    Evictable = {}
    MAX_CHILDREN = 1
    BPS_DENOM = 4
    InitialBaskets <- HalfAndHalf
    WeightOrders = {}
    Authorities = {TRUE}
    KeeperAmounts = {1}
    VIRTUAL_SHARES = 2
    VIRTUAL_ASSETS = 1
    MIN_REDEEM_ASSETS = 1
    InitialStrategy = allocator
    Wallets <- Three
    DepositAmounts = {1, 2}
    MinOuts = {0, 1}
    ShareAmounts = {1}
    MaxRequests = 1
    MaxSupply = 12
    MaxTokens = 3
    YieldAmounts = {}
PROPERTIES LossIsDust
CHECK_DEADLOCK FALSE
