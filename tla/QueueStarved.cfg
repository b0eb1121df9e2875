SPECIFICATION Service
CONSTANTS
    u1 = u1
    u2 = u2
    vault = vault
    allocator = allocator
    child = child
    Users = {u1, u2}
    Vault = vault
    Allocator = allocator
    MockStrategies = {child}
    BlendStrategies = {}
    SCALAR_12 = 1
    MaxRate = 1
    Children = {child}
    Fragile = {}
    Evictable = {}
    MAX_CHILDREN = 1
    BPS_DENOM = 4
    InitialBaskets <- AllInChild
    WeightOrders = {}
    Authorities = {TRUE}
    KeeperAmounts = {1, 2}
    VIRTUAL_SHARES = 2
    VIRTUAL_ASSETS = 1
    MIN_REDEEM_ASSETS = 1
    InitialStrategy = allocator
    Wallets <- TwoEach
    DepositAmounts = {1, 2}
    MinOuts = {0}
    ShareAmounts = {1}
    MaxRequests = 2
    MaxSupply = 100
    MaxTokens = 4
    YieldAmounts = {}

PROPERTIES RequestsAreSettled
CHECK_DEADLOCK FALSE
