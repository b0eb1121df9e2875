SPECIFICATION Spec
CONSTANTS
    u1 = u1
    u2 = u2
    vault = vault
    allocator = allocator
    blend = blend
    mock = mock
    child = child
    Users = {u1, u2}
    Vault = vault
    Allocator = allocator
    MockStrategies = {child}
    BlendStrategies = {}
    SCALAR_12 = 1
    MaxRate = 1
    Children = {child}
    Fragile = {}
    Evictable = {}
    MAX_CHILDREN = 1
    BPS_DENOM = 4
    InitialBaskets <- HalfAndHalf
    WeightOrders = {}
    Authorities = {TRUE}
    KeeperAmounts = {1}
    VIRTUAL_SHARES = 2
    VIRTUAL_ASSETS = 1
    MIN_REDEEM_ASSETS = 1
    InitialStrategy = allocator
    Wallets <- TwoAndOne
    DepositAmounts = {1, 2}
    MinOuts = {0, 2}
    ShareAmounts = {1}
    MaxRequests = 2
    MaxSupply = 100
    MaxTokens = 4
    YieldAmounts = {1}
INVARIANTS TypeOK EscrowCoversQueue SupplyAccounted Solvent QueuedStayWorthClaiming
PROPERTIES ImplementsQueue QueueStaysCovered
CHECK_DEADLOCK FALSE
