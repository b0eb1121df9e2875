SPECIFICATION Spec
CONSTANTS
    vault = vault
    allocator = allocator
    c1 = c1
    c2 = c2
    Users = {}
    Vault = vault
    Allocator = allocator
    MockStrategies = {c1, c2}
    BlendStrategies = {}
    SCALAR_12 = 1
    MaxRate = 1
    Children = {c1, c2}
    Fragile = {c2}
    Evictable = {c2}
    MAX_CHILDREN = 2
    BPS_DENOM = 3
    InitialBaskets <- Balanced
    WeightOrders <- Orders
    Authorities = {TRUE}
    KeeperAmounts = {1, 2}
    VaultFunds = 5
    Amounts = {1, 2, 5}
    YieldAmounts = {1}
    MaxTokens = 6
INVARIANTS TypeOK RebalanceFunded NothingAbandoned
PROPERTIES WeightsComplete RebalanceHitsTargets ValueKeptByKeeper
CHECK_DEADLOCK FALSE
