SPECIFICATION Spec
CONSTANTS
    c1 = c1
    c2 = c2
    c3 = c3
    vault = vault
    allocator = allocator
    Users = {}
    Vault = vault
    Allocator = allocator
    MockStrategies = {c1, c2, c3}
    BlendStrategies = {}
    SCALAR_12 = 1
    MaxRate = 1
    Children = {c1, c2, c3}
    Fragile = {}
    Evictable = {}
    MAX_CHILDREN = 5
    BPS_DENOM = 10
    InitialBaskets <- Thirds
    WeightOrders = {}
    Authorities = {TRUE}
    KeeperAmounts = {}
    MaxHeld = 4
    MaxSweeps = 3
INVARIANTS TwoSweepsRestore
PROPERTIES SweepingConverges
CHECK_DEADLOCK FALSE
