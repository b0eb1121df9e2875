SPECIFICATION Spec
CONSTANTS
    t1 = t1
    t2 = t2
    confirm1 = confirm1
    confirm2 = confirm2
    reject1 = reject1
    edit1 = edit1
    trust1 = trust1
    revoke1 = revoke1
    Ticks = {t1}
    Calls = {revoke1}
    Handler <- MCHandler
    Strategies <- DcaAndTakeProfit
    Prices = {1, 3}
    Limits <- MCLimits
    InitialAgent <- Trading
    InitialUsdc = 2
    PriceFee = 1
    NetworkFails = FALSE
    USDC_BALANCE_RESERVE = 0
    MIN_PLANNED_USDC = 1
    MaxDay = 0
    MaxPrompts = 1
    MaxRestarts = 0
INVARIANTS RevokedIsEmpty
CHECK_DEADLOCK FALSE
