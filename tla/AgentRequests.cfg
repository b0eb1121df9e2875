SPECIFICATION Spec
CONSTANTS
    t1 = t1
    t2 = t2
    confirm1 = confirm1
    confirm2 = confirm2
    reject1 = reject1
    edit1 = edit1
    trust1 = trust1
    revoke1 = revoke1
    Ticks = {t1, t2}
    Calls = {confirm1, confirm2, reject1}
    Handler <- MCHandler
    Strategies <- DipAndTakeProfit
    Prices = {1, 3}
    Limits <- MCLimits
    InitialAgent <- Trading
    InitialUsdc = 3
    PriceFee = 0
    NetworkFails = FALSE
    USDC_BALANCE_RESERVE = 0
    MIN_PLANNED_USDC = 1
    MaxDay = 1
    MaxPrompts = 1
    MaxRestarts = 0
SYMMETRY Symmetry
INVARIANTS TypeOK OnePromptOneSwap SuggestionBlocksPrompt BudgetOverrunBounded
CHECK_DEADLOCK FALSE
