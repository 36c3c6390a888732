SPECIFICATION Spec
CONSTANTS
    Workers = {w1}
    Served = {"order", "verify", "forged", "captured", "failed", "cash", "direct", "end"}
    OnlineOrders = {o1, o2}
    CashOrders = {k1, k2}
    MaxFaults = 2
    MayFail = TRUE
    MayBeRefused = TRUE
    MayBeRejected = TRUE
SYMMETRY SwapWorkers
INVARIANTS
    MoneyBackOnlyForEnded
    OneBookingPerQuotation
