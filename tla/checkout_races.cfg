SPECIFICATION Spec
CONSTANTS
    Workers = {w1, w2}
    Served = {"order", "verify", "forged", "captured", "failed", "cash", "direct", "end"}
    OnlineOrders = {o1}
    CashOrders = {k1, k2}
    MaxFaults = 0
    MayFail = TRUE
    MayBeRefused = FALSE
    MayBeRejected = FALSE
SYMMETRY SwapWorkers
INVARIANTS
    NoBookingUnpaid
    RefundedOnce
