\* Claims of the source that do not hold: TLC violates each of these by itself.
SPECIFICATION Spec
CONSTANTS
    Workers = {w1, w2}
    Served = {"order", "verify", "captured", "cash"}
    OnlineOrders = {o1}
    CashOrders = {k1, k2}
    MaxFaults = 0
    MayFail = FALSE
    MayBeRefused = FALSE
    MayBeRejected = FALSE
INVARIANTS
    OneBookingPerQuotation
    OneCashOrder
