SPECIFICATION FairSpec
CONSTANTS
    Workers = {w1, w2}
    Served = {"order", "verify", "captured", "cash"}
    OnlineOrders = {o1}
    CashOrders = {k1, k2}
    MaxFaults = 1
    MayFail = FALSE
    MayBeRefused = FALSE
    MayBeRejected = FALSE
PROPERTY CapturedIsBooked
