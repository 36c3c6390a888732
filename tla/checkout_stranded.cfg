\* Claims of the source that do not hold: TLC violates each of these by itself.
SPECIFICATION FairSpec
CONSTANTS
    Workers = {w1}
    Served = {"order", "failed", "captured", "end"}
    OnlineOrders = {o1, o2}
    CashOrders = {k1}
    MaxFaults = 0
    MayFail = TRUE
    MayBeRefused = TRUE
    MayBeRejected = FALSE
PROPERTIES
    CapturedIsBooked
    AdvanceComesBack
