\* Claims of the source that do not hold: TLC violates each of these by itself.
SPECIFICATION Spec
CONSTANTS
    Workers = {w1, w2}
    Served = {"sale", "confirm", "edit", "scan", "publish", "archive", "complete"}
    ann = ann
    bob = bob
    s1 = s1
    s2 = s2
    s3 = s3
    Sales = {s1, s2, s3}
    CustomerOf <- Customer
    Wanted <- Quantity
    Ceiling = 2
    InitialTotal = 1
    Edits <- Restocks
    MaxFaults = 0
INVARIANTS
    HeldIsNotArchived
    NeverOversold
    CeilingHolds
    OneTicketPerSeat
PROPERTY HistoryStays
CHECK_DEADLOCK FALSE
