SPECIFICATION FairSpec
CONSTANTS
    Workers = {w1, w2}
    Served = {"sale", "confirm", "edit", "scan", "publish"}
    ann = ann
    bob = bob
    s1 = s1
    s2 = s2
    s3 = s3
    Sales = {s1, s2}
    CustomerOf <- Customer
    Wanted <- Quantity
    Ceiling = 0
    InitialTotal = 1
    Edits <- OneMore
    MaxFaults = 1
INVARIANTS
    StockIsConserved
    TicketsAreEarned
PROPERTIES
    ConfirmedGetsTickets
