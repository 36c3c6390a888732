SPECIFICATION FairSpec
CONSTANTS
    Workers = {w1}
    Served = {"sale", "confirm", "unverified", "edit", "archive", "view", "scan", "publish", "unpublish", "complete", "cancel"}
    ann = ann
    bob = bob
    s1 = s1
    s2 = s2
    s3 = s3
    Sales = {s1, s2, s3}
    CustomerOf <- Customer
    Wanted <- Quantity
    Ceiling = 2
    InitialTotal = 2
    Edits <- Restocks
    MaxFaults = 2
PROPERTIES
    SoldOutIsHealed
