SPECIFICATION FairSpec
CONSTANTS
    c1 = c1
    c2 = c2
    c3 = c3
    x1 = x1
    x2 = x2
    e1 = e1
    e2 = e2
    Checkouts = {c1, c2}
    Cancels = {x1, x2}
    Editors = {e1}
    CustomerOf <- TwoCustomers
    PerCustomerLimit = 0
    Edits <- LimitEdits
    InitialLimit = 1
    MaxCrashes = 1
INVARIANTS
    CounterCoversLedger
PROPERTIES
    KeepsPromise
    SettlesInTheEnd
CHECK_DEADLOCK FALSE
