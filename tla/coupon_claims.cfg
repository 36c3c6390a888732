\* Claims of the source that do not hold: TLC violates each of these by itself.
SPECIFICATION Spec
CONSTANTS
    c1 = c1
    c2 = c2
    c3 = c3
    x1 = x1
    x2 = x2
    e1 = e1
    e2 = e2
    Checkouts = {c1, c2}
    Cancels = {x1}
    Editors = {e1, e2}
    CustomerOf <- TwoCustomers
    PerCustomerLimit = 1
    Edits <- TermEdits
    InitialLimit = 2
    MaxCrashes = 1
INVARIANTS
    NeverDrifts
    PerCustomerHolds
    TermsStayCoherent
CHECK_DEADLOCK FALSE
