\* Claims of the source that do not hold: TLC violates each of these by itself.
SPECIFICATION Spec
CONSTANTS
    Requests = {r1, r2, r3}
    Jobs <- OneOfEach
    MaxCrashes = 1
    MaxWriteErrors = 1
    GatewayRefuses = FALSE
INVARIANTS
    RefundedMeansReturned
    RefundOnce
PROPERTY OnlyAllowedTransitions
CHECK_DEADLOCK FALSE
