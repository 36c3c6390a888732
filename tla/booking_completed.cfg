SPECIFICATION Spec
CONSTANTS
    Requests = {r1, r2, r3}
    Jobs <- HappyPath
    MaxCrashes = 0
    MaxWriteErrors = 0
    GatewayRefuses = FALSE
INVARIANT CompletedKeepsAdvance
CHECK_DEADLOCK FALSE
