SPECIFICATION FairSpec
CONSTANTS
    Requests = {r1, r2, r3}
    Jobs <- Endings
    MaxCrashes = 0
    MaxWriteErrors = 1
    GatewayRefuses = TRUE
PROPERTIES
    ClosedIsRefunded
CHECK_DEADLOCK FALSE
