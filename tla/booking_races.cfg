SPECIFICATION Spec
CONSTANTS
    Requests = {r1, r2, r3}
    Jobs <- OneOfEach
    MaxCrashes = 1
    MaxWriteErrors = 0
    GatewayRefuses = TRUE
SYMMETRY Symmetric
INVARIANTS
    RefundOnce
PROPERTIES
    ClosedStaysClosed
    KeepsPromise
CHECK_DEADLOCK FALSE
