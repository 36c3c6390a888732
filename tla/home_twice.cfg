SPECIFICATION Spec
CONSTANTS
    Events = {"e1", "e2"}
    Homes = {}
    MaxMoves = 0
INVARIANT PlanIsItsBrief
CHECK_DEADLOCK FALSE
