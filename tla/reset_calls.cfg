SPECIFICATION Spec
CONSTANTS
    u1 = u1  u2 = u2  c1 = c1  c2 = c2
    Null = Null
    User = {u1}
    Call = {c1, c2}
    MaxAttempts = 2
    MaxRows = 2
    MaxFaults = 1
SYMMETRY Symmetry
CHECK_DEADLOCK FALSE
INVARIANTS TypeOK AttemptsBounded ThrottleHolds ChangedOnce CompletedMeansChanged
PROPERTIES OverIsOver ImplementsRequests
