SPECIFICATION FairSpec
CONSTANTS
    u1 = u1  u2 = u2
    Null = Null
    Seed = Seed
    Uid = {u1, u2}
    Job = {j1, j2}
    Request <- Requests
    Chunk = 1
    MaxFaults = 1
    Before <- UsersBefore
INVARIANTS TypeOK SameOrigin
PROPERTIES ImplementsReport JobsSettle
CHECK_DEADLOCK FALSE
