SPECIFICATION FairSpec
CONSTANTS
    r1 = r1
    r2 = r2
    r3 = r3
    Requests = {r1, r2, r3}
    Budgeted = {r1}
    Capacity = 2
    RefillPerTick = 1
    Limit = 2
    Queue = 1
    Window = 2
    MinCalls = 2
    FailurePct = 100
    Cooldown = 1
    HalfOpenMax = 2
    DeadlineTicks = 2
INVARIANTS BulkheadExact ProbesCounted
PROPERTIES AdmittedAreAnswered BreakerRecovers
