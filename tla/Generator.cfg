SPECIFICATION FairSpec
CONSTANTS
    c1 = c1
    c2 = c2
    Consumers = {c1, c2}
    MaxYields = 3
    Uses <- AnyUse
INVARIANTS DeliversAndReleases NilAtEnd
PROPERTY NextReturns
CHECK_DEADLOCK FALSE
