SPECIFICATION FairSpec
CONSTANTS
    c1 = c1
    c2 = c2
    Consumers = {c1, c2}
    MaxYields = 3
INVARIANTS CreditsSound YieldsInOrder
PROPERTY TeardownReturns
CHECK_DEADLOCK FALSE
