SPECIFICATION FairSpec
CONSTANTS
    m = m
    a = a
    b = b
    Tasks = {a, b}
    Main = m
    MayHang = {b}
    Detachable = {a}
    Racers = {m, a}
INVARIANTS WaitersSound
PROPERTIES AbortIsFinal OrphansEnd AwaitsReturn DetachedCompletes
CHECK_DEADLOCK FALSE
