SPECIFICATION FairSpec
CONSTANTS
    j1 = j1
    j2 = j2
    j3 = j3
    f = f
    g = g
    h = h
    Jobs = {j1, j2, j3}
    Fns = {f, g}
    FnOf <- MCFnOf
    Names = {f, g, h}
    Defs <- SharedDefs
    FallibleSlices = {g}
    FallibleArchive = TRUE
    Bundled = TRUE
    Cap = 1
    Mortal = {1}
    Hangs = {j1}
PROPERTIES CallsSettle CancelReleases
CHECK_DEADLOCK FALSE
