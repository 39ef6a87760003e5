SPECIFICATION Spec
CONSTANTS
    j1 = j1
    j2 = j2
    j3 = j3
    f = f
    g = g
    h = h
    Jobs = {j1, j2, j3}
    Fns = {f, g}
    FnOf <- MCFnOf
    Names = {f, g, h}
    Defs <- SharedDefs
    FallibleSlices = {g}
    FallibleArchive = TRUE
    Bundled = TRUE
    Cap = 2
    Mortal = {1}
    Hangs = {}
INVARIANT TypeOK
INVARIANT InflightExact
INVARIANT HeldIsOpen
INVARIANT NoLostCall
INVARIANT MirrorSound
PROPERTY ImplementsCalls
CHECK_DEADLOCK FALSE
