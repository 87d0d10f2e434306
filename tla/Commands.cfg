SPECIFICATION Spec
CONSTANTS
    Incidents = {i1, i2}
    Commands = {c1, c2, c3, c4}
    None = None
    Empty = Empty
    Parallel = FALSE
    WritesMayFail = TRUE
    MayBeKilled = TRUE
SYMMETRY Interchangeable
INVARIANTS PointerNamesTheOpenOne ReadersMissNothing SingleActive
PROPERTIES NothingIsTakenBack
CHECK_DEADLOCK FALSE
