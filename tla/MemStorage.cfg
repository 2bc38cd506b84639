\* Two builders, or one reset and used again, and three calls of the store.
SPECIFICATION Spec
CONSTANTS
    Froms = {s1}
    Rcpts = {r1}
    Chunks = {a, b}
    Nil = Nil
    Blank = Blank
    InitialCap = 1
    IdBound = 2
    RcptsBound = 1
    DataBound = 3
    StoreBound = 3
SYMMETRY ChunkSymmetry
INVARIANTS
    TypeOK
    FinalizedUnchanged
    StoredIntact
    MetricsCover
\* The bounds stop the caller.
CHECK_DEADLOCK FALSE
