\* Three calls of one reader, two bytes, two deadlines.
SPECIFICATION Spec
CONSTANTS
    WriteBound = 2
    TimeBound = 2
    CallBound = 3
INVARIANTS
    TypeOK
    NothingLost
    EOFIsFinal
PROPERTIES
    CallsReturn
    DeadlineEnds
\* The reader may stop calling, and nobody has to write.
CHECK_DEADLOCK FALSE
