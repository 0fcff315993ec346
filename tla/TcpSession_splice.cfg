\* A buffer of three bytes, four bytes from the server, a window of two for bytes to
\* it without end, a socket that takes one byte at a time.
CONSTANTS
    max_size = 3
    StreamLen = 4
    Window = 2
    OutCap = 1
SPECIFICATION FairSpec
INVARIANTS
    NoLostWakeup
    HalfClose
    OrderlyEnd
PROPERTIES
    TerminateEnds
    UsesRing
\* A finished session takes no step.
CHECK_DEADLOCK FALSE
