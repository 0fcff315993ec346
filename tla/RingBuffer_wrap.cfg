\* Three addresses and a stream long enough to wrap around several times.
CONSTANTS
    max_size = 3
    StreamLen = 9
SPECIFICATION Spec
INVARIANTS
    ReadInOrder
    LentIntact
\* The stream ends.
CHECK_DEADLOCK FALSE
