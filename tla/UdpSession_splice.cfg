\* A pool of one datagram (so two are queued), batches of two, a socket that takes
\* one piece. UDP_IN_UDP: three datagrams, UDP_IN_TCP: two, from either side.
CONSTANTS
    UDP_POOL_SIZE = 1
    num = 2
    MaxLoad = 3
    OutCap = 1
SPECIFICATION MCSpec
INVARIANTS
    SentInOrder
    DeliveredInOrder
    NoLostWakeup
PROPERTY TerminateEnds
\* A finished session takes no step.
CHECK_DEADLOCK FALSE
