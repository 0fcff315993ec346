\* The JNI calls only, without the exception for a STOP that comes too late.
CONSTANTS
    c1 = c1
    c2 = c2
    w1 = w1
    None = None
    Callers = {c1, c2}
    Quitters = {}
    Workers = {w1}
SPECIFICATION FairSpec
PROPERTIES
    StopReturns
\* A worker that serves traffic takes no step of this protocol.
CHECK_DEADLOCK FALSE
