CONSTANTS
    a = a
    b = b
    c = c
    None = None
    Tasks = {a, b, c}
    priority <- MCPriority
    Sleepers = {a, b}
    Lockers = {a, b, c}
    Joiners = {c}
    Pollers = {a}
    MaxSleep = 2
SPECIFICATION FairSpec
INVARIANTS
    NoAbort
    MutexHandedOn
PROPERTIES
    NoStarvation
    WaitsEnd
\* The tasks end, or all wait for an event that does not come.
CHECK_DEADLOCK FALSE
