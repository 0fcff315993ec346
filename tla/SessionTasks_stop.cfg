\* Four sessions, no limit or one of one to three. An abort, or a session task that
\* could not be created, leaves tasks that never run again: no check for deadlock.
CONSTANTS
    s1 = s1
    s2 = s2
    s3 = s3
    s4 = s4
    None = None
    Sessions = {s1, s2, s3, s4}
    Limits = {0, 1, 2, 3}
SPECIFICATION FairSpec
INVARIANTS
    NoAbort
    TimersRun
PROPERTIES
    StopDrains
CHECK_DEADLOCK FALSE
