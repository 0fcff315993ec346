\* Two connects on two instances, any other commands, in turn or overlapping.
CONSTANTS
    c1 = c1
    c2 = c2
    s1 = s1
    s2 = s2
    None = None
    Conns = {c1, c2}
    Services = {s1, s2}
SPECIFICATION FairSpec
INVARIANTS
    SwitchFreesPort
    DestroyCleansUpInTurn
    ConnectedMeansServing
PROPERTIES
    ConnectResolves
\* The requests and instances of the model run out.
CHECK_DEADLOCK FALSE
