\* Every combination of credentials, authenticator, service and order.
CONSTANT None = None
SPECIFICATION FairSpec
INVARIANTS
    InStep
    NothingLeft
PROPERTIES
    Implements
    HandshakeEnds
    TerminateEnds
\* Both ends may be closed, and a service may go on.
CHECK_DEADLOCK FALSE
