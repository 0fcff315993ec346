\* Two Java threads, one direct caller of hev_socks5_tunnel_quit, two
\* identities for pthread_create to choose from. No symmetry: it is unsound
\* for liveness.
CONSTANTS
    c1 = c1
    c2 = c2
    q1 = q1
    w1 = w1
    w2 = w2
    None = None
    Callers = {c1, c2}
    Quitters = {q1}
    Workers = {w1, w2}
SPECIFICATION FairSpec
INVARIANTS
    WriteHitsOpenSocket
    OneWorker
    StoppedMeansGone
    MainBlocksUntilQuit
PROPERTIES
    StopReturnsUnlessMissed
