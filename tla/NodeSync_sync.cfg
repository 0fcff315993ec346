\* Two bases, one account; edits, syncs and kills at any time, lists of up to two
\* nodes (a third is checked and not extended).
SPECIFICATION NodesSpec
CONSTANTS
    b1 = b1
    b2 = b2
    Nobody = Nobody
    Bases = {b1, b2}
    Labels = {"hk", "own", "node", "dedicated"}
    NewLabels = {"own"}
    Pastes <- MCPastes
    Configs <- MCConfigs
    Accounts = {a1}
    MaxNodes = 2
CONSTRAINT Bound
INVARIANT SavedIsShown
INVARIANT Accounted
PROPERTY OwnNodesStay
