\* Four names compete for two addresses; requests of up to two questions.
CONSTANTS
    n1 = n1
    n2 = n2
    n3 = n3
    n4 = n4
    None = None
    Names = {n1, n2, n3, n4}
    max = 2
    hostsize = 4
    net = 4
    IPs <- MCNetIPs
    MaxQuestions = 2
SPECIFICATION Spec
SYMMETRY Symmetry
INVARIANTS
    OneAddressPerName
    ListMatchesTree
    RecentNamesStay
