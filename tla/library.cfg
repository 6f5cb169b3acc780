SPECIFICATION Spec
CONSTANTS
    n1 = n1
    n2 = n2
    s1 = s1
    s2 = s2
    Nodes = {n1, n2}
    Home = n1
    Songs = {s1}
    MaxVersion = 2
    MaxRetries = 1
    MaxFlaps = 1
    MaxCrashes = 1
INVARIANTS
    PayloadsReachAll
    NeverOverclaims
    NothingUnannounced
CONSTRAINT Focus
ACTION_CONSTRAINT Enter
