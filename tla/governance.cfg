SPECIFICATION RatingsSpec
CONSTANTS
    f = f
    o = o
    w = w
    l1 = l1
    NoAddr = NoAddr
    Address = {f, o, w}
    Content = {1}
    Policy <- MCPolicy
    DefaultPolicy <- Strict
    RATIO_ONE = 2
    Label = {l1}
    NoLabel = NoLabel
    SplitList <- MCSplits
    BP = 3
    Motions <- MCMotions
    Pinned = NoAddr
    Genesis <- MCGenesis
    GenesisEscrow <- MCEscrow
    MaxHeight = 3
    MaxTx = 2
INVARIANTS
    EscrowAccounted
    RatedOnlyIfPlayed
PROPERTIES
    FounderSeated
    GrantsUnanimous
    MajorityExecutes
ACTION_CONSTRAINT Focus
