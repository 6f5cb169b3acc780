SPECIFICATION Spec
CONSTANTS
    Block = {1, 2, 3, 4, 5, 6, 7, 8}
    Genesis = 1
    Parent <- ForkParent
    Plays <- ForkPlays
    Stamp <- MCStamp
    Payload <- MCPayload
    Bad <- TopBad
    Pin <- PinSound
    Branch <- MCBranch
    FINALITY_DEPTH = 3
    MaxCrashes = 2
INVARIANTS
    ReorgInv
    TornIsMarked
    ServesOneChain
    RestoredExactly
    WholeBranchesOnly
    PinnedHeightsMatch
PROPERTIES
    ForkChoiceMonotone
CHECK_DEADLOCK FALSE
