SPECIFICATION Spec
CONSTANTS
    Node = {1, 2}
    Block = {0, 1, 2, 3, 4, 5}
    Zero = 0
    Parent <- Tree
    Plays <- Heard
    InitTip <- Siblings
    Mintable <- BothMint
    MAX_INV_COUNT = 1
    MAX_GETDATA_IN_FLIGHT = 1
    Lossy = {}
    MaxFaults = 1
    MaxEvents = 1
INVARIANT ChainComplete
PROPERTIES TipsImprove
CHECK_DEADLOCK FALSE
