SPECIFICATION FairSpec
CONSTANTS
    Node = {1, 2}
    Block = {0, 1, 2, 3, 4, 5}
    Zero = 0
    Parent <- Tree
    Plays <- Heard
    InitTip <- Fresh
    Mintable <- NobodyMints
    MAX_INV_COUNT = 2
    MAX_GETDATA_IN_FLIGHT = 1
    Lossy = {"getblocks", "inv", "getdata", "data"}
    MaxFaults = 1
    MaxEvents = 0
PROPERTIES BehindOnlyIfWedged
CHECK_DEADLOCK FALSE
