SPECIFICATION FairSpec
CONSTANTS
    Song = {1, 2}
    Alike <- MCAlike
    Tx <- MCAll
    Poison <- MCPoison
    Requires <- MCIndependent
    PROPAGATION_WINDOW_MS = 1
    MAX_TXS_PER_SENDER_PER_BLOCK = 1
    MAX_TXS_PER_BLOCK = 2
    MAX_RETRIES = 3
    MaxTime = 2
    MaxPeerBlocks = 2
    MaxRestarts = 1
INVARIANTS
    OneSongOnce
    CapsSpareTails
    RetriesAreRaces
PROPERTIES
    SongLands
CONSTRAINT Focus
ACTION_CONSTRAINT Early
