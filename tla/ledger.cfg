SPECIFICATION Spec
CONSTANTS
    f = f
    n = n
    NoAddr = NoAddr
    Address = {f, n}
    Founder = f
    Song = {1, 2}
    Session = {1, 2, 3, 4}
    Epoch = {1}
    Amount = {2}
    Proof <- MCSettleProofs
    SongInfo <- MCSongInfo
    GenesisSongs = {1, 2}
    GenesisNodes = {n}
    UNIT = 2
    BP = 2
    FULL_REWARD_THRESHOLD = 1
    SUPPLY_FLOOR = 4
    SUPPLY_CAP = 14
    BURN_AT_CAP = 20
    UINT64_MAX = 1000
    COSIGN_ACTIVATION_HEIGHT = 2
    MAX_UNITS_PER_TX = 2
    MAX_CONSTITUENTS_PER_SETTLEMENT = 3
    MaxHeight = 2
    MaxTx = 2
INVARIANTS
    LedgerInv
    LedgerBalanced
    SupplyCapped
    SessionPaidOnce
    PlayCountBounded
    NonceSpentOnce
PROPERTIES
    DiscovererFinal
