SPECIFICATION PresenceSpec
CONSTANTS
    Wallets = {w1, w2}
    Peers = {p1, p2}
    Fast = {p1}
    SKEW = 1
    TTL = 2
    REAP = 3
    Ticks = 4
    MaxMoves = 1
    MaxSigned = 2
INVARIANTS
    DepartedFallsOut
