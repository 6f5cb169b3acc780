SPECIFICATION TransferFairSpec
CONSTANTS
    h = h
    l = l
    u = u
    v = v
    Source = {h, l}
    Seeded = {h, l}
    Dht = {h, l}
    Liar = {l}
    Claim <- MCClaim
    Size = 4
    Worker = {u, v}
    maxWorkers = 2
    fetchPieces = 4
    perPeerRetryCap = 1
    kPerSeederWindow = 1
    MaxBare = 1
    MaxFaults = 1
INVARIANTS DupOnlyTail
CHECK_DEADLOCK FALSE
 
