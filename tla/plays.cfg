SPECIFICATION Spec
CONSTANTS
    a = a
    b = b
    d1 = d1
    x = x
    one = one
    two = two
    None = None
    pa = pa
    pb = pb
    Peers = {pa, pb}
    Online <- BothOnline
    MaxChanges = 1
    Wallets = {a, b}
    Minis = {m}
    Songs = {one}
    Deliveries = {d1}
    Holders <- Published
    Proofs <- ProofSet
    MaxEpoch = 2
    Sessions = {s, t}
    Devices = {x}
    Workers = {u, v}
    Requests <- SameStream
    MIN_BEATS = 1
    kMaxConcurrentPerDevice = 1
    kDailyCoverageCap = 1
    REQUIRE_COSIGN = FALSE
    DEVICE_CAP_ENFORCE = TRUE
    MaxRestarts = 1
SYMMETRY Alike
CONSTRAINT Focus
INVARIANTS
    SlotsCounted
PROPERTIES
    KeptUntilPaid
    PlaysKeepPromise
