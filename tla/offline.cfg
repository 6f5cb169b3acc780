SPECIFICATION OfflineSpec
CONSTANTS
    Session = {1}
    Tick = {"timer", "kick"}
    Nonce = {n1, n2}
    REPLAY_BEATS = 1
    MIN_BEATS = 2
    RETRIES = 1
    MaxBeats = 2
    MaxSensors = 1
    MaxRestarts = 1
CONSTRAINT Few
SYMMETRY Alike
INVARIANTS
    PlaysShipped
