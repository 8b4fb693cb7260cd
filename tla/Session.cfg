SPECIFICATION SessionFairSpec
CONSTANTS
    Device = {d1, d2}
    MaxConnections = 3
    HandshakeTimeout = 1
    LivenessTimeout = 2
INVARIANTS
    SessionsConsistent
    CommandedOnThisSession
    EveryCloseCounted
PROPERTIES
    NewWins
    SilenceEnds
CHECK_DEADLOCK FALSE
