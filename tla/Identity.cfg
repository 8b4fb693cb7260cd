SPECIFICATION IdentitySpec
CONSTANTS
    EnvId = 100
    MaxStarts = 3
INVARIANTS
    KeptOrAnnounced
CHECK_DEADLOCK FALSE
