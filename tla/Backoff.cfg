SPECIFICATION BackoffSpec
CONSTANTS
    BaseDelay = 60
    MaxDelay = 1788
    RandomRange = 256
    MaxAttempts = 6
INVARIANTS
    JitterCoversBothSides
