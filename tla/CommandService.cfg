SPECIFICATION CommandFairSpec
CONSTANTS
    Device = {d1, d2}
    Mode = {safe}
    MaxCommands = 2
    MaxAttempts = 2
    CommandTimeout = 1
    BackoffBase = 1
INVARIANTS
    CommandsConsistent
    Conservation
PROPERTIES
    NoCallbackAfterDetach
    ImplementsLifecycle
    EveryCommandResolves
CHECK_DEADLOCK FALSE
