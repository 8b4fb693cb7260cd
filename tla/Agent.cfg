SPECIFICATION ProcessSpec
CONSTANTS
    MaxCommands = 2
    MaxRestarts = 1
    MaxFaults = 3
    MaxQueued = 2
    SendsMayBreak = TRUE
    Count = 3
    MayThrow = TRUE
    MaxNow = 3
    MaxTimers = 3
INVARIANTS
    AgentConsistent
    SessionsAgree
    FleetConsistent
    SchedulerConsistent
PROPERTIES
    AppliedOncePerSession
    ImplementsTimers
    ProcessMoves
CHECK_DEADLOCK FALSE
