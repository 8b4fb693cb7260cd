SPECIFICATION AgentSpec
CONSTANTS
    MaxCommands = 2
    MaxRestarts = 1
    MaxFaults = 3
    MaxQueued = 2
    SendsMayBreak = TRUE
INVARIANT
    OutcomeAlwaysTruthful
CHECK_DEADLOCK FALSE
