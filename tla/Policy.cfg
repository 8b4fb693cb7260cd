SPECIFICATION PolicyFairSpec
CONSTANTS
    g1 = g1
    g2 = g2
    safe = safe
    normal = normal
    performance = performance
    Device = {d1, d2}
    Mode = {safe, normal, performance}
    Group = {g1, g2}
    Load <- MCLoad
    Temp <- MCTemp
    Policies <- MCPolicies
    MaxCommands = 4
    MaxDisturbances = 5
INVARIANTS
    PolicyConsistent
PROPERTIES
    CommandsHaveCause
    HysteresisHeld
    GovernedInTheEnd
CHECK_DEADLOCK FALSE
