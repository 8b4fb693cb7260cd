SPECIFICATION PromFairSpec
CONSTANTS
    Client = {c1, c2}
    NoClient = none
    Endless = {c2}
    RequestLength = 1
    Cap = 2
    ResponseLength = 2
    Room = 1
    MaxSent = 3
    Faults = TRUE
INVARIANTS
    PromConsistent
PROPERTIES
    ScrapesEnd
CHECK_DEADLOCK FALSE
