SPECIFICATION LoopSpec
CONSTANTS
    Channel = {a, b, c}
    NoChannel = none
    Descriptors = 2
    Generations = 3
    MaxRegistrations = 5
    BatchSize = 2
    MaxArrivals = 4
    MaxFree = 2
    MaxErrors = 1
    SystemMayFill = TRUE
INVARIANTS
    ReactorConsistent
    DeliveredToItsRegistration
PROPERTIES
    LoopServes
CHECK_DEADLOCK FALSE
