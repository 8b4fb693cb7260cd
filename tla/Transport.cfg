SPECIFICATION ServerFairSpec
CONSTANTS
    Budgets <- TransportBudgets
    RingCapacity = 2
    SocketRoom = 1
INVARIANTS
    ServerConsistent
    NothingForgotten
PROPERTIES
    ImplementsPort
    EverythingMoves
CHECK_DEADLOCK FALSE
