SPECIFICATION DataSpec
CONSTANTS
    Capacity = 4
    SeqModulus = 8
    BufferCapacity = 4
    ChunkSize = 2
    Magic = 5
    MaxPayload = 2
    RxBufferSize = 1
    SocketRoom = 3
    MaxSlots = 4
    Budgets <- MCBudgets
    Payloads <- MCPayloads
    Strays <- MCStrays
    Messages <- MCMessages
    Base = 10
    Outgoing <- MCOutgoing
    Tailrooms <- MCTailrooms
    Additions <- MCAdditions
    MaxDepth = 2
    MaxInt64 = 3
    MaxUint64 = 7
    Written <- MCWritten
    Inserted <- MCInserted
    NsPerUs = 2
    Ten = 2
    FractionDigits = 2
    SampleCapacity = 2
    MaxU64 = 60
    Gaps = {0, 1}
    Durations <- MCDurations
    UtcWindows <- MCUtcWindows
    MaxTicks = 3
    Length = 3
INVARIANTS
    FramesConsistent
    StreamsIntact
    MessagesSound
    JsonTruthful
    ProfilesTruthful
PROPERTIES
    FramesProgress
    DumpTruthful
CHECK_DEADLOCK FALSE
