\* One shard under fair scheduling.
SPECIFICATION FairSpec
CONSTANTS
    p1 = p1
    p2 = p2
    d1 = d1
    k1 = k1
    k2 = k2
    r1 = r1
    o1 = o1
    NShards = 1
    Capacity = 2
    Producers <- TwoProducers
    Drainers <- NoCaller
    Closers <- TwoClosers
    Readers <- OneReader
    Observers <- OneObserver
    HasConsumer = TRUE
    CoarseClock = TRUE
    JoinFirst = TRUE
    MaxTickets = 3
INVARIANTS
    ProducerOrder
    MemorySafe
    StatsAccount
PROPERTIES
    CloseReturns
    AcceptedIsDelivered
CHECK_DEADLOCK FALSE
