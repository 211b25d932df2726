\* Two shards with workers; the caller joins its goroutines, then closes twice; a Drain besides.
SPECIFICATION Spec
CONSTANTS
    p1 = p1
    p2 = p2
    d1 = d1
    k1 = k1
    k2 = k2
    r1 = r1
    o1 = o1
    NShards = 2
    Capacity = 2
    Producers <- TwoProducers
    Drainers <- OneDrainer
    Closers <- TwoClosers
    Readers <- NoCaller
    Observers <- NoCaller
    HasConsumer = TRUE
    CoarseClock = TRUE
    JoinFirst = TRUE
    MaxTickets = 3
SYMMETRY Callers
INVARIANTS
    TypeOK
    MemorySafe
    NothingLeaks
    DrainedAtClose
    CountersBalance
PROPERTIES
    ShardIsLog
CHECK_DEADLOCK FALSE
