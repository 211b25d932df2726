\* Close while a Publish is under way.
SPECIFICATION Spec
CONSTANTS
    p1 = p1
    p2 = p2
    d1 = d1
    k1 = k1
    k2 = k2
    r1 = r1
    o1 = o1
    NShards = 1
    Capacity = 2
    Producers <- OneProducer
    Drainers <- NoCaller
    Closers <- OneCloser
    Readers <- NoCaller
    Observers <- NoCaller
    HasConsumer = TRUE
    CoarseClock = FALSE
    JoinFirst = FALSE
    MaxTickets = 1
INVARIANTS
    DrainedAtClose
CHECK_DEADLOCK FALSE
