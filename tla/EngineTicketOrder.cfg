\* Two producers of one shard, its worker, no Close.
SPECIFICATION Spec
CONSTANTS
    p1 = p1
    p2 = p2
    d1 = d1
    k1 = k1
    k2 = k2
    r1 = r1
    o1 = o1
    NShards = 1
    Capacity = 2
    Producers <- TwoProducers
    Drainers <- NoCaller
    Closers <- NoCaller
    Readers <- NoCaller
    Observers <- NoCaller
    HasConsumer = TRUE
    CoarseClock = FALSE
    JoinFirst = FALSE
    MaxTickets = 2
INVARIANTS
    TicketOrder
CHECK_DEADLOCK FALSE
