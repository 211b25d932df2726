\* A bucket for every key, one writer per key, cells recycled; a reader.
SPECIFICATION Spec
CONSTANTS
    p1 = p1
    p2 = p2
    r1 = r1
    Producers <- TwoProducers
    Readers <- OneReader
    Keys <- TwoKeys
    KeysOf <- OwnKeys
    Home <- AllAtZero
    Buckets = 3
    MaxProbe = 3
    Capacity = 2
    MaxTickets = 4
PROPERTIES
    ReuseIsNoticed
    LookupFresh
