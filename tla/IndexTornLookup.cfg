\* A cell is republished under another key during a lookup.
SPECIFICATION Spec
CONSTANTS
    p1 = p1
    p2 = p2
    r1 = r1
    Producers <- OneProducer
    Readers <- OneReader
    Keys <- TwoKeys
    KeysOf <- AllKeys
    Home <- AllAtZero
    Buckets = 2
    MaxProbe = 2
    Capacity = 2
    MaxTickets = 3
INVARIANTS
    LookupCoherent
