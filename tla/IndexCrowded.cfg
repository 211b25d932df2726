\* More keys than buckets: dead buckets are reclaimed.  One key is shared.
SPECIFICATION Spec
CONSTANTS
    p1 = p1
    p2 = p2
    r1 = r1
    Producers <- TwoProducers
    Readers <- NoReader
    Keys <- ThreeKeys
    KeysOf <- MixedKeys
    Home <- AllAtZero
    Buckets = 2
    MaxProbe = 2
    Capacity = 2
    MaxTickets = 5
INVARIANTS
    TypeOK
    ChainUnbroken
    LiveIsExact
    OneEntryPerKey
CHECK_DEADLOCK FALSE
