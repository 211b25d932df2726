\* More keys than buckets and two writers of a key: does a key get two entries?
SPECIFICATION Spec
CONSTANTS
    p1 = p1
    p2 = p2
    r1 = r1
    Producers <- TwoProducers
    Readers <- NoReader
    Keys <- ThreeKeys
    KeysOf <- AllKeys
    Home <- AllAtZero
    Buckets = 2
    MaxProbe = 2
    Capacity = 2
    MaxTickets = 4
INVARIANTS
    NeverTwoEntries
CHECK_DEADLOCK FALSE
