\* Two writers of one key: does an older mutation overwrite a newer one?
SPECIFICATION Spec
CONSTANTS
    p1 = p1
    p2 = p2
    r1 = r1
    Producers <- TwoProducers
    Readers <- NoReader
    Keys <- OneKey
    KeysOf <- AllKeys
    Home <- AllAtZero
    Buckets = 2
    MaxProbe = 2
    Capacity = 2
    MaxTickets = 4
PROPERTIES
    NewestWins
CHECK_DEADLOCK FALSE
