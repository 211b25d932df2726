\* Two producers and two consumers lap a ring of two cells twice.
SPECIFICATION Spec
CONSTANTS
    p1 = p1
    p2 = p2
    c1 = c1
    c2 = c2
    Producers <- TwoProducers
    Consumers <- TwoConsumers
    Capacity = 2
    MaxRecords = 4
SYMMETRY Threads
INVARIANTS
    TypeOK
    CursorOrder
    ExclusiveCells
    DequeueNeverMisses
    DeliveredIntact
    ExactlyOnce
    NoStrandedCommit
PROPERTIES
    SeqForward
    SaturationIsReal
    ImplementsLog
