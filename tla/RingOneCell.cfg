\* A ring of one cell, which initRing accepts.
SPECIFICATION Spec
CONSTANTS
    p1 = p1
    p2 = p2
    c1 = c1
    c2 = c2
    Producers <- TwoProducers
    Consumers <- OneConsumer
    Capacity = 1
    MaxRecords = 2
INVARIANTS
    DequeueNeverMisses
