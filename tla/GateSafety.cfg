\* Two shards with their workers and two producers; default water marks.
SPECIFICATION Spec
CONSTANTS
    p1 = p1
    p2 = p2
    d1 = d1
    d2 = d2
    Producers <- TwoProducers
    Workers <- EveryShard
    Drainers <- NoThread
    ShardCount = 2
    Capacity = 2
    HighWaterPct = 90
    LowWaterPct = 70
    DrainBatch = 2
    DrainMax = 0
    MaxRecords = 3
SYMMETRY Interchangeable
INVARIANTS
    TypeOK
    CountIsExact
    NotLeftOpen
PROPERTIES
    NeverLate
