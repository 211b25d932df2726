\* No Consumer: two callers of Drain(1, h) sweep the same shard, fair scheduling.
SPECIFICATION FairSpec
CONSTANTS
    p1 = p1
    p2 = p2
    d1 = d1
    d2 = d2
    Producers <- TwoProducers
    Workers <- NoThread
    Drainers <- TwoDrainers
    ShardCount = 1
    Capacity = 2
    HighWaterPct = 90
    LowWaterPct = 70
    DrainBatch = 2
    DrainMax = 1
    MaxRecords = 3
INVARIANTS
    CountIsExact
PROPERTIES
    HotIsCleared
