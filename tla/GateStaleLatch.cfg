\* One shard and its worker, fair scheduling: does a latch stay set for ever?
SPECIFICATION FairSpec
CONSTANTS
    p1 = p1
    p2 = p2
    d1 = d1
    d2 = d2
    Producers <- TwoProducers
    Workers <- EveryShard
    Drainers <- NoThread
    ShardCount = 1
    Capacity = 2
    HighWaterPct = 90
    LowWaterPct = 70
    DrainBatch = 2
    DrainMax = 0
    MaxRecords = 3
PROPERTIES
    HotIsCleared
