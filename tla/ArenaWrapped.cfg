\* Payloads so large that the size of the ring does not fit in a word.
SPECIFICATION Spec
CONSTANTS
    Width = 8
    HeaderSize = 2
    CacheLineSize = 2
    IndexBucketSize = 1
    PageSize = 4
    HugePageSize = 8
    Procs = 3
    DefaultCells = 2
    DefaultPayload = 2
    Space = 64
    Configs <- WideConfig
    Platforms <- LinuxOnly
INVARIANTS
    ShardFits
CHECK_DEADLOCK FALSE
