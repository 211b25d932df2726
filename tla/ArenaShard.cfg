SPECIFICATION Spec
CONSTANTS
    Width = 8
    HeaderSize = 2
    CacheLineSize = 2
    IndexBucketSize = 1
    PageSize = 4
    HugePageSize = 8
    Procs = 3
    DefaultCells = 2
    DefaultPayload = 2
    Space = 64
    Configs <- MCConfigs
    Platforms <- AllPlatforms
INVARIANTS
    TypeOK
    WindowExact
    NothingLeaks
    PagesTouched
    ShardFits
CHECK_DEADLOCK FALSE
