\* linux, memory advised for huge pages and not pinned: is it resident?
SPECIFICATION Spec
CONSTANTS
    Width = 8
    HeaderSize = 2
    CacheLineSize = 2
    IndexBucketSize = 1
    PageSize = 4
    HugePageSize = 8
    Procs = 3
    DefaultCells = 2
    DefaultPayload = 2
    Space = 64
    Configs <- PlainConfig
    Platforms <- LinuxOnly
INVARIANTS
    FullyResident
CHECK_DEADLOCK FALSE
