\* Two producers and the single worker of a shard; fair scheduling.
SPECIFICATION FairSpec
CONSTANTS
    p1 = p1
    p2 = p2
    c1 = c1
    c2 = c2
    Producers <- TwoProducers
    Consumers <- OneConsumer
    Capacity = 2
    MaxRecords = 4
PROPERTIES
    ClaimedIsDelivered
    ImplementsLiveLog
