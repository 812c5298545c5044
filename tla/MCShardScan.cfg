SPECIFICATION Spec
CONSTANTS
    LongCycleThreshold = 2
    MinShortTTL = 3
    MinGrace = 1
    Items = {"a", "b", "c"}
    NumShards = 2
    ShardOf <- MCShardOf
    Delay <- MCDelay
    PageSize = 2
    CompactThreshold = 2
    QueryTime = 1
    Absent = Absent
    MaxTime = 3
    MaxSequence <- MCMaxSequence
    MaxSnapshots = 2
    Clocks = {0, 1}
INVARIANTS
    ScrapeComplete
    LifeReadOnce
    TombstonesExact
CHECK_DEADLOCK FALSE
