SPECIFICATION FairSpec
CONSTANTS
    LongCycleThreshold = 2
    MinShortTTL = 3
    MinGrace = 1
    Items = {i1}
    Definitions <- MCDefinitions
    Absent = Absent
    Collectors = {c1, c2}
    NoCollector = NoCollector
    MissThreshold = 1
    MaxMisses = 1
    Clocks <- MCClocks
    NoRecord = NoRecord
    BadRecord = BadRecord
    MaxTime = 3
    MaxSnapshots = 2
    MaxVersions = 2
INVARIANTS
    MetadataFence
    ExpiryCovered
    InvalidOnlyWhenOverdue
PROPERTIES
    DeletedForCause
    SourceNeverRegresses
    ExpiredEventuallyGone
CHECK_DEADLOCK FALSE
