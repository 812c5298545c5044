SPECIFICATION Spec
CONSTANTS
    LongCycleThreshold = 2
    MinShortTTL = 3
    MinGrace = 1
    Items = {1, 2}
    NotANumber <- Unparsable
    Delay = 1
    BatchSize = 2
    HistoryLimit = 2
    MaxSplitDepth = 2
    OverlapMin = 1
    OverlapMax = 2
    MinBootstrap = 3
    MissThreshold = 1
    MaxMisses = 1
    ClockSteps = {0, 2}
    Absent = Absent
    MaxTime = 2
    MaxPoints = 3
    MaxSnapshots = 2
    MaxChanged = 1
INVARIANTS
    TypeOK
    NoGap
PROPERTIES
    MissesHonest
CHECK_DEADLOCK FALSE
