SPECIFICATION FairSpec
CONSTANTS
    fast = fast
    slow = slow
    Groups = {fast, slow}
    Period <- MCPeriod
    Offset <- MCOffset
    Workers = {w1}
    QueueCapacity = 1
    RetryBase = 1
    RetryMax = 3
    IdleWait = 9
    Absent = Absent
    MaxTime = 2
    MaxReplacements = 3
INVARIANTS
    OneTaskPerGroup
    CadenceKept
    SleepCovered
PROPERTIES
    TasksEnd
    StopReturns
CHECK_DEADLOCK FALSE
