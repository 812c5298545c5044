SPECIFICATION Spec
CONSTANTS
    source = source
    cycle = cycle
    host = host
    otherHost = otherHost
    l1 = l1
    l2 = l2
    s1 = s1
    s2 = s2
    Slots = {s1, s2}
    Lanes = {l1}
    Items = {source, cycle}
    Hosts <- MCNoHosts
    PoliciesOf <- MCItemPolicies
    LaneOf <- MCItemLanes
    SlotOf <- MCItemSlots
    PageSize = 1
    MaxSamples = 1
    MaxRetries = 0
    Outcomes <- MCLossy
    MaxVersions = 2
    MaxCycle = 2
    Capacity = 2
    None = None
INVARIANTS
    ReservationsOwned
    CountersExact
    NoLostWakeup
    CoalescedExactly
    SeriesInOrder
    AckedWasReceived
CHECK_DEADLOCK FALSE
