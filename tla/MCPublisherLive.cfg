SPECIFICATION FairSpec
CONSTANTS
    source = source
    cycle = cycle
    host = host
    otherHost = otherHost
    l1 = l1
    l2 = l2
    s1 = s1
    s2 = s2
    Slots = {s1}
    Lanes = {l1}
    Items = {source}
    Hosts <- MCTwoHosts
    PoliciesOf <- MCSourcePolicies
    LaneOf <- MCPageLanes
    SlotOf <- MCPageSlots
    PageSize = 2
    MaxSamples = 1
    MaxRetries = 1
    Outcomes <- MCAllOutcomes
    MaxVersions = 1
    MaxCycle = 1
    Capacity = 1
    None = None
PROPERTIES
    ReservationsEnd
    StopDrains
CHECK_DEADLOCK FALSE
