SPECIFICATION Spec
CONSTANTS
    source = source
    cycle = cycle
    host = host
    otherHost = otherHost
    l1 = l1
    l2 = l2
    s1 = s1
    s2 = s2
    Slots = {s1}
    Lanes = {l1}
    Items = {source}
    Hosts <- MCNoHosts
    PoliciesOf <- MCSourcePolicies
    LaneOf <- MCSourceLanes
    SlotOf <- MCSourceSlots
    PageSize = 1
    MaxSamples = 1
    MaxRetries = 0
    Outcomes <- MCDelivered
    MaxVersions = 1
    MaxCycle = 2
    Capacity = 1
    None = None
INVARIANTS
    PublishedAtMostOnce
CHECK_DEADLOCK FALSE
