\* Three hosts, two of which share an address: two batches for two workers.
SPECIFICATION Spec
CONSTANTS
  Hosts = {1, 2, 3}
  Interfaces <- SharedAddress
  AllowedIPs = {}
  ByGroup = TRUE
  Groups = {"linux", "network"}
  ItemStates = {"on"}
  Inventories <- AllPresent
  Memberships <- OneGroup
  BatchHosts = 1
  WorkerCount = 2
  MinGap = 1
  MaxChanges = 1
INVARIANTS TypeOK
PROPERTIES AllOrNothing AddressesKept RefreshEnds
CHECK_DEADLOCK FALSE
