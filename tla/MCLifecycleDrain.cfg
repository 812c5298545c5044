SPECIFICATION Spec
CONSTANTS
  PushEnabled = TRUE
  OtherStops = FALSE
  Working = {"publisher"}
  Capacity = 1
PROPERTIES StopDrains
CHECK_DEADLOCK FALSE
