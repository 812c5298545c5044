\* The metadata loop and the publisher do work; a second caller may stop.
SPECIFICATION Spec
CONSTANTS
  PushEnabled = TRUE
  OtherStops = TRUE
  Working = {"metadata", "publisher"}
  Capacity = 1
INVARIANTS TypeOK StopHonest CleanExit
PROPERTIES SignalEndsRun
CHECK_DEADLOCK FALSE
