\* Checks every other unit, an outage of two, sessions and keys revoked.
SPECIFICATION TMSpec
CONSTANTS
  Lifetime = 12
  Assumed = 6
  Advance = 2
  Interval = 2
  Attempts = 2
  MaxOutage = 2
INVARIANTS AlwaysValid StopHonest
PROPERTIES Recovers
