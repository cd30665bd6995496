CONSTANTS
  OneOffs = {o1}
  Backoffs = {}
  Fraction = 2
  Second = 4
  Limit = 16
  Delays = {1, 9}
  Offsets = {0}
  MaxDelay = 3
  MaxTime = 6
SPECIFICATION EventSpec
INVARIANT EventsAwaited
CHECK_DEADLOCK FALSE
