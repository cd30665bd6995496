CONSTANTS
  Admins = {a1, a2}
  Lookups = {l1}
  LastUser = 2
  Failures = FALSE
SPECIFICATION DbSpec
INVARIANT OthersKept
CHECK_DEADLOCK FALSE
