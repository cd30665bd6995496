CONSTANTS
  Client = client
  Sids = {s1}
  Server = server
  NoSession = NoSession
  NoKey = NoKey
  NoConn = NoConn
  NoAddress = NoAddress
  Misread = misread
  Size = 3
  MaxOut = 4
  MaxData = 1
  Failures = TRUE
  Unreliable = TRUE
  MaxDamage = 2
SPECIFICATION Spec
INVARIANTS TypeOK Agreement DataProtected
CHECK_DEADLOCK FALSE
