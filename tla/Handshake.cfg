CONSTANTS
  Client = client
  Sids = {s1}
  Server = server
  NoSession = NoSession
  NoKey = NoKey
  NoConn = NoConn
  NoAddress = NoAddress
  Misread = misread
  Size = 3
  MaxOut = 6
  MaxData = 3
  Failures = FALSE
  Unreliable = FALSE
  MaxDamage = 0
SPECIFICATION FairSpec
INVARIANT NoSurprise
PROPERTIES Completes EveryPacketArrives
CHECK_DEADLOCK FALSE
