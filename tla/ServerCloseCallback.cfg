CONSTANTS
  Peers = {u1}
  Conns = {c1}
  Sids = {s1, s2}
  Server = server
  NoSession = NoSession
  NoKey = NoKey
  NoConn = NoConn
  NoAddress = NoAddress
  Size = 4
  MaxOut = 4
  Failures = TRUE
SPECIFICATION Spec
INVARIANT TunnelsHaveSessions
CHECK_DEADLOCK FALSE
