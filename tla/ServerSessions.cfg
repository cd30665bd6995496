CONSTANTS
  Peers = {u1, u2}
  Conns = {c1}
  Sids = {s1, s2, s3}
  Server = server
  NoSession = NoSession
  NoKey = NoKey
  NoConn = NoConn
  NoAddress = NoAddress
  Size = 3
  MaxOut = 4
  Failures = TRUE
SPECIFICATION Spec
SYMMETRY Symmetry
INVARIANTS TypeOK MapOwner NoForeignErase ChannelReady ReplyOrder
           CachedPointersLive
PROPERTY ForgottenRests
CHECK_DEADLOCK FALSE
