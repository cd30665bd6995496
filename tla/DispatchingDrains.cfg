CONSTANTS
  Conns = {c1}
  ConnFds = {f1}
  Listener = listener
  Udp = udp
  Tun = tun
  NoFd = NoFd
  NoObject = NoObject
  MaxPackets = 2
SPECIFICATION FairSpec
INVARIANT DispatchTypeOK
PROPERTY Drains
