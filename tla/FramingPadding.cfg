CONSTANTS
  BlockSize = 4
  IVLength = 4
  PacketSizes = {2}
  MaxSent = 2
SPECIFICATION TcpSpec
INVARIANT NoLeftover
CHECK_DEADLOCK FALSE
