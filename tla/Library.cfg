CONSTANTS
  Size = 5
  Holders = {h1, h2, h3, h4, h5, h6}
  NoAddress = NoAddress
  Conns = {c1, c2}
  ConnFds = {f1}
  Listener = listener
  Udp = udp
  Tun = tun
  NoFd = NoFd
  NoObject = NoObject
  MaxPackets = 2
  Admins = {a1, a2}
  Lookups = {l1}
  LastUser = 2
  Failures = TRUE
  BlockSize = 4
  IVLength = 4
  PacketSizes = {0, 1, 2, 6}
  MaxSent = 2
  RoundedSize = 2
  IovecSize = 2
  MaxBytes = 5
  MaxRequest = 3
  Base = 3
  Numbers = {0, 5}
  Characters = {0, 2}
  MaxLength = 2
  Word = 5
  Attempts <- PrivateNetworks
  MaxRoutes = 2
  Samples = {0, 1, 30, 31}
  OneOffs = {o1, o2}
  Backoffs = {b1}
  Fraction = 2
  Second = 4
  Limit = 16
  Delays = {0, 1}
  Offsets <- PastOrNow
  MaxDelay = 3
  MaxTime = 6
  Address = address
  Networks = {network}
  Gateway = gateway
  MaxSeq = 4
  Primes <- SmallPrimes
  Passwords = {1, 2}
  Salts <- SomeSalts
  Randoms = {0, 1, 2, 3}
  KeySalts = {0, 1}
  Forged = {0, 1, 23, 46}
  MaxDigest = 2
  DigestX <- SmallX
  DigestU <- SmallU
  DigestK <- SmallK
  Arguments <- SomeArguments
  ReadSpace = 9
  MaxCalls = 2
SPECIFICATION LibrarySpec
INVARIANTS
  TypeOK
  Exclusive
  HeldIsMarked
  ReadsInBounds
  TableAgrees
  BatchAlive
  ReadersOpen
  WriteArmed
  OwnSecrets
  UpToDate
  CutIsPrefix
  Intact
  Prompt
  OnlyPaddingAborts
  ReadsStream
  ChunksCounted
  RoundTrip
  ChosenIsFree
  WordsAreNumbers
  AnswersAreTrue
  SharedKey
  CallsHandled
PROPERTIES
  ImplementsPool
  EventsInTime
CONSTRAINT InUse
CHECK_DEADLOCK FALSE
