CONSTANTS
  Size = 3
  Holders = {h1, h2}
  NoAddress = NoAddress
SPECIFICATION Spec
PROPERTY ImplementsWholePool
