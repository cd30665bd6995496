CONSTANTS
  Base = 3
  Numbers = {0, 5}
  Characters = {0, 2}
  MaxLength = 2
SPECIFICATION SerializerSpec
INVARIANT HintsFit
CHECK_DEADLOCK FALSE
