SPECIFICATION Spec
CONSTANTS
  Venues <- MCBinance
  MaxSource = 3
  MaxSequence = 7
  MaxSize = 2
  None = None
  Absent = Absent
CHECK_DEADLOCK FALSE
INVARIANT
  GapInvalidatesEpoch
