SPECIFICATION Spec
CONSTANTS
  Venues <- MCCoinbase
  MaxSource = 3
  MaxSequence = 7
  MaxSize = 2
  None = None
  Absent = Absent
CHECK_DEADLOCK FALSE
INVARIANT
  InvalidSequencesAreRejected
