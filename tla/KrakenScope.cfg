SPECIFICATION Spec
CONSTANTS
  Venues <- MCKraken
  Prices = {1, 2}
  Quantities = {0, 1}
  Scope = 1
  Capacity = 2
  MaxUpdates = 4
  MaxConnections = 2
  MaxSource = 15
  MaxSequence = 31
  None = None
  Absent = Absent
CHECK_DEADLOCK FALSE
INVARIANT ReconstructionKeepsScope
