SPECIFICATION Spec
CONSTANTS
  Venues <- MCVenues
  Prices = {1, 2, 3}
  Quantities = {0, 1}
  Scope = 1
  Capacity = 2
  MaxUpdates = 3
  MaxConnections = 2
  MaxSource = 15
  MaxSequence = 31
  None = None
  Absent = Absent
CHECK_DEADLOCK FALSE
INVARIANTS
  TypeOK
  AcceptedEventsAreApplied
  OnlyForgottenLevelsDiffer
  ReportHasTheBook
  ReportCountsTheGaps
