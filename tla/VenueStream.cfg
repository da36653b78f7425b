SPECIFICATION Spec
CONSTANTS
  Venues <- MCVenues
  MaxSource = 3
  MaxSequence = 7
  MaxSize = 2
  None = None
  Absent = Absent
CHECK_DEADLOCK FALSE
INVARIANTS
  TypeOK
  BookAgreesWithAdapter
  BookStaysNear
  HolesAreReported
  ValidatorKeepsStep
  GapsAreAudited
