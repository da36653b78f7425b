SPECIFICATION Spec
CONSTANTS
  Depth = 2
  Ticks <- MCTicks
  Quantities <- MCQuantities
  MaxTick = 1
  MaxSequence = 3
  None = None
  Snapshots <- MCSnapshots
INVARIANTS
  TypeOK
  SidesWellFormed
  HeldLevelsAreCurrent
  TopOfBookSurvivesEviction
  SpreadIsExact
PROPERTY
  ImplementsBoundedBook
