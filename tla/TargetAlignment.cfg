SPECIFICATION Spec
CONSTANTS
  MaxTimestamp = 4
  References <- MCReferences
  SampleLists <- MCSampleLists
  HorizonLists <- MCHorizonLists
  Delays <- MCDelays
  None = None
CHECK_DEADLOCK FALSE
INVARIANTS
  TypeOK
  TargetsAreExact
  RowsAreDiscardedExactly
  AlignedRowsAreValid
