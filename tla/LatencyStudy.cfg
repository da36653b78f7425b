SPECIFICATION LatencySpec
CONSTANTS
  MaxTimestamp = 4
  References <- MCReferences
  SampleLists <- MCSampleLists
  HorizonLists <- MCHorizonLists
  Delays <- MCDelays
  Fractions <- MCFractions
  DecisionDelays <- MCDecisionDelays
  ObservationDelays <- MCObservationDelays
  None = None
CHECK_DEADLOCK FALSE
INVARIANTS
  LatencyTypeOK
  WrittenDatasetsLoad
  NoTargetCrossesTheSplit
  DelayedReturnsDoNotLeak
  UndelayedTargetsAgree
