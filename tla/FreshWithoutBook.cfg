SPECIFICATION Spec
CONSTANTS
  VenueIds <- MCVenueIds
  MaxTimestamp = 4
  MaxStaleness = 1
  Books <- MCBooks
  Interval = 2
  None = None
CHECK_DEADLOCK FALSE
INVARIANT
  FreshVenuesHaveABook
