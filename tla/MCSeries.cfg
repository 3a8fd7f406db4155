SPECIFICATION FairSpec
CONSTANTS
  Games = 3
  Steps = 2
  MaxBreaches = 3
  Alternate = FALSE
  Kinds <- AnyFault
  MaxFaults = 2
  MaxOffers = 3
INVARIANTS
  PlayTogether
  OwnWindow
  SeriesAgrees
PROPERTIES
  DrainsStale
  SeriesCompletes
