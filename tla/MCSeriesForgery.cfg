SPECIFICATION Spec
CONSTANTS
  Games = 2
  Steps = 2
  MaxBreaches = 3
  Alternate = FALSE
  Kinds = {"raise"}
  MaxFaults = 1
  MaxOffers = 3
INVARIANTS
  NoFalseForgery
