SPECIFICATION FairSpec
CONSTANTS
  Games = 2
  Steps = 2
  MaxBreaches = 3
  Alternate = TRUE
  Kinds = {"lost_offer"}
  MaxFaults = 1
  MaxOffers = 3
PROPERTIES
  OffersAnswered
