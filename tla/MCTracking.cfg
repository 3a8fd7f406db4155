SPECIFICATION Spec
CONSTANTS
  Size = 5
  MoveSet <- Moves
  Fine = 10000
  Emit = 900
  MinCentre = 500
  Rho = 1
  Window = 5
  ZeroWeight = 6
  Configs <- MCConfigs
  None = None
  CopStart <- Corner
  ThiefStart <- Middle
  MaxBarriers = 1
  ResyncAt = 3684136
  Turns = 3
CHECK_DEADLOCK FALSE
INVARIANTS
  SameContract
  TruthStandsOut
  NoFalseResync
  ScentPinpoints
