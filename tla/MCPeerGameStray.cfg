SPECIFICATION FairSpec
CONSTANTS
  Size = 2
  MoveSet <- MCMoveSet
  CopStart <- CornerNW
  ThiefStart <- CornerSE
  MaxBarriers = 2
  MaxMoves = 2
  SurvivalThreshold = 3
  MaxBreaches = 2
  MaxTries = 2
  MaxFaults = 0
  Strays <- MCStrays
  MaxStrays = 2
  None = None
  Garbage = Garbage
INVARIANTS
  WallsAccounted
  SurvivalCounted
PROPERTY
  Terminates
