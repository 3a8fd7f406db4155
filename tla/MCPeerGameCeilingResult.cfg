SPECIFICATION Spec
CONSTANTS
  Size = 2
  MoveSet <- MCMoveSet
  CopStart <- CornerNW
  ThiefStart <- CornerSE
  MaxBarriers = 2
  MaxMoves = 2
  SurvivalThreshold = 3
  MaxBreaches = 2
  MaxTries = 2
  MaxFaults = 0
  Strays = {}
  MaxStrays = 0
  None = None
  Garbage = Garbage
INVARIANTS
  SameResult
