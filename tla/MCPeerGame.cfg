SPECIFICATION FairSpec
CONSTANTS
  Size = 2
  MoveSet <- MCMoveSet
  CopStart <- CornerNW
  ThiefStart <- CornerSE
  MaxBarriers = 2
  MaxMoves = 3
  SurvivalThreshold = 3
  MaxBreaches = 2
  MaxTries = 2
  MaxFaults = 2
  Strays = {}
  MaxStrays = 0
  None = None
  Garbage = Garbage
INVARIANTS
  SeenIsPrefix
  OneToken
  MapsInSync
  NoHonestBreach
  CaptureSound
  NoSilentCapture
  NoFalseForgery
  NoConflictingVictory
  DigestAgreement
  FaultFreeAgreement
  RowTurnsAgree
PROPERTIES
  ImplementsTurnGame
  Terminates
