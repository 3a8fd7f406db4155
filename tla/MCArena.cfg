SPECIFICATION Spec
CONSTANTS
  Size = 3
  MoveSet <- Moves
  MaxBarriers = 3
  CageRadius = 2
  HerdK = 2
  MobilityK = 2
  SealableExits = 2
  RecentWindow = 2
  DecoyMargin = 3
  Jitter = 13
  CentralFloor = 2
  LaneFloor = 1
  CageRange = 3
  Pairings <- AllPairings
  Starts <- CornerStart
  SurvivalThreshold = 5
  MaxMoves = 4
INVARIANTS
  NoMissedCapture
  RefusedOnlyImmured
  RouteKept
  KeepsAway
PROPERTY NoTrapEntered
