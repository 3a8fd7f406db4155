SPECIFICATION MCSpec
CONSTANTS
  BrainDeadline = 2
  TurnTimeout = 7
  SendBudget = 9
  RetryInterval = 1
  Stall = 3
  Poll = 2
  Watched = "police"
  Turns = 2
  MaxOutage = 2
  MaxOutages = 2
  MaxHangs = 1
  DailyQuota = 4
  Day = 7
  Capacity = 2
  Refill = 1
  Cost = 2
  Threshold = 2
  Cooldown = 2
  MaxPerHour = 2
  Hour = 3
  MaxFailures = 4
  Never = Never
  Bodies = {"b1", "b2", "b3", "b4"}
  OffBoard <- Beyond
  Far <- Apart
  LogSteps = 2
  MaxEdits = 1
  Edge = 3
  Spoken = {"N", "S", "E", "W"}
  HintAlpha = 1
  HintBeta = 1
  Kept = 3
  OutOf = 4
  Below = 3
  Of = 10
  LieInversion = TRUE
  Mass = 2
  MaxHints = 2
  MaxMasked = 1
  MaxProfiled = 2
  Total = 4
  Count = 2
  Fixed = TRUE
  First = FALSE
  Earlier <- AllLeft
  Kinds <- AnyFailure
  Points <- Table17
  Tellings <- MCTellings
INVARIANT
  NoStepSkipped
