SPECIFICATION LadderSpec
CONSTANTS
  None = None
  UsedUpYield = 100
  MinRatio = 2
  MinExtra = 100
  SwapCost = 10
  TopN = 3
  CarryRate = 4
  NoTimeValue = 5
  StrikeSpan = 1
  ExpiryCount = 8
  MaxStrikeRows = 3
  MinOpenInterest = 10
  MinVolume = 1
  MinBidSize = 10
  CallValue <- Hyperbola
  CallDelta <- HyperbolaDelta
  PathPrice <- Steady
  RollMin = 28
  RollMax = 45
  OpenMin = 28
  OpenMax = 45
  MaxDays = 90
  GapDaysLeft = 10
  MaxRungs = 12
  PlanDays = 1460
  ReportEvery = 91
  Fridays <- Weekly
  ThirdFridays <- Monthly
  Form <- SomeForms
  Pull <- SomePulls
  MaxCalls = 16
CHECK_DEADLOCK FALSE
INVARIANTS NoCallSpansAReport ClimbsOnly PlannedRungs LinesTellTheCalls
