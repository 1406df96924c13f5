SPECIFICATION MCSpec
CONSTANTS
  None = None
  UsedUpYield = 100
  MinRatio = 2
  MinExtra = 100
  SwapCost = 10
  TopN = 3
  CarryRate = 4
  NoTimeValue = 5
  StrikeSpan = 1
  ExpiryCount = 8
  MaxStrikeRows = 3
  MinOpenInterest = 10
  MinVolume = 1
  MinBidSize = 10
  t1 = t1
  t2 = t2
  Contract <- OnePut
  Start <- HeldPut
  Tab = {t1, t2}
  Market <- TwoMarkets
  Sizes = {1, 2}
  Entry <- EntryRules
  Underlying = "own"
  Picks <- SomePicks
  BalancesTTL = 1
  SwapTTL = 2
  MaxClock = 2
  MaxReads = 2
  MaxRequests = 2
  MaxTrades = 1
  PanelContract <- PutAndCall
  PanelMarket <- SomeMarkets
  Held <- SomeHeld
  Board <- SomeBoards
  Quote <- SomeQuotes
  History <- SomeHistories
  TargetDelta = 20
  MaxAbsDelta = 30
  SearchReach = 10
  LiquidReach = 5
  SearchSize = {1, 3}
  Universe <- SomeUniverses
  Scored <- SomeRows
  Weights <- FactorWeights
  MaxLeverage = 400
  MinMetricsPresent = 6
  TopNames = 1
  PrerankKeep = 1
  UniverseLimit = 2
  MaxPerSector = None
  MinStrength = None
  MinBucket = 2
  MinRated = 5
  YieldGood = 250
  YieldSatisfactory = 150
  MinScore = None
SYMMETRY TabSymmetry
CHECK_DEADLOCK FALSE
INVARIANTS RightSize RefreshIsNew RowAgrees RollsMatchGrid SearchHidesNothing
  GatedTakeNoSlot UnratedInTheMiddle
