SPECIFICATION Spec
CONSTANTS
  a = a
  f = f
  Name <- Names
  Fund <- OneFund
  Contract <- Puts4
  Markets <- QuotedMarkets
  Criteria <- PlainCriteria
  Modes = {"batch"}
  Workers = 1
  Chunk = 3
  MaxScreens = 2
CHECK_DEADLOCK FALSE
INVARIANT CompleteHasWholeChains
