SPECIFICATION Spec
CONSTANTS
  a = a
  f = f
  Name <- Names
  Fund <- OneFund
  Contract <- Puts4
  Markets <- SomeMarkets
  Criteria <- SomeCriteria
  Modes = {"batch", "prefetch", "pool"}
  Workers = 1
  Chunk = 3
  MaxScreens = 2
CHECK_DEADLOCK FALSE
INVARIANTS NothingSpansAReport BlockedLeftAlone
  CompleteMissesNothing RowsAreThePicks
PROPERTY NothingAskedAfterCut
