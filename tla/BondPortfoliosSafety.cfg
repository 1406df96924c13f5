SPECIFICATION Spec
CONSTANTS
  u1 = u1
  u2 = u2
  p1 = p1
  p2 = p2
  p3 = p3
  main = main
  other = other
  isin = isin
  secid = secid
  third = third
  r1 = r1
  r2 = r2
  r3 = r3
  t1 = t1
  rep1 = rep1
  rep2 = rep2
  Person <- People
  Portfolio <- Portfolios
  Name <- Names
  Key <- Keys
  Request <- Requests
  Token <- OneToken
  Report <- Reports
  Aliases <- TwoCodes
  Lists <- SomeLists
  Quantity = {1}
  LegacyName = main
  MaxBonds = 1
  MaxPortfolios = 2
  NoOne = NoOne
SYMMETRY Opaque
CHECK_DEADLOCK FALSE
INVARIANTS NamesApart WithinCaps
PROPERTIES OnlyTheirRows StartsMoveOnce
