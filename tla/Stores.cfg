SPECIFICATION MCSpec
CONSTANTS
  None = None
  u1 = u1
  u2 = u2
  u3 = u3
  k1 = k1
  k2 = k2
  v1 = v1
  v2 = v2
  x1 = x1
  x2 = x2
  x3 = x3
  r1 = r1
  r2 = r2
  c1 = c1
  c2 = c2
  s1 = s1
  s2 = s2
  p1 = p1
  p2 = p2
  User <- Users
  Key <- Keys
  Value <- Values
  TTL = 1
  MaxUsers = 2
  MaxEntries = 1
  MaxClock = 2
  Nothing = Nothing
  Ticker = {x1, x2, x3}
  Misspelt = {x3}
  Visitor = {c1, c2}
  MaxListed = 1
  Sources <- SomeSources
  Runs = 3
  Together = 2
  Deaths = 1
  Keep = 1
  Incoming <- SomeRequests
  Caller = {c1, c2}
  PerWindow = 2
  Window = 2
  MaxAddresses = 1
  LastTick = 3
  Gone = "-"
  Month = 10
  Match <- SomeMatches
  SeriesOf = {"n1", "n2"}
  Person = {u1}
  Reader = {r1, r2}
  Portfolio = {p1}
  Exchange <- TwoEditions
  Today = 3
  Outage <- SomeOutages
  StartBonds <- SomeBonds
  FileRows <- SomeFiles
  Period <- SomePeriods
  BuildTTL = 1
  ProblemTTL = 0
  MaxBuilds = 1
  LastHour = 1
  MaxAsks = 2
  MaxImports = 1
  Searcher = {s1, s2}
  Query = {"newer", "far", "no"}
  Lists <- SomeLists
  Elsewhere = {"far"}
  Short = {"no"}
  ListTTL = 1
  ListRetry = 2
  MaxSearches = 1
  LastSecond = 3
  MaxSearched = 3
SYMMETRY Opaque
CHECK_DEADLOCK FALSE
PROPERTIES EvictsLeastRecent IsForgetfulCache PastCapOnlyCrossing ListIsLookedAfter
INVARIANTS FinishedIsComplete WindowsAreExact  AddsUp
