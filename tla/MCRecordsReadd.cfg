CONSTANTS
  g1 = g1
  g2 = g2
  g3 = g3
  Game <- Games
  DayOf <- GameDays
  LastDay = 3
  Click = {c1}
  BatchDays = 2
  ClickDays = 1
  Concurrency = 2
  m1 = m1
  m2 = m2
  Market <- Markets
  SlugDay <- Slugs
  LastDate = 4
  BatchSize = 2
  BatchWidth = 2
  wa = wa
  wb = wb
  ua = ua
  ub = ub
  Nobody = Nobody
  Wallet <- Wallets
  User <- Users
  Legacy <- Wallets
  Window = 1
  MaxTrades = 2
  MaxRows = 3
  s1 = s1
  v1 = v1
  v2 = v2
  Syncer <- Syncers
  Viewer <- Viewers
  Taker <- Takers
  MaxFills = 2
  MatchTtl = 1
  Latency = 1
  LastTime = 4
  x1 = x1
  x2 = x2
  Asset <- Assets
  Size = {1, 3}
  Price = {2}
  FillFee = {1}
  MaxTape = 4
  CashFee = {0, 5}
  MaxLegs = 3
  Rate = 5
  na = na
  nb = nb
  i1 = i1
  i2 = i2
  Name <- Names
  Invite <- Invites
  Person = {p1}
  MaxPassword = 2
  MaxRequests = 3
  Runs = {0, 1}
  Ticks <- GameTicks
  LastHalf = 4
  Regulation = 2
  PathHalves = 6
  WideNet = 65
  TiedNet = 80
  MaxDeficitStored = 6
  Setting <- Settings
  Verdicts <- GameVerdicts
SPECIFICATION RecordsSpec
SYMMETRY Symmetry
CHECK_DEADLOCK FALSE
INVARIANT ReaddingResurrects
