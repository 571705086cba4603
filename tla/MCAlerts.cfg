CONSTANTS
  f1 = f1
  f2 = f2
  Fixture <- Fixtures
  MaxGoals = 1
  Game = {g1}
  Pitcher = {p1, p2}
  First = p1
  Starts = {"T8", "B9+"}
  MaxRuns = 1
  Worker = {w1, w2}
  Option = {o1}
  Choice = {off, on}
  Default = off
  CfgTtl = 1
  LastTick = 3
  Match = {m1, m2}
  Locker = {old, new}
  LockMinutes = 1
  GraceMinutes = 2
  FirstPitch = 1
  Delay = 1
  LastMinute = 3
  Series = {x1}
  Team <- Teams
  Sweeper = {job, page}
  Missing = Missing
  MaxGames = 1
  Club <- Clubs
  Price = {40, 66}
  Drift <- Drifts
  Spread = 7
  h1 = h1
  h2 = h2
  Contest <- Contests
  DateOf <- ContestDates
  SeasonEnd = 2
  BatchLimit = 2
  BuildWidth = 2
  Moment = {0, 1, 2, 3}
  DayOpen = 1
  LockAt = 2
  FirstPitchAt = 3
  TickLag = 1
  OpenTickLag = 1
  BarLag = 1
  TapePage = 2
  TapePages = 2
SPECIFICATION AlertsSpec
SYMMETRY Symm
CONSTRAINT Explored
INVARIANTS AlertsTypeOK OutcomesAreFinal RowsAreOfTheGame ConfigIsRecent VerdictsAreHonest ScoringIsFair
PROPERTIES NoStaleAlert TablesAreLogs
CHECK_DEADLOCK FALSE
