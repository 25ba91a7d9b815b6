SPECIFICATION Spec
CONSTANTS
  control = control
  dashboard = dashboard
  a = a
  b = b
  Machines = {"file", "policy", "threads", "changes", "backtest", "study", "data"}
  Writers = {w1, w2}
  Docs = {d1, d2}
  Inodes = {1, 2, 3}
  None = None
  Torn = Torn
  Nothing = Nothing
  Procs = {admin, other}
  Admins = {admin}
  FailClosed = {admin, other, api}
  Missing = Missing
  Corrupt = Corrupt
  Servers <- MCServers
  NoServer = NoServer
  Api = api
  Cli = cli
  Drills = drills
  Control = control
  Commands = {"smoke", "validation", "staging"}
  TestStream = FALSE
  MaxEvidence = 2
  NoValue = NoValue
  Tickers <- MCTickers
  Markets <- MCMarkets
  Setups <- MCSetups
  Plans <- MCPlans
  Companies = {acme}
  Clients = {p1, p2}
  Asked <- MCAsked
  Weekend = {1}
  Ttl = 2
  EventDays = {2}
  RiskDays = 1
  NoEvent = NoEvent
  LastTick = 4
  MaxCalls = 2
  MaxMoves = 1
INVARIANTS
  TypeOK
  ToldIsInForce
  PolicyHolds
  SmokeEarned
  CashReconciles
  SlotsRespected
  FoldsAreBlind
  AnswersAsSent
PROPERTIES
  SavesReplace
  IntactIsTrue
  StopsHonoured
  LooksBackOnly
  CommandEnds
CHECK_DEADLOCK FALSE
