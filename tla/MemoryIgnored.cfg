SPECIFICATION Spec
CONSTANTS
  sa = sa
  sb = sb
  sc = sc
  tech = tech
  NoValue = NoValue
  NoEntry = NoEntry
  NoDate = NoDate
  NoDecision = NoDecision
  NoBrokerId = NoBrokerId
  BrokerIds = {}
  Orders <- MCOrders
  BuyOrders <- MCOrders
  SymbolOf <- MCSymbolOf
  DecisionOf <- MCDecisionOf
  UnitPrice = 2
  SectorOf <- MCSectorOf
  Universe <- MCUniverse
  Presets <- MCPresets
  SignalSets <- MCSignalSets
  Markets <- MCMarkets
  Account <- MCAccount
  Limits <- MCLimits
  MaxDay = 2
  MaxSheets = 2
  MaxEdits = 3
  StaleAfterDays = 2
  GapResetDays = 1
  MaxAsOf = 4
  MaxRuns = 3
  Screens <- MCScreens
  Rules <- MCRules
  Holdings <- MCHoldings
  Entries <- MCEntries
  Stops = {95, 106}
  Histories <- MCHistories
  Tapes <- MCTapes
  LastDay = 3
  LastDate = 2
  LastBar = 3
  MaxSteps = 4
INVARIANT MemoryBreaksTies
CHECK_DEADLOCK FALSE
