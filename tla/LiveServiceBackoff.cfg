SPECIFICATION Spec
CONSTANTS
  sym1 = sym1
  sym2 = sym2
  today = today
  tomorrow = tomorrow
  UpdateTypes <- StreamTypes
  Symbols = {sym1, sym2}
  Dates = {today, tomorrow}
  Session = today
  Held = {sym1}
  Review = TRUE
  FlushInterval = 1
  None = None
  Warnings = {w}
  Messages <- FeedMessages
  StaleAfter = 2
  PollInterval = 1
  InitialDelay = 1
  Multiplier = 2
  MaxDelay = 2
  MaxExponent = 1
  MaxLag = 1
  MaxBatch = 1
  MaxStarts = 1
  BadPortfolio = FALSE
INVARIANT
  RunsUntilStopped
CHECK_DEADLOCK FALSE
