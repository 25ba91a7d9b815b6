SPECIFICATION Spec
CONSTANTS
  s1 = s1
  x1 = x1
  live = live
  cli = cli
  None = None
  Symbols = {s1}
  Sectors = {x1}
  BreadthStates = {"weak", "strong"}
  VolatilityStates = {"calm"}
  Procs = {live, cli}
  Live = live
  Summaries <- MCSummaries
  Reviews <- MCReviews
  Requests <- MCRequests
  MaxCycles = 3
INVARIANTS TypeOK PictureTrue ErrsOnCaution AlertsHaveTransitions UrgentIsAlerted FilesExplainChanges
CHECK_DEADLOCK FALSE
