SPECIFICATION PolicySpec
CONSTANTS
  Procs = {admin, other}
  Admins = {admin, other}
  FailClosed = {admin, other}
  Missing = Missing
  Corrupt = Corrupt
INVARIANT PauseInForce
