\* Two tasks, no losses: a command behind an unpair.
SPECIFICATION ReleasedSpec
CONSTANTS
  k1 = k1
  k2 = k2
  Keys <- MCKeys
  NoKey = NoKey
  AppKey = AppKey
  OnDemand = TRUE
  MaxFaults = 0
  MaxQueue = 2
  MaxReloads = 0
  MaxRestarts = 0
PROPERTY ReleasedStaysFree
CHECK_DEADLOCK FALSE
