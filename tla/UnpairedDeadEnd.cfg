SPECIFICATION FairSpec
CONSTANTS
  k1 = k1
  k2 = k2
  Keys <- MCKeys
  NoKey = NoKey
  AppKey = AppKey
  OnDemand = FALSE
  MaxFaults = 1
  MaxQueue = 1
PROPERTY RepairsItself
CHECK_DEADLOCK FALSE
