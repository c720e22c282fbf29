SPECIFICATION FairSpec
CONSTANTS
  k1 = k1
  k2 = k2
  Keys <- MCKeys
  NoKey = NoKey
  AppKey = AppKey
  OnDemand = FALSE
  MaxFaults = 2
  MaxQueue = 1
PROPERTY ResetIsRecovered
CHECK_DEADLOCK FALSE
