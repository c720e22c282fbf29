\* On demand: an open link is idle, in use, or left behind by an interruption.
SPECIFICATION FairInterruptedSpec
CONSTANTS
  k1 = k1
  k2 = k2
  Keys <- MCKeys
  NoKey = NoKey
  AppKey = AppKey
  OnDemand = TRUE
  MaxFaults = 2
  MaxQueue = 1
PROPERTIES LockReleased CheckInRestores RemovesOnlyReleased AbandonedLinkSettled
CHECK_DEADLOCK FALSE
