\* A reload or a re-addition, a restart, and a task cancelled or a link lost in whatever
\* surrounds them.
SPECIFICATION FairEntrySpec
CONSTANTS
  k1 = k1
  k2 = k2
  Keys <- MCKeys
  NoKey = NoKey
  AppKey = AppKey
  OnDemand = TRUE
  MaxFaults = 1
  MaxQueue = 1
  MaxReloads = 1
  MaxRestarts = 1
INVARIANTS RecordOutlivesUs OneController
PROPERTIES UnloadEnds ImplementsOwnership
CHECK_DEADLOCK FALSE
