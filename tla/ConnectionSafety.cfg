\* On-demand mode, with lamps that answer CRYPT_MSG and lamps that are mute about it.
SPECIFICATION Spec
CONSTANTS
  k1 = k1
  k2 = k2
  Keys <- MCKeys
  NoKey = NoKey
  AppKey = AppKey
  OnDemand = TRUE
  MaxFaults = 5
  MaxQueue = 2
SYMMETRY KeySymmetry
INVARIANTS TypeOK KeysMatchStore NeverLockedOut SessionProven ProbeBehindFailure
  BroadcastOnFreshProof IdleArmed
PROPERTIES OnlyCommandsPair RecordSurvives ImplementsOwnership
CHECK_DEADLOCK FALSE
