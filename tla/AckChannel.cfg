\* Two sequence ids, so that they wrap; two links.
SPECIFICATION Spec
CONSTANTS
  SeqMod = 2
  Patience = 1
  MaxRequests = 3
  MaxPushes = 3
  MaxLinks = 2
INVARIANTS TypeOK OwnAnswer WholeAnswer PushKept
PROPERTY LateOnlyFromSetUp
CHECK_DEADLOCK FALSE
