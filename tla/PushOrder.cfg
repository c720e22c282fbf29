\* One request, two pushes, one link.
SPECIFICATION Spec
CONSTANTS
  SeqMod = 2
  Patience = 1
  MaxRequests = 1
  MaxPushes = 2
  MaxLinks = 1
PROPERTY NeverBackwards
CHECK_DEADLOCK FALSE
