\* Two firmware versions, a reset between them, and a restart between any two writes.
SPECIFICATION FairSpec
CONSTANTS
  v1 = v1
  v2 = v2
  Versions <- MCVersions
  Unknown = Unknown
  MaxReads = 3
  MaxResets = 1
  MaxRestarts = 1
INVARIANTS TypeOK NotOnSilence
PROPERTIES NothingForgotten BoundedReads EntryCatchesUp
