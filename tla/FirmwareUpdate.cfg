\* One restart or change of the option, one change of a server or of the catalogue.
SPECIFICATION FairSpec
CONSTANTS
  junk = junk
  Versions <- MCVersions
  Firmware <- MCFirmware
  Junk <- junk
  None = None
  MaxTrouble = 2
  MaxLives = 1
INVARIANT HonestVersion
PROPERTIES OneHostIsEnough CheckedOnceKnown
CHECK_DEADLOCK FALSE
