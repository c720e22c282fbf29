SPECIFICATION Spec
CONSTANTS
  Brightnesses <- MCBrightnesses
  Kelvins <- MCKelvins
  Pressed <- MCPressed
  TiesUp <- MCTiesUp
  None = None
  MaxCalls = 3
  MaxPresses = 2
  MaxFaults = 1
INVARIANTS FollowsLamp LightRemembered
PROPERTY RestKept
CHECK_DEADLOCK FALSE
