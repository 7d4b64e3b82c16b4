SPECIFICATION RaceSpec
CONSTANTS
  h1 = h1
  none = none
  Handle = {h1}
  INVALID_SOCKET = none
  HEART_SECOND = 2
  MaxInbox = 2
  MaxPings = 2
INVARIANTS
  HealthyCloseExplained
