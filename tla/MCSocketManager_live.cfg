SPECIFICATION FairSpec
CONSTANTS
  h1 = h1
  h2 = h2
  none = none
  Handle = {h1}
  INVALID_SOCKET = none
  HEART_SECOND = 1
  MaxInbox = 1
  MaxPings = 1
PROPERTIES
  Reconnects
  SilentPeerDropped
  InputReturns
