SPECIFICATION Spec
CONSTANTS
  h1 = h1
  h2 = h2
  none = none
  Handle = {h1, h2}
  INVALID_SOCKET = none
  HEART_SECOND = 2
  MaxInbox = 2
  MaxPings = 2
SYMMETRY HandleSymmetry
INVARIANTS
  TypeOK
  IInv
  WinsockBalance
  NoSocketLeak
  ConnectedHasSocket
  FreshSocketOnConnect
  NeverBlocksInRecv
  AuthorizedOnce
  NoWaitCycle
PROPERTIES
  OneSession
