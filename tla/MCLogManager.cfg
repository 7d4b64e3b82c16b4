SPECIFICATION FairSpec
CONSTANTS
  m1 = m1
  m2 = m2
  Message = {m1, m2}
  MaxMessages = 4
INVARIANTS
  TypeOK
  NoMessageSleeps
  SeenIsOnDisk
PROPERTIES
  ReachesDisk
  LossIsNoticed
  KeepsJournal
  ClosesUnlessLost
