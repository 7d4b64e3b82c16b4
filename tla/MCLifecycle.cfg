SPECIFICATION FairLifeSpec
CONSTANTS
  m1 = m1
  Message = {m1}
  MaxMessages = 4
  Worker = {"recv", "heart"}
  MaxLines = 2
INVARIANTS
  LifeTypeOK
  AddsToOpenLog
  EndsClean
PROPERTY
  ExitEnds
