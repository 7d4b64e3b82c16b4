SPECIFICATION FairSpec
CONSTANT MaxLines = 3
INVARIANTS
  TypeOK
  HiddenLinesExplained
  PrintsExclusive
PROPERTIES
  DroppedOnlyAtStart
  HandlersReturn
