SPECIFICATION Spec
CONSTANTS
  Ids <- MCIds
  Payload <- MCPayload
  Flag = {1}
  MaxPacks = 2
  MaxMsg = 2
  INT32_MAX = 30
INVARIANTS
  TypeOK
  RoundTrip
  LenTellsWhole
  HeaderSurvives
