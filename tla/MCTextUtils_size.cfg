SPECIFICATION Spec
CONSTANTS
  Char = {"a", "e", "g"}
  Bytes <- MCBytes
  Units <- MCUnits
  Pong <- MCPong
  InputSize = 4
  BufLen = 5
  MaxTyped = 2
  MaxTexts = 2
INVARIANT SizeWithoutNull
CHECK_DEADLOCK FALSE
