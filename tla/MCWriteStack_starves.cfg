SPECIFICATION Spec
CONSTANTS
  Second = 2
  NapCap = 1
  NapBytes = 1
  Setups <- MCGarbage
  Buffered <- MCNone
  Sizes = {0, 1}
  Rates = {0, 1, 2}
  Delays = {2}
  Corrupts = {"always"}
  Total = 2
  MaxBuf = 2
  MaxPayload = 2
  Abandons = TRUE
  Careful = TRUE
PROPERTIES
  Answered
