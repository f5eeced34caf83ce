SPECIFICATION Spec
CONSTANTS
  Second = 2
  NapCap = 1
  NapBytes = 1
  Setups <- MCSetups
  Rates = {0, 1, 2}
  Delays = {0, 2}
  Corrupts = {"never", "sometimes"}
  Capacity = 2
  Total = 4
  MaxBuf = 2
  MaxPayload = 2
INVARIANTS
  TypeOK
  NothingLost
  EofTruthful
  RateMetered
  NeverPanics
PROPERTIES
  BurstDelayed
  ReadsAnswered
