SPECIFICATION Spec
CONSTANTS
  Second = 2
  NapCap = 1
  NapBytes = 1
  Setups <- MCDelayedThrottled
  Rates = {1}
  Delays = {0, 2}
  Corrupts = {"never", "sometimes"}
  Capacity = 2
  Total = 4
  MaxBuf = 2
  MaxPayload = 2
INVARIANTS
  RateMetered
