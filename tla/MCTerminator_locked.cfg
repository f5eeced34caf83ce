SPECIFICATION Spec
CONSTANTS
  Setters = {"s1", "s2"}
  Listers = {"x"}
  Rates <- MCRates
  Den = 16
  Draws = 8
  Locked = TRUE
  Streams = {"a", "b"}
  MaxThrough = 2
INVARIANTS
  TypeOK
  SettledPair
PROPERTIES
  OffMeansOff
  BlownFuseBlocks
CHECK_DEADLOCK FALSE
