SPECIFICATION Spec
CONSTANTS
  Cap = 2
  MaxSent <- MCMaxSent
  Timed = {TRUE, FALSE}
  CanDelay = TRUE
  CanTerminate = TRUE
INVARIANTS
  TypeOK
  QuietMeansStuck
  OutcomeJustified
PROPERTIES
  KillCutsOff
  KillSeen
  KillStopsInTime
