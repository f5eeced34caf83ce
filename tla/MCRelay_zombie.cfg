SPECIFICATION Spec
CONSTANTS
  Cap = 2
  MaxSent <- MCMaxSent
  Timed = {FALSE}
  CanDelay = TRUE
  CanTerminate = TRUE
PROPERTIES
  KillStops
