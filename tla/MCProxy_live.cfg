SPECIFICATION Spec
CONSTANTS
  Conns = {1, 2}
  Calls = {"q"}
  Ops = {"list", "set", "kill", "killall"}
  NShards = 2
  ShardOf <- MCShardOf
  Knobs = {"termination"}
  InitKnob <- MCInitKnobOn
  HasDuration = TRUE
  Endings = {"ok", "io", "shutdown", "terminated", "timeout"}
INVARIANTS
  ListComplete
  ResetIsForFaults
PROPERTIES
  CallsAnswered
  EndedIsDelisted
  TimedConnectionsEnd
