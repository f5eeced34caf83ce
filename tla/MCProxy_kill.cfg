SPECIFICATION Spec
CONSTANTS
  Conns = {1, 2}
  Calls = {"q", "r"}
  Ops = {"kill", "killall"}
  NShards = 2
  ShardOf <- MCShardOf
  Knobs = {"termination"}
  InitKnob <- MCInitKnobOn
  HasDuration = FALSE
  Endings = {"io", "shutdown"}
INVARIANTS
  TypeOK
  SenderHeldOnce
  ListedIsServed
  KillVerdict
  KillAllCovers
PROPERTIES
  ImplementsKillSwitch
  ClaimsAreUsed
