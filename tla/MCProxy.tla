------------------------------ MODULE MCProxy -------------------------------
(* Small instances of Proxy for TLC: ids are numbers that alternate between  *)
(* two shards, so that a scan meets a map that changes behind and before it. *)
EXTENDS Proxy

MCShardOf == [c \in Conns |-> c % NShards]

\* Termination configured on the command line.
MCInitKnobOn == [k \in Knobs |-> 1]
=============================================================================
