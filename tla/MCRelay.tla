------------------------------- MODULE MCRelay ------------------------------
(* Small instances of Relay for TLC: the client can fill the copy buffer of   *)
(* two bytes, the upstream sends one byte, which its buffer never runs out of.*)
EXTENDS Relay

MCMaxSent == [s \in Sides |-> IF s = "down" THEN 2 ELSE 1]
=============================================================================
