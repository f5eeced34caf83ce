------------------------------- MODULE ByteSink -------------------------------
(***************************************************************************)
(* What tokio's AsyncWrite promises to the owner of a writer: a write that *)
(* is ready with n took exactly the first n bytes offered, and one that is *)
(* pending, however often it is polled and even if it is then abandoned,   *)
(* took none.  Bytes are told apart by their numbers.                      *)
(***************************************************************************)
EXTENDS Naturals, Sequences

VARIABLES
  stream,  \* the bytes taken, in order
  next,    \* the first byte the owner has not been rid of
  len      \* length of the buffer next.. on offer, 0 if there is none

sinkVars == <<stream, next, len>>

\* The bytes from .. from + n - 1.
Bytes(from, n) == [i \in 1..n |-> from + i - 1]

Init == stream = <<>> /\ next = 1 /\ len = 0

\* A new buffer, or more of the same.
Offer ==
  /\ len' \in Nat /\ len' > len
  /\ UNCHANGED <<stream, next>>

Take ==
  /\ len > 0
  /\ \E n \in 0..len : stream' = stream \o Bytes(next, n) /\ next' = next + n
  /\ len' = 0

\* The owner gives up: it may offer the same bytes again, or go on.
Withdraw ==
  /\ len > 0
  /\ len' = 0 /\ next' \in {next, next + len}
  /\ UNCHANGED stream

Spec == Init /\ [][Offer \/ Take \/ Withdraw]_sinkVars
=============================================================================
