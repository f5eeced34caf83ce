------------------------------- MODULE Adapters -------------------------------
(***************************************************************************)
(* What tokio-netem's adapters share: each implements AsyncRead,           *)
(* AsyncBufRead and AsyncWrite, acts on some of the operations, and hands  *)
(* every other one to the stream it wraps, as it is.                       *)
(*                                                                         *)
(* "fill" stands for poll_fill_buf, "write" for poll_write, "vectored" for *)
(* poll_write_vectored.  consume() and set_reset_linger() are forwarded by *)
(* all adapters.                                                           *)
(***************************************************************************)
EXTENDS Naturals, Sequences

\* The adapters without knobs of their own ask the oneshot first, always ...
ShutdownerActsOn == {"read", "fill", "write", "vectored", "flush", "shutdown"}

\* ... or draw, except for a buffered read.
TerminatorActsOn == {"read", "write", "vectored", "flush", "shutdown"}

\* Vectored writes and buffered reads are never corrupted.
CorrupterActsOn == {"read", "write"}

ReadInjectorActsOn == {"read"}

WriteInjectorActsOn == {"write"}

SlicedWriterActsOn == {"write", "vectored"}

ThrottledReaderActsOn == {"read"}

ThrottledWriterActsOn == {"write", "vectored"}

DelayedReaderActsOn == {"read"}

\* A flush is not delayed.
DelayedWriterActsOn == {"write", "vectored", "shutdown"}

ActsOn ==
  [Shutdowner      |-> ShutdownerActsOn,
   Terminator      |-> TerminatorActsOn,
   Corrupter       |-> CorrupterActsOn,
   ReadInjector    |-> ReadInjectorActsOn,
   WriteInjector   |-> WriteInjectorActsOn,
   SlicedWriter    |-> SlicedWriterActsOn,
   ThrottledReader |-> ThrottledReaderActsOn,
   ThrottledWriter |-> ThrottledWriterActsOn,
   DelayedReader   |-> DelayedReaderActsOn,
   DelayedWriter   |-> DelayedWriterActsOn]

Kinds == DOMAIN ActsOn

Member(kind, stack) == \E i \in DOMAIN stack : stack[i] = kind

\* Where an operation stops on its way down a stack: at the adapters that act
\* on it, and at what lies below them all.
Stops(stack, op) == {i \in DOMAIN stack : op \in ActsOn[stack[i]]} \cup {Len(stack) + 1}

\* The next stop below position i (the owner is at 0), as a set.
Below(stack, op, i) ==
  {j \in Stops(stack, op) : i < j /\ \A k \in Stops(stack, op) : i < k => j <= k}

\* What trixter wraps the client's socket in, the proxy's side first.
ClientSide ==
  <<"Shutdowner", "Corrupter", "Terminator",
    "SlicedWriter", "ThrottledWriter", "DelayedWriter">>

Least(a, b) == IF a < b THEN a ELSE b
=============================================================================
