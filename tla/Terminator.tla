----------------------------- MODULE Terminator -----------------------------
(***************************************************************************)
(* tokio-netem/src/terminator.rs with try_trigger of probability.rs: the   *)
(* terminators of a connection (one per side) sharing one dynamic knob.    *)
(* They read only the threshold, and take no lock; set() may come between  *)
(* the load of the threshold and what follows from it.                     *)
(*                                                                         *)
(* Bound: MaxThrough operations reach the wrapped stream of a terminator.  *)
(***************************************************************************)
EXTENDS DynamicProbability

CONSTANTS
  Streams,    \* terminators
  MaxThrough

ASSUME TerminatorAssumption == MaxThrough \in Nat

NoPoll == -1

VARIABLES
  triggered,  \* triggered[t]: the fuse of terminator t is blown
  loaded,     \* loaded[t]: the threshold the poll under way has loaded, or NoPoll
  through,    \* through[t]: polls that reached its inner stream ...
  buffered,   \* buffered[t]: ... and those of them that were poll_fill_buf
  shownOff    \* shownOff[t]: when the poll under way began, a listing showed 0.0

fuseVars == <<triggered, loaded, through, buffered, shownOff>>
vars == <<knobVars, fuseVars>>

TypeOK ==
  /\ KnobTypeOK
  /\ triggered \in [Streams -> BOOLEAN]
  /\ loaded \in [Streams -> 0..MaxDraw \cup {NoPoll}]
  /\ through \in [Streams -> 0..MaxThrough] /\ buffered \in [Streams -> 0..MaxThrough]
  /\ shownOff \in [Streams -> BOOLEAN]

Init ==
  /\ KnobInit
  /\ triggered = [t \in Streams |-> FALSE]
  /\ loaded = [t \in Streams |-> NoPoll]
  /\ through = [t \in Streams |-> 0] /\ buffered = [t \in Streams |-> 0]
  /\ shownOff = [t \in Streams |-> FALSE]

\* A terminator is polled by one task at a time.
Unpolled(t) == loaded[t] = NoPoll

\* Mutant: every poll draws again, the fuse is not looked at.
PollAnew(t) ==
  /\ Unpolled(t)
  /\ loaded' = [loaded EXCEPT ![t] = threshold]
  /\ shownOff' = [shownOff EXCEPT ![t] = \E x \in Listers : listed[x] = 0]
  /\ UNCHANGED <<knobVars, triggered, through, buffered>>

\* poll_read, poll_write, poll_write_vectored, poll_flush and poll_shutdown
\* begin with try_trigger; a blown fuse answers with the error at once.
Poll(t) ==
  /\ Unpolled(t) /\ ~triggered[t]
  /\ loaded' = [loaded EXCEPT ![t] = threshold]
  /\ shownOff' = [shownOff EXCEPT ![t] = \E x \in Listers : listed[x] = 0]
  /\ UNCHANGED <<knobVars, triggered, through, buffered>>

\* Mutant: a draw equal to the threshold hits, and 0 has no case of its own.
HitsInclusive(th, draw) == draw <= th

\* No draw at threshold 0, and only a draw strictly below it blows the fuse.
Hits(th, draw) == th # 0 /\ draw < th

Pass(t) == through[t] < MaxThrough /\ through' = [through EXCEPT ![t] = @ + 1]

\* The rest of try_trigger: the error, or the operation of the inner stream.
Decide(t) ==
  /\ ~Unpolled(t)
  /\ \E draw \in 0..MaxDraw :
       IF Hits(loaded[t], draw)
         THEN triggered' = [triggered EXCEPT ![t] = TRUE] /\ UNCHANGED through
         ELSE Pass(t) /\ UNCHANGED triggered
  /\ loaded' = [loaded EXCEPT ![t] = NoPoll]
  /\ shownOff' = [shownOff EXCEPT ![t] = FALSE]
  /\ UNCHANGED <<knobVars, buffered>>

\* AsyncBufRead::poll_fill_buf goes straight to the inner stream.
FillBuf(t) ==
  /\ Unpolled(t) /\ Pass(t)
  /\ buffered' = [buffered EXCEPT ![t] = @ + 1]
  /\ UNCHANGED <<knobVars, triggered, loaded, shownOff>>

Next ==
  \/ KnobNext /\ UNCHANGED fuseVars
  \/ \E t \in Streams : Poll(t) \/ Decide(t) \/ FillBuf(t)

Spec == Init /\ [][Next]_vars

-----------------------------------------------------------------------------

\* A listing that shows 0.0 can be relied on: until the next set() stores, no
\* operation that begins blows a fuse, and neither does one of them that ends
\* later (ApiState::all reads the rate, try_trigger the threshold).
OffMeansOff ==
  [][\A t \in Streams : shownOff[t] => triggered'[t] = triggered[t]]_vars

\* Polls of the stream that did not go through the buffered-read interface.
Unbuffered(t) == through[t] - buffered[t]

\* A blown fuse lets no read, write, flush or shutdown through any more,
\* whatever the knob is set to afterwards; buffered reads, which the code does
\* let through, are not counted ("all subsequent reads, writes, flushes, and
\* shutdowns return io::Error::other(TERMINATED_ERROR)", terminator.rs).
BlownFuseBlocks ==
  [][\A t \in Streams : triggered[t] => triggered'[t] /\ Unbuffered(t)' = Unbuffered(t)]_vars
=============================================================================
