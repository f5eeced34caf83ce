----------------------------- MODULE KillSwitch -----------------------------
(***************************************************************************)
(* What the connection registry of trixter promises about the one-shot     *)
(* shutdown sender of every connection, without any of its machinery.      *)
(*                                                                         *)
(* The sender is published once, claimed at most once, and whoever claims  *)
(* it (an API request or the connection's own handler) is the only one     *)
(* that ever consumes it.  A published sender never comes back.            *)
(***************************************************************************)
CONSTANTS
  Conns,   \* connections, each with a shutdown sender of its own
  Calls    \* API requests that may claim senders

VARIABLES
  place,   \* place[c]: where the sender of c is
  taker    \* taker[c]: the API requests that hold it, {} or a singleton

vars == <<place, taker>>

Places == {"unborn", "listed", "taken", "spent"}

TypeOK ==
  /\ place \in [Conns -> Places]
  /\ taker \in [Conns -> SUBSET Calls]

Init ==
  /\ place = [c \in Conns |-> "unborn"]
  /\ taker = [c \in Conns |-> {}]

\* The handler of c publishes the sender.
Publish(c) ==
  /\ place[c] = "unborn"
  /\ place' = [place EXCEPT ![c] = "listed"]
  /\ UNCHANGED taker

\* Request q takes the sender out of the registry and now owns it.
Take(c, q) ==
  /\ place[c] = "listed"
  /\ place' = [place EXCEPT ![c] = "taken"]
  /\ taker' = [taker EXCEPT ![c] = {q}]

\* The only owner consumes it by sending the shutdown error.
Send(c) ==
  /\ place[c] = "taken"
  /\ place' = [place EXCEPT ![c] = "spent"]
  /\ taker' = [taker EXCEPT ![c] = {}]

\* The handler cleans up first: the sender is dropped unused.
Discard(c) ==
  /\ place[c] = "listed"
  /\ place' = [place EXCEPT ![c] = "spent"]
  /\ UNCHANGED taker

Next ==
  \E c \in Conns :
    \/ Publish(c)
    \/ \E q \in Calls : Take(c, q)
    \/ Send(c)
    \/ Discard(c)

Safety == Init /\ [][Next]_vars

\* A request that claimed a sender goes on to use it.
Liveness == \A c \in Conns : WF_vars(Send(c))

Spec == Safety /\ Liveness
=============================================================================
