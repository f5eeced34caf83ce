------------------------------- MODULE Proxy --------------------------------
(***************************************************************************)
(* trixter/src/main.rs: the accept loop, one handler task per connection,  *)
(* the shared registry (a DashMap) and the HTTP control API.               *)
(*                                                                         *)
(* The tasks run on a multi-threaded runtime: every action below is one    *)
(* DashMap operation, one oneshot operation or one stretch of a task that  *)
(* touches no shared state.  What flows through a connection is left to    *)
(* module Relay; here a copy ends with one of the outcomes it can have.    *)
(*                                                                         *)
(* Bounds: Conns accepted connections and Calls API requests per run.      *)
(***************************************************************************)
EXTENDS Naturals, FiniteSets

CONSTANTS
  Conns,         \* connection ids (nanoid: never reused)
  Calls,         \* API requests, each served by its own task
  Ops,           \* the kinds of request made in a run
  NShards,       \* number of shards of the DashMap
  ShardOf,       \* ShardOf[c]: the shard the id hashes to
  Knobs,         \* the tunables of a connection that a run looks at
  InitKnob,      \* their values in the command line configuration
  HasDuration,   \* connection_duration_ms > 0
  Endings        \* the outcomes of a copy that a run looks at

Outcomes == {"ok", "io", "shutdown", "terminated", "timeout"}
AllOps == {"list", "set", "kill", "killall"}
ProbabilityKnobs == {"termination", "corruption"}
AllKnobs == {"delay", "throttle", "slice"} \cup ProbabilityKnobs

\* Knob values: 0 is off.  For the probability knobs 1 stands for every rate
\* in (0, 1] and 2 for every rate outside [0, 1].
Values == 0..2

ValidFor(k, v) == k \in ProbabilityKnobs => v <= 1

ASSUME OpsAssumption == Ops \subseteq AllOps
ASSUME ShardAssumption == NShards \in Nat /\ ShardOf \in [Conns -> 0..(NShards - 1)]
ASSUME KnobAssumption ==
  /\ Knobs \subseteq AllKnobs /\ "termination" \in Knobs
  /\ InitKnob \in [Knobs -> Values]
  /\ \A k \in Knobs : ValidFor(k, InitKnob[k])
ASSUME DurationAssumption == HasDuration \in BOOLEAN /\ Endings \subseteq Outcomes

VARIABLES
  running,   \* FALSE once Ctrl-C broke the accept loop and the runtime drops
  handler,   \* handler[c]: progress of the task serving c
  result,    \* result[c]: how its copy ended
  reset,     \* connections whose two sockets were told to close with RST
  registry,  \* ids present in the DashMap
  knob,      \* knob[c][k]: the Arc'ed tunables, shared with the data path
  chan,      \* chan[c]: the oneshot, as its sender sees it
  pc,        \* pc[q]: progress of API request q
  op,        \* op[q]: what it does
  cursor,    \* cursor[q]: next shard of its iteration over the DashMap
  ids,       \* ids[q]: ids collected and, for killall, not removed yet
  held,      \* held[q]: ConnectionStates it removed and has not sent to yet
  failed,    \* failed[q]: a send of a killall failed
  status,    \* status[q]: the HTTP status it answered
  scope      \* scope[q]: history, the connections the request is about

connVars == <<handler, result, reset>>
callVars == <<pc, op, cursor, ids, held, failed, status, scope>>
vars == <<running, connVars, registry, knob, chan, callVars>>

Phases == {"none", "connecting", "copying", "ended", "removed", "closed", "dropped"}
Statuses == {"none", "200", "202", "400", "404", "500"}

TypeOK ==
  /\ running \in BOOLEAN
  /\ handler \in [Conns -> Phases]
  /\ result \in [Conns -> Outcomes \cup {"none"}]
  /\ reset \subseteq Conns
  /\ registry \subseteq Conns
  /\ knob \in [Conns -> [Knobs -> Values]]
  /\ chan \in [Conns -> {"none", "open", "sent", "dropped"}]
  /\ pc \in [Calls -> {"idle", "scan", "remove", "send", "done"}]
  /\ op \in [Calls -> AllOps \cup {"none"}]
  /\ cursor \in [Calls -> 0..NShards]
  /\ ids \in [Calls -> SUBSET Conns]
  /\ held \in [Calls -> SUBSET Conns]
  /\ failed \in [Calls -> BOOLEAN]
  /\ status \in [Calls -> Statuses]
  /\ scope \in [Calls -> SUBSET Conns]

Init ==
  /\ running = TRUE
  /\ handler = [c \in Conns |-> "none"]
  /\ result = [c \in Conns |-> "none"]
  /\ reset = {}
  /\ registry = {}
  /\ knob = [c \in Conns |-> InitKnob]
  /\ chan = [c \in Conns |-> "none"]
  /\ pc = [q \in Calls |-> "idle"]
  /\ op = [q \in Calls |-> "none"]
  /\ cursor = [q \in Calls |-> 0]
  /\ ids = [q \in Calls |-> {}]
  /\ held = [q \in Calls |-> {}]
  /\ failed = [q \in Calls |-> FALSE]
  /\ status = [q \in Calls |-> "none"]
  /\ scope = [q \in Calls |-> {}]

-----------------------------------------------------------------------------
(* The accept loop and the runtime.                                        *)

\* listener.accept() returned a stream: spawn its handler.  (A failed accept
\* is logged and the loop goes round: no state changes.)
Accept(c) ==
  /\ running /\ handler[c] = "none"
  /\ handler' = [handler EXCEPT ![c] = "connecting"]
  /\ UNCHANGED <<running, result, reset, registry, knob, chan, callVars>>

\* ctrl_c breaks the loop; main returns and the runtime is dropped.
CtrlC ==
  /\ running
  /\ running' = FALSE
  /\ UNCHANGED <<connVars, registry, knob, chan, callVars>>

\* The runtime being dropped drops a task where it awaits; a task in the
\* middle of a poll (handler "ended" or "removed") finishes that poll first.
DropHandler(c) ==
  /\ ~running /\ handler[c] \in {"connecting", "copying"}
  /\ handler' = [handler EXCEPT ![c] = "dropped"]
  /\ UNCHANGED <<running, result, reset, registry, knob, chan, callVars>>

-----------------------------------------------------------------------------
(* handle_connection.                                                      *)

\* The receiver lives in the Shutdowner, which lives as long as the handler.
ReceiverAlive(c) == handler[c] \in {"copying", "ended", "removed"}

\* TcpStream::connect failed: the handler returns, nothing was registered.
ConnectFails(c) ==
  /\ handler[c] = "connecting"
  /\ handler' = [handler EXCEPT ![c] = "closed"]
  /\ UNCHANGED <<running, result, reset, registry, knob, chan, callVars>>

\* Connected: build knobs, channel and adapter stacks, then insert the entry.
Register(c) ==
  /\ handler[c] = "connecting"
  /\ handler' = [handler EXCEPT ![c] = "copying"]
  /\ registry' = registry \cup {c}
  /\ chan' = [chan EXCEPT ![c] = "open"]
  /\ knob' = [knob EXCEPT ![c] = InitKnob]
  /\ UNCHANGED <<running, result, reset, callVars>>

\* Mutant: the timer is only kept for a connection that is still listed.
CanEndWithListedTimer(c, r) ==
  /\ r = "shutdown" => chan[c] \in {"sent", "dropped"}
  /\ r = "timeout" => HasDuration /\ c \in registry

\* What the copy of c can end with now.  A dropped sender trips the
\* Shutdowner like a sent error does; a terminator whose threshold is 0 never
\* trips; the timer exists only when a duration is configured.
CanEndWith(c, r) ==
  /\ r = "shutdown" => chan[c] \in {"sent", "dropped"}
  /\ r = "terminated" => knob[c]["termination"] # 0
  /\ r = "timeout" => HasDuration

CopyEnds(c, r) ==
  /\ handler[c] = "copying"
  /\ r \in Endings /\ CanEndWith(c, r)
  /\ handler' = [handler EXCEPT ![c] = "ended"]
  /\ result' = [result EXCEPT ![c] = r]
  /\ UNCHANGED <<running, reset, registry, knob, chan, callVars>>

\* Mutant: the entry is removed only after a copy that went well.
UnregisterOnSuccess(c) ==
  /\ handler[c] = "ended"
  /\ handler' = [handler EXCEPT ![c] = "removed"]
  /\ registry' = IF result[c] = "ok" THEN registry \ {c} ELSE registry
  /\ chan' = IF c \in registry \ registry' THEN [chan EXCEPT ![c] = "dropped"] ELSE chan
  /\ UNCHANGED <<running, result, reset, knob, callVars>>

\* connections.remove(&id): the entry, if still there, is dropped with its tx.
Unregister(c) ==
  /\ handler[c] = "ended"
  /\ handler' = [handler EXCEPT ![c] = "removed"]
  /\ registry' = registry \ {c}
  /\ chan' = IF c \in registry THEN [chan EXCEPT ![c] = "dropped"] ELSE chan
  /\ UNCHANGED <<running, result, reset, knob, callVars>>

\* Mutant: every error resets the sockets.
ResetOnAnyError(c) == result[c] # "ok"

\* Errors by which the proxy itself breaks the connection end with RST.
DeservesReset(c) == result[c] \in {"terminated", "timeout"}

\* set_reset_linger on both sides or on none, then both sockets are dropped.
Close(c) ==
  /\ handler[c] = "removed"
  /\ handler' = [handler EXCEPT ![c] = "closed"]
  /\ reset' = IF DeservesReset(c) THEN reset \cup {c} ELSE reset
  /\ UNCHANGED <<running, result, registry, knob, chan, callVars>>

-----------------------------------------------------------------------------
(* The control API.  A request whose body was parsed runs without awaiting, *)
(* but in parallel with the handlers and with the other requests.           *)

Answer(q, s) ==
  /\ pc' = [pc EXCEPT ![q] = "done"]
  /\ status' = [status EXCEPT ![q] = s]

Request(q, o) == running /\ o \in Ops /\ pc[q] = "idle" /\ op' = [op EXCEPT ![q] = o]

\* set_delay .. set_corruption: get_mut holds the shard's lock over the store.
SetKnob(q, c, k, v) ==
  /\ Request(q, "set")
  /\ scope' = [scope EXCEPT ![q] = {c}]
  /\ \/ c \notin registry /\ Answer(q, "404") /\ UNCHANGED knob
     \/ c \in registry /\ ~ValidFor(k, v) /\ Answer(q, "400") /\ UNCHANGED knob
     \/ c \in registry /\ ValidFor(k, v) /\ Answer(q, "202")
        /\ knob' = [knob EXCEPT ![c][k] = v]
  /\ UNCHANGED <<running, connVars, registry, chan, cursor, ids, held, failed>>

\* Mutant: a lookup, the entry stays where it is.
ClaimKeepsEntry(q, c) ==
  /\ UNCHANGED registry
  /\ held' = IF c \in registry THEN [held EXCEPT ![q] = @ \cup {c}] ELSE held

\* DashMap::remove by a request: the state, if there is one, moves out of the
\* map and with it the sender.
Claim(q, c) ==
  /\ registry' = registry \ {c}
  /\ held' = IF c \in registry THEN [held EXCEPT ![q] = @ \cup {c}] ELSE held

\* shutdown_connection up to the send; an unknown id is answered at once.
Kill(q, c) ==
  /\ Request(q, "kill")
  /\ scope' = [scope EXCEPT ![q] = {c}]
  /\ Claim(q, c)
  /\ IF c \in registry
       THEN pc' = [pc EXCEPT ![q] = "send"] /\ UNCHANGED status
       ELSE Answer(q, "404")
  /\ UNCHANGED <<running, connVars, knob, chan, cursor, ids, failed>>

\* list_connections and remove_all iterate over the map ...
StartScan(q, o) ==
  /\ o \in {"list", "killall"} /\ Request(q, o)
  /\ pc' = [pc EXCEPT ![q] = "scan"]
  /\ scope' = [scope EXCEPT ![q] = registry]
  /\ UNCHANGED <<running, connVars, registry, knob, chan, cursor, ids, held, failed, status>>

InShard(n) == {c \in Conns : ShardOf[c] = n}

\* Mutant: the iteration does not stop at the last shard.
ScanShardPastEnd(q) ==
  /\ pc[q] = "scan"
  /\ ids' = [ids EXCEPT ![q] = @ \cup (registry \cap InShard(cursor[q]))]
  /\ cursor' = [cursor EXCEPT ![q] = @ + 1]
  /\ UNCHANGED <<running, connVars, registry, knob, chan, pc, op, held, failed, status, scope>>

\* Mutant: a shard that is locked at the moment is passed over.
ScanShardUnlocked(q) ==
  /\ pc[q] = "scan" /\ cursor[q] < NShards
  /\ \E seen \in {{}, InShard(cursor[q])} :
       ids' = [ids EXCEPT ![q] = @ \cup (registry \cap seen)]
  /\ cursor' = [cursor EXCEPT ![q] = @ + 1]
  /\ UNCHANGED <<running, connVars, registry, knob, chan, pc, op, held, failed, status, scope>>

\* ... one shard at a time, under that shard's read lock only.
ScanShard(q) ==
  /\ pc[q] = "scan" /\ cursor[q] < NShards
  /\ ids' = [ids EXCEPT ![q] = @ \cup (registry \cap InShard(cursor[q]))]
  /\ cursor' = [cursor EXCEPT ![q] = @ + 1]
  /\ UNCHANGED <<running, connVars, registry, knob, chan, pc, op, held, failed, status, scope>>

EndScan(q) ==
  /\ pc[q] = "scan" /\ cursor[q] = NShards
  /\ IF op[q] = "list"
       THEN Answer(q, "200")
       ELSE pc' = [pc EXCEPT ![q] = "remove"] /\ UNCHANGED status
  /\ UNCHANGED <<running, connVars, registry, knob, chan, op, cursor, ids, held, failed, scope>>

\* Mutant: an id that is gone is tried again instead of being skipped.
RemoveNextRetrying(q, c) ==
  /\ pc[q] = "remove" /\ c \in ids[q]
  /\ ids' = IF c \in registry THEN [ids EXCEPT ![q] = @ \ {c}] ELSE ids
  /\ Claim(q, c)
  /\ UNCHANGED <<running, connVars, knob, chan, pc, op, cursor, failed, status, scope>>

\* remove_all: one remove per collected id; an id that is gone is skipped.
RemoveNext(q, c) ==
  /\ pc[q] = "remove" /\ c \in ids[q]
  /\ ids' = [ids EXCEPT ![q] = @ \ {c}]
  /\ Claim(q, c)
  /\ UNCHANGED <<running, connVars, knob, chan, pc, op, cursor, failed, status, scope>>

\* Mutant: collecting stops at the first id that is gone.
EndRemoveAtMissing(q) ==
  /\ pc[q] = "remove" /\ (ids[q] = {} \/ ids[q] \ registry # {})
  /\ pc' = [pc EXCEPT ![q] = "send"]
  /\ UNCHANGED <<running, connVars, registry, knob, chan, op, cursor, ids, held, failed, status, scope>>

EndRemove(q) ==
  /\ pc[q] = "remove" /\ ids[q] = {}
  /\ pc' = [pc EXCEPT ![q] = "send"]
  /\ UNCHANGED <<running, connVars, registry, knob, chan, op, cursor, ids, held, failed, status, scope>>

\* tx.send(..): delivers while the receiver lives, otherwise gives it back.
SendNext(q, c) ==
  /\ pc[q] = "send" /\ c \in held[q]
  /\ held' = [held EXCEPT ![q] = @ \ {c}]
  /\ chan' = [chan EXCEPT ![c] = IF ReceiverAlive(c) THEN "sent" ELSE "dropped"]
  /\ failed' = [failed EXCEPT ![q] = @ \/ ~ReceiverAlive(c)]
  /\ UNCHANGED <<running, connVars, registry, knob, pc, op, cursor, ids, status, scope>>

\* Mutant: a failed send is not reported.
EndSendAccepting(q) ==
  /\ pc[q] = "send" /\ held[q] = {}
  /\ Answer(q, "202")
  /\ UNCHANGED <<running, connVars, registry, knob, chan, op, cursor, ids, held, failed, scope>>

\* Mutant: the first send that fails ends the request.
EndSendAtFailure(q) ==
  /\ pc[q] = "send" /\ (held[q] = {} \/ failed[q])
  /\ Answer(q, IF failed[q] THEN "500" ELSE "202")
  /\ UNCHANGED <<running, connVars, registry, knob, chan, op, cursor, ids, held, failed, scope>>

EndSend(q) ==
  /\ pc[q] = "send" /\ held[q] = {}
  /\ Answer(q, IF failed[q] THEN "500" ELSE "202")
  /\ UNCHANGED <<running, connVars, registry, knob, chan, op, cursor, ids, held, failed, scope>>

-----------------------------------------------------------------------------

\* Every task is gone: the process has exited.
Exited ==
  /\ ~running
  /\ \A c \in Conns : handler[c] \in {"none", "closed", "dropped"}
  /\ \A q \in Calls : pc[q] \in {"idle", "done"}
  /\ UNCHANGED vars

ConnStep(c) ==
  \/ Accept(c) \/ DropHandler(c)
  \/ ConnectFails(c) \/ Register(c)
  \/ \E r \in Outcomes : CopyEnds(c, r)
  \/ Unregister(c) \/ Close(c)

\* The steps of a request once its body was received.
CallRuns(q) ==
  \/ ScanShard(q) \/ EndScan(q)
  \/ \E c \in Conns : RemoveNext(q, c) \/ SendNext(q, c)
  \/ EndRemove(q) \/ EndSend(q)

CallStarts(q) ==
  \/ \E c \in Conns, k \in Knobs, v \in Values : SetKnob(q, c, k, v)
  \/ \E c \in Conns : Kill(q, c)
  \/ \E o \in AllOps : StartScan(q, o)

Next ==
  \/ CtrlC \/ Exited
  \/ \E c \in Conns : ConnStep(c)
  \/ \E q \in Calls : CallStarts(q) \/ CallRuns(q)

\* What the runtime guarantees: a task that does not wait for anyone goes on,
\* an armed timer fires, and a dropped runtime drops every task.  Nothing is
\* assumed of the peers, of the clients of the API or of Ctrl-C.
Fairness ==
  /\ \A q \in Calls : WF_vars(CallRuns(q))
  /\ \A c \in Conns :
       /\ WF_vars(Unregister(c)) /\ WF_vars(Close(c))
       /\ WF_vars(CopyEnds(c, "timeout"))
       /\ WF_vars(DropHandler(c))

Spec == Init /\ [][Next]_vars /\ Fairness
-----------------------------------------------------------------------------
(* Safety.                                                                  *)

\* Every unused shutdown sender has exactly one owner: the registry entry or
\* the one request that removed that entry.  (ApiState::remove_connection and
\* remove_all race with each other and with the handler's own clean-up.)
SenderHeldOnce ==
  /\ \A c \in Conns : chan[c] = "open" <=> (c \in registry \/ \E q \in Calls : c \in held[q])
  /\ \A q \in Calls : held[q] \cap registry = {}
  /\ \A q, r \in Calls : q # r => held[q] \cap held[r] = {}

\* While the proxy runs, everything listed is served by a handler that still
\* has its receiver: a kill or a set that finds an entry reaches somebody.
\* Every way out of handle_connection after the insert passes the remove.
ListedIsServed == running => \A c \in registry : ReceiverAlive(c) /\ handler[c] # "removed"

\* Of the requests that kill a connection by its id, one at most is told
\* anything but 404; told 202 the error was delivered, told 500 the handler
\* had gone in between.
KillVerdict ==
  \A q \in Calls : op[q] = "kill" /\ pc[q] = "done" =>
    /\ \A c \in scope[q] :
         /\ status[q] = "202" => c \notin registry /\ chan[c] = "sent"
         /\ status[q] = "500" => ~ReceiverAlive(c) /\ chan[c] = "dropped"
    /\ \A r \in Calls \ {q} :
         op[r] = "kill" /\ pc[r] = "done" /\ scope[q] = scope[r] =>
           "404" \in {status[q], status[r]}

\* c is out of the map, and was sent the error, or is about to be by whoever
\* removed it, or needs no error because its copy is over.
Condemned(c) ==
  /\ c \notin registry
  /\ chan[c] = "sent" \/ handler[c] # "copying" \/ \E q \in Calls : c \in held[q]

\* _all/shutdown reaches every connection that was listed when it started,
\* although it locks one shard at a time, skips ids that vanish meanwhile and
\* answers 500 when some send failed.
KillAllCovers ==
  \A q \in Calls : op[q] = "killall" /\ pc[q] = "done" => \A c \in scope[q] : Condemned(c)

\* A listing contains every connection that was registered for as long as
\* the request ran, shard by shard iteration notwithstanding.
ListComplete ==
  \A q \in Calls : op[q] = "list" /\ pc[q] = "done" => scope[q] \cap registry \subseteq ids[q]

\* A connection that ended by itself or by the API is never reset, and one
\* that is reset cannot be found in the registry any more.
ResetIsForFaults ==
  \A c \in reset : c \notin registry /\ result[c] \notin {"none", "ok", "io", "shutdown"}

-----------------------------------------------------------------------------
(* Refinement: place and taker of KillSwitch, read off the proxy's state.   *)

HoldersOf(c) == {q \in Calls : c \in held[q]}

SenderPlace ==
  [c \in Conns |->
     IF c \in registry THEN "listed"
     ELSE IF HoldersOf(c) # {} THEN "taken"
     ELSE IF chan[c] = "none" THEN "unborn" ELSE "spent"]

SenderTaker == [c \in Conns |-> HoldersOf(c)]

Switch == INSTANCE KillSwitch WITH place <- SenderPlace, taker <- SenderTaker

\* The registry implements the one-shot kill switch: each sender is published
\* once, claimed at most once and consumed by its claimant only.
ImplementsKillSwitch == Switch!Safety

\* Whoever claimed a sender goes on to consume it: a request that fails to
\* reach one of its connections does not leave the others out.
ClaimsAreUsed == Switch!Liveness

-----------------------------------------------------------------------------
(* Liveness.                                                                *)

\* Every request whose body was received is answered, whatever the handlers
\* and the other requests do to the entries it is iterating over.
CallsAnswered == \A q \in Calls : pc[q] # "idle" ~> pc[q] = "done"

\* No leak: an entry leaves the map once its copy is over, by the handler or
\* by a request that got there first.
EndedIsDelisted == \A c \in Conns : handler[c] = "ended" ~> c \notin registry

\* With connection_duration_ms set no connection, killed or not, outlives the
\* timer for ever.
TimedConnectionsEnd ==
  HasDuration /\ "timeout" \in Endings =>
    \A c \in Conns : handler[c] = "copying" ~> handler[c] \in {"closed", "dropped"}
=============================================================================
