----------------------------- MODULE Proxy_proof ----------------------------
(***************************************************************************)
(* Proofs about Proxy for any number of connections, requests and shards.  *)
(***************************************************************************)
EXTENDS Proxy, TLAPS

Assumptions == OpsAssumption /\ ShardAssumption /\ KnobAssumption /\ DurationAssumption

\* The initial state is well typed.
LEMMA TypeOKInit == Init => TypeOK
BY ShardAssumption, KnobAssumption DEF Init, TypeOK, Phases, Statuses

\* No step of a handler or of a request breaks the types.
LEMMA TypeOKNext == TypeOK /\ [Next]_vars => TypeOK'
<1> SUFFICES ASSUME TypeOK, [Next]_vars PROVE TypeOK'
  OBVIOUS
<1> USE DEF TypeOK
<1>1. CASE UNCHANGED vars
  BY <1>1 DEF vars, connVars, callVars
<1>2. CASE CtrlC
  BY <1>2 DEF CtrlC, connVars, callVars
<1>3. CASE Exited
  BY <1>3 DEF Exited, vars, connVars, callVars
<1>4. ASSUME NEW c \in Conns, ConnStep(c) PROVE TypeOK'
  <2>1. CASE Accept(c)
    BY <2>1 DEF Accept, callVars, Phases
  <2>2. CASE DropHandler(c)
    BY <2>2 DEF DropHandler, callVars, Phases
  <2>3. CASE ConnectFails(c)
    BY <2>3 DEF ConnectFails, callVars, Phases
  <2>4. CASE Register(c)
    BY <2>4, KnobAssumption DEF Register, callVars, Phases
  <2>5. ASSUME NEW r \in Outcomes, CopyEnds(c, r) PROVE TypeOK'
    BY <2>5 DEF CopyEnds, callVars, Phases
  <2>6. CASE Unregister(c)
    BY <2>6 DEF Unregister, callVars, Phases
  <2>7. CASE Close(c)
    BY <2>7 DEF Close, callVars, Phases
  <2> QED
    BY <1>4, <2>1, <2>2, <2>3, <2>4, <2>5, <2>6, <2>7 DEF ConnStep
<1>5. ASSUME NEW q \in Calls, CallStarts(q) PROVE TypeOK'
  <2>1. ASSUME NEW c \in Conns, NEW k \in Knobs, NEW v \in Values, SetKnob(q, c, k, v)
        PROVE TypeOK'
    <3>1. op' \in [Calls -> AllOps \cup {"none"}]
      BY <2>1 DEF SetKnob, Request, AllOps
    <3>2. /\ pc' \in [Calls -> {"idle", "scan", "remove", "send", "done"}]
          /\ status' \in [Calls -> Statuses]
      BY <2>1 DEF SetKnob, Answer, Statuses
    <3>3. knob' \in [Conns -> [Knobs -> Values]]
      <4>1. CASE UNCHANGED knob
        BY <4>1
      <4>0. UNCHANGED knob \/ knob' = [knob EXCEPT ![c][k] = v]
        BY <2>1 DEF SetKnob
      <4>2. CASE knob' = [knob EXCEPT ![c][k] = v]
        <5>1. [knob[c] EXCEPT ![k] = v] \in [Knobs -> Values]
          OBVIOUS
        <5>2. knob' = [knob EXCEPT ![c] = [knob[c] EXCEPT ![k] = v]]
          BY <4>2
        <5> QED
          BY <5>1, <5>2
      <4> QED
        BY <4>0, <4>1, <4>2
    <3>4. /\ scope' \in [Calls -> SUBSET Conns]
          /\ UNCHANGED <<running, connVars, registry, chan, cursor, ids, held, failed>>
      BY <2>1 DEF SetKnob
    <3> QED
      BY <3>1, <3>2, <3>3, <3>4 DEF connVars
  <2>2. ASSUME NEW c \in Conns, Kill(q, c) PROVE TypeOK'
    BY <2>2 DEF Kill, Claim, Request, Answer, connVars, AllOps, Statuses
  <2>3. ASSUME NEW o \in AllOps, StartScan(q, o) PROVE TypeOK'
    BY <2>3 DEF StartScan, Request, connVars, AllOps
  <2> QED
    BY <1>5, <2>1, <2>2, <2>3 DEF CallStarts
<1>6. ASSUME NEW q \in Calls, CallRuns(q) PROVE TypeOK'
  <2>1. CASE ScanShard(q)
    BY <2>1, ShardAssumption DEF ScanShard, InShard, connVars
  <2>2. CASE EndScan(q)
    BY <2>2 DEF EndScan, Answer, connVars, Statuses
  <2>3. ASSUME NEW c \in Conns, RemoveNext(q, c) PROVE TypeOK'
    BY <2>3 DEF RemoveNext, Claim, connVars
  <2>4. ASSUME NEW c \in Conns, SendNext(q, c) PROVE TypeOK'
    BY <2>4 DEF SendNext, ReceiverAlive, connVars
  <2>5. CASE EndRemove(q)
    BY <2>5 DEF EndRemove, connVars
  <2>6. CASE EndSend(q)
    BY <2>6 DEF EndSend, Answer, connVars, Statuses
  <2> QED
    BY <1>6, <2>1, <2>2, <2>3, <2>4, <2>5, <2>6 DEF CallRuns
<1> QED
  BY <1>1, <1>2, <1>3, <1>4, <1>5, <1>6 DEF Next

\* Every variable keeps its type in every behaviour of the proxy.
THEOREM TypeCorrect == Spec => []TypeOK
<1>1. Init => TypeOK
  BY TypeOKInit
<1>2. TypeOK /\ [Next]_vars => TypeOK'
  BY TypeOKNext
<1> QED
  BY <1>1, <1>2, PTL DEF Spec

-----------------------------------------------------------------------------
(* Who owns a shutdown sender.                                              *)

\* A connection that is not connected yet has no channel, and a channel is
\* dropped unused only when its copy is over.
ChannelAge ==
  \A c \in Conns :
    /\ handler[c] \in {"none", "connecting"} => chan[c] = "none"
    /\ chan[c] = "dropped" => handler[c] \in {"ended", "removed", "closed", "dropped"}

Ownership == TypeOK /\ SenderHeldOnce /\ ListedIsServed /\ ChannelAge

\* The parts of Ownership hold before anything is accepted.
LEMMA OwnershipInit == Init => Ownership
BY TypeOKInit DEF Init, Ownership, SenderHeldOnce, ListedIsServed, ChannelAge

\* Every step keeps them: a sender only moves between the map and a request.
LEMMA OwnershipNext == Ownership /\ [Next]_vars => Ownership'
<1> SUFFICES ASSUME Ownership, [Next]_vars PROVE Ownership'
  OBVIOUS
<1>0. TypeOK'
  BY TypeOKNext DEF Ownership
<1> USE DEF Ownership, SenderHeldOnce, ListedIsServed, ChannelAge, ReceiverAlive
<1>1. CASE UNCHANGED vars
  BY <1>0, <1>1 DEF vars, connVars, callVars
<1>2. CASE CtrlC
  BY <1>0, <1>2 DEF CtrlC, connVars, callVars
<1>3. CASE Exited
  BY <1>0, <1>3 DEF Exited, vars, connVars, callVars
<1>4. ASSUME NEW c \in Conns, ConnStep(c) PROVE Ownership'
  <2> USE DEF TypeOK
  <2>1. CASE Accept(c)
    BY <1>0, <2>1 DEF Accept, callVars
  <2>2. CASE DropHandler(c)
    BY <1>0, <2>2 DEF DropHandler, callVars
  <2>3. CASE ConnectFails(c)
    BY <1>0, <2>3 DEF ConnectFails, callVars
  <2>4. CASE Register(c)
    <3>1. chan[c] = "none" /\ c \notin registry /\ \A q \in Calls : c \notin held[q]
      BY <2>4 DEF Register
    <3>2. /\ handler' = [handler EXCEPT ![c] = "copying"]
          /\ registry' = registry \cup {c}
          /\ chan' = [chan EXCEPT ![c] = "open"]
          /\ running' = running /\ held' = held
      BY <2>4 DEF Register, callVars
    <3>3. SenderHeldOnce'
      BY <3>1, <3>2
    <3>4. ListedIsServed' /\ ChannelAge'
      BY <3>1, <3>2 DEF Phases
    <3> QED
      BY <1>0, <3>3, <3>4
  <2>5. ASSUME NEW r \in Outcomes, CopyEnds(c, r) PROVE Ownership'
    BY <1>0, <2>5 DEF CopyEnds, callVars
  <2>6. CASE Unregister(c)
    BY <1>0, <2>6 DEF Unregister, callVars
  <2>7. CASE Close(c)
    BY <1>0, <2>7 DEF Close, callVars
  <2> QED
    BY <1>4, <2>1, <2>2, <2>3, <2>4, <2>5, <2>6, <2>7 DEF ConnStep
<1>5. ASSUME NEW q \in Calls, CallStarts(q) PROVE Ownership'
  <2>1. ASSUME NEW c \in Conns, NEW k \in Knobs, NEW v \in Values, SetKnob(q, c, k, v)
        PROVE Ownership'
    BY <1>0, <2>1 DEF SetKnob, connVars
  <2>2. ASSUME NEW c \in Conns, Kill(q, c) PROVE Ownership'
    BY <1>0, <2>2 DEF Kill, Claim, connVars, TypeOK
  <2>3. ASSUME NEW o \in AllOps, StartScan(q, o) PROVE Ownership'
    BY <1>0, <2>3 DEF StartScan, connVars
  <2> QED
    BY <1>5, <2>1, <2>2, <2>3 DEF CallStarts
<1>6. ASSUME NEW q \in Calls, CallRuns(q) PROVE Ownership'
  <2>1. CASE ScanShard(q)
    BY <1>0, <2>1 DEF ScanShard, connVars
  <2>2. CASE EndScan(q)
    BY <1>0, <2>2 DEF EndScan, connVars
  <2>3. ASSUME NEW c \in Conns, RemoveNext(q, c) PROVE Ownership'
    BY <1>0, <2>3 DEF RemoveNext, Claim, connVars, TypeOK
  <2>4. ASSUME NEW c \in Conns, SendNext(q, c) PROVE Ownership'
    BY <1>0, <2>4 DEF SendNext, connVars, TypeOK, Phases
  <2>5. CASE EndRemove(q)
    BY <1>0, <2>5 DEF EndRemove, connVars
  <2>6. CASE EndSend(q)
    BY <1>0, <2>6 DEF EndSend, connVars
  <2> QED
    BY <1>6, <2>1, <2>2, <2>3, <2>4, <2>5, <2>6 DEF CallRuns
<1> QED
  BY <1>1, <1>2, <1>3, <1>4, <1>5, <1>6 DEF Next

\* Ownership is inductive, so its parts hold in every reachable state.
LEMMA OwnershipAlways == Spec => []Ownership
<1>1. Init => Ownership
  BY OwnershipInit
<1>2. Ownership /\ [Next]_vars => Ownership'
  BY OwnershipNext
<1> QED
  BY <1>1, <1>2, PTL DEF Spec

\* No shutdown sender is lost and none is owned twice, however many requests
\* race for it with each other and with the handler.
THEOREM SenderOwnedOnce == Spec => []SenderHeldOnce
<1>1. Ownership => SenderHeldOnce
  BY DEF Ownership
<1> QED
  BY <1>1, OwnershipAlways, PTL

\* Whatever the registry lists while the proxy runs has a live handler.
THEOREM ListedServed == Spec => []ListedIsServed
<1>1. Ownership => ListedIsServed
  BY DEF Ownership
<1> QED
  BY <1>1, OwnershipAlways, PTL

-----------------------------------------------------------------------------
(* What becomes of a sender once it exists, in one step.                    *)

Gone(c) == chan[c] = "dropped" /\ handler[c] \in {"closed", "dropped"}

\* A used channel stays as it is, a connection that left the map stays out of
\* it, and one whose handler is gone does not come back.
SenderAges(c) ==
  /\ chan[c] = "sent" => chan'[c] = "sent"
  /\ Gone(c) => Gone(c)'
  /\ chan[c] # "none" => chan'[c] # "none" /\ (c \in registry' => c \in registry)

\* Every step lets every sender age.
LEMMA SendersAge ==
  ASSUME Ownership, [Next]_vars, NEW d \in Conns PROVE SenderAges(d)
<1> USE DEF Ownership, SenderHeldOnce, ChannelAge, Gone, SenderAges
<1>1. CASE UNCHANGED vars
  BY <1>1 DEF vars, connVars
<1>2. CASE CtrlC
  BY <1>2 DEF CtrlC, connVars
<1>3. CASE Exited
  BY <1>3 DEF Exited, vars, connVars
<1>4. ASSUME NEW c \in Conns, ConnStep(c) PROVE SenderAges(d)
  <2> USE DEF TypeOK
  <2>1. CASE Accept(c)
    BY <2>1 DEF Accept
  <2>2. CASE DropHandler(c)
    BY <2>2 DEF DropHandler
  <2>3. CASE ConnectFails(c)
    BY <2>3 DEF ConnectFails
  <2>4. CASE Register(c)
    BY <2>4 DEF Register
  <2>5. ASSUME NEW r \in Outcomes, CopyEnds(c, r) PROVE SenderAges(d)
    BY <2>5 DEF CopyEnds
  <2>6. CASE Unregister(c)
    BY <2>6 DEF Unregister
  <2>7. CASE Close(c)
    BY <2>7 DEF Close
  <2> QED
    BY <1>4, <2>1, <2>2, <2>3, <2>4, <2>5, <2>6, <2>7 DEF ConnStep
<1>5. ASSUME NEW q \in Calls, CallStarts(q) PROVE SenderAges(d)
  BY <1>5 DEF CallStarts, SetKnob, Kill, Claim, StartScan, connVars
<1>6. ASSUME NEW q \in Calls, CallRuns(q) PROVE SenderAges(d)
  <2>1. CASE ScanShard(q) \/ EndScan(q) \/ EndRemove(q) \/ EndSend(q)
    BY <2>1 DEF ScanShard, EndScan, EndRemove, EndSend, connVars
  <2>2. ASSUME NEW c \in Conns, RemoveNext(q, c) PROVE SenderAges(d)
    BY <2>2 DEF RemoveNext, Claim, connVars
  <2>3. ASSUME NEW c \in Conns, SendNext(q, c) PROVE SenderAges(d)
    BY <2>3 DEF SendNext, connVars, TypeOK
  <2> QED
    BY <1>6, <2>1, <2>2, <2>3 DEF CallRuns
<1> QED
  BY <1>1, <1>2, <1>3, <1>4, <1>5, <1>6 DEF Next

-----------------------------------------------------------------------------
(* _all/shutdown.                                                           *)

\* How much of its scope a killall has still to deal with.
Sweep ==
  \A q \in Calls : op[q] = "killall" =>
    /\ pc[q] # "idle"
    /\ \A c \in scope[q] :
         /\ chan[c] # "none"
         /\ c \in registry =>
              \/ pc[q] = "scan" /\ (ShardOf[c] < cursor[q] => c \in ids[q])
              \/ pc[q] = "remove" /\ c \in ids[q]

\* A request that has not started has done nothing.
IdleIsBlank ==
  \A q \in Calls : pc[q] = "idle" =>
    op[q] = "none" /\ cursor[q] = 0 /\ ids[q] = {} /\ held[q] = {} /\ ~failed[q]

Sweeping == Ownership /\ IdleIsBlank /\ Sweep

\* Nothing is under way at first.
LEMMA SweepingInit == Init => Sweeping
BY OwnershipInit DEF Init, Sweeping, IdleIsBlank, Sweep

\* Every step keeps Sweep: entries of the scope leave the map, ids are dropped
\* from the list only with their entries, and no entry comes back.
LEMMA SweepingNext == Sweeping /\ [Next]_vars => Sweeping'
<1> SUFFICES ASSUME Sweeping, [Next]_vars PROVE Sweeping'
  OBVIOUS
<1>0. Ownership' /\ TypeOK /\ \A d \in Conns : SenderAges(d)
  BY OwnershipNext, SendersAge DEF Sweeping, Ownership
<1>a. \A q \in Calls : scope[q] \subseteq Conns
  BY <1>0 DEF TypeOK
<1> USE DEF Sweeping, IdleIsBlank, Sweep, SenderAges
<1>1. CASE UNCHANGED callVars
  BY <1>0, <1>1, <1>a DEF callVars
<1>2. ASSUME NEW q \in Calls, CallStarts(q) PROVE Sweeping'
  <2>1. ASSUME NEW c \in Conns, NEW k \in Knobs, NEW v \in Values, SetKnob(q, c, k, v)
        PROVE Sweeping'
    BY <1>0, <1>a, <2>1 DEF SetKnob, Request, Answer, TypeOK
  <2>2. ASSUME NEW c \in Conns, Kill(q, c) PROVE Sweeping'
    BY <1>0, <1>a, <2>2 DEF Kill, Claim, Request, Answer, TypeOK
  <2>3. ASSUME NEW o \in AllOps, StartScan(q, o) PROVE Sweeping'
    <3>1. \A c \in registry : chan[c] = "open" /\ ShardOf[c] \in Nat
      BY <1>0, ShardAssumption DEF Ownership, SenderHeldOnce, TypeOK
    <3> QED
      BY <1>0, <1>a, <2>3, <3>1 DEF StartScan, Request, TypeOK
  <2> QED
    BY <1>2, <2>1, <2>2, <2>3 DEF CallStarts
<1>3. ASSUME NEW q \in Calls, CallRuns(q) PROVE Sweeping'
  <2>1. CASE ScanShard(q)
    <3>1. /\ cursor[q] \in Nat /\ \A c \in Conns : ShardOf[c] \in Nat
          /\ cursor' = [cursor EXCEPT ![q] = @ + 1] /\ cursor'[q] = cursor[q] + 1
          /\ ids' = [ids EXCEPT ![q] = ids[q] \cup (registry \cap InShard(cursor[q]))]
      BY <1>0, <2>1, ShardAssumption DEF ScanShard, TypeOK
    <3>2. ASSUME NEW c \in registry, ShardOf[c] < cursor'[q],
                 ShardOf[c] < cursor[q] => c \in ids[q]
          PROVE c \in ids'[q]
      <4>0. c \in Conns
        BY <1>0, <3>2 DEF TypeOK
      <4>1. ShardOf[c] < cursor[q] \/ ShardOf[c] = cursor[q]
        BY <3>1, <3>2, <4>0
      <4> QED
        BY <1>0, <3>1, <3>2, <4>0, <4>1 DEF InShard, TypeOK
    <3>3. ASSUME NEW r \in Calls, r # q
          PROVE cursor'[r] = cursor[r] /\ ids'[r] = ids[r]
      BY <1>0, <3>1, <3>3 DEF TypeOK
    <3>4. UNCHANGED <<registry, chan, pc, op, held, failed, scope>> /\ pc[q] = "scan"
      BY <2>1 DEF ScanShard
    <3>5. IdleIsBlank'
      BY <3>3, <3>4
    <3>6. ASSUME NEW r \in Calls, op[r] = "killall", NEW c \in scope[r], c \in registry
          PROVE \/ pc[r] = "scan" /\ (ShardOf[c] < cursor'[r] => c \in ids'[r])
                \/ pc[r] = "remove" /\ c \in ids'[r]
      BY <3>2, <3>3, <3>4, <3>6
    <3> QED
      BY <1>0, <3>4, <3>5, <3>6
  <2>2. CASE EndScan(q)
    BY <1>0, <1>a, <2>2, ShardAssumption DEF EndScan, Answer, TypeOK
  <2>3. ASSUME NEW c \in Conns, RemoveNext(q, c) PROVE Sweeping'
    BY <1>0, <1>a, <2>3 DEF RemoveNext, Claim, TypeOK
  <2>4. ASSUME NEW c \in Conns, SendNext(q, c) PROVE Sweeping'
    BY <1>0, <1>a, <2>4 DEF SendNext, TypeOK
  <2>5. CASE EndRemove(q)
    BY <1>0, <1>a, <2>5 DEF EndRemove, TypeOK
  <2>6. CASE EndSend(q)
    BY <1>0, <1>a, <2>6 DEF EndSend, Answer, TypeOK
  <2> QED
    BY <1>3, <2>1, <2>2, <2>3, <2>4, <2>5, <2>6 DEF CallRuns
<1>4. ASSUME NEW c \in Conns, ConnStep(c) PROVE UNCHANGED callVars
  BY <1>4 DEF ConnStep, Accept, DropHandler, ConnectFails, Register, CopyEnds, Unregister, Close
<1> QED
  BY <1>1, <1>2, <1>3, <1>4 DEF Next, vars, CtrlC, Exited

\* A finished _all/shutdown leaves none of the connections that were listed
\* when it began in the map or without a shutdown error to come, if its copy
\* still runs.
THEOREM KillAllReachesAll == Spec => []KillAllCovers
<1>1. Sweeping => KillAllCovers
  <2> SUFFICES ASSUME Sweeping, NEW q \in Calls, op[q] = "killall", pc[q] = "done",
                      NEW c \in scope[q]
               PROVE Condemned(c)
    BY DEF KillAllCovers
  <2>1. c \in Conns /\ c \notin registry /\ chan[c] # "none"
    BY DEF Sweeping, Sweep, Ownership, TypeOK
  <2>2. chan[c] \in {"open", "sent", "dropped"}
    BY <2>1 DEF Sweeping, Ownership, TypeOK
  <2> QED
    BY <2>1, <2>2 DEF Sweeping, Ownership, SenderHeldOnce, ChannelAge, Condemned
<1>2. Init => Sweeping
  BY SweepingInit
<1>3. Sweeping /\ [Next]_vars => Sweeping'
  BY SweepingNext
<1> QED
  BY <1>1, <1>2, <1>3, PTL DEF Spec
-----------------------------------------------------------------------------
(* POST /connections/{id}/shutdown.                                         *)

\* The request took the entry out of the map: it was not answered 404.
Winner(q) == op[q] = "kill" /\ (pc[q] = "send" \/ (pc[q] = "done" /\ status[q] # "404"))

\* What the one send of q did to c: nothing yet, delivered, or too late.
Sent(q, c) ==
  \/ pc[q] = "send" /\ c \in held[q] /\ held[q] = {c} /\ ~failed[q]
  \/ pc[q] = "send" /\ held[q] = {} /\ IF failed[q] THEN Gone(c) ELSE chan[c] = "sent"
  \/ pc[q] = "done" /\ status[q] = "202" /\ chan[c] = "sent"
  \/ pc[q] = "done" /\ status[q] = "500" /\ Gone(c)

\* A shutdown request is about one connection, and has sent what its progress
\* and its status say unless it did not find the entry.
Verdicts ==
  \A q \in Calls : op[q] = "kill" =>
    /\ pc[q] \in {"send", "done"}
    /\ \E c \in Conns : scope[q] = {c}
    /\ Winner(q) => \A c \in scope[q] : Sent(q, c)

OneWinner ==
  \A q, r \in Calls : Winner(q) /\ Winner(r) /\ scope[q] = scope[r] => q = r

Judging == Sweeping /\ Verdicts /\ OneWinner

\* Every step keeps Judging: a new winner finds the entry, so no earlier one
\* can have taken it, and what was sent to a connection is never undone.
LEMMA JudgingNext == Judging /\ [Next]_vars => Judging'
<1> SUFFICES ASSUME Judging, [Next]_vars PROVE Judging'
  OBVIOUS
<1>0. Sweeping' /\ Ownership /\ TypeOK /\ \A d \in Conns : SenderAges(d)
  BY SweepingNext, SendersAge DEF Judging, Sweeping, Ownership
<1>a. \A q \in Calls : scope[q] \subseteq Conns
  BY <1>0 DEF TypeOK
\* Whoever does not move keeps its verdict: its sender can only age.
<1>b. ASSUME NEW q \in Calls, op'[q] = op[q], pc'[q] = pc[q], status'[q] = status[q],
             scope'[q] = scope[q], held'[q] = held[q], failed'[q] = failed[q]
      PROVE /\ Winner(q)' <=> Winner(q)
            /\ op[q] = "kill" => /\ pc'[q] \in {"send", "done"}
                                 /\ \E c \in Conns : scope'[q] = {c}
                                 /\ Winner(q)' => \A c \in scope'[q] : Sent(q, c)'
  BY <1>0, <1>a, <1>b DEF Judging, Verdicts, Winner, Sent, SenderAges, Gone
\* Nothing about a request that does not kill by id is claimed.
<1>c. ASSUME NEW q \in Calls, op'[q] # "kill",
             \A r \in Calls \ {q} :
               /\ op'[r] = op[r] /\ pc'[r] = pc[r] /\ status'[r] = status[r]
               /\ scope'[r] = scope[r] /\ held'[r] = held[r] /\ failed'[r] = failed[r]
      PROVE Judging'
  <2>1. ~Winner(q)'
    BY <1>c DEF Winner
  <2>2. Verdicts'
    BY <1>b, <1>c DEF Verdicts
  <2>3. OneWinner'
    BY <1>b, <1>c, <2>1 DEF Judging, OneWinner
  <2> QED
    BY <1>0, <2>2, <2>3 DEF Judging
<1>1. CASE UNCHANGED callVars
  <2>1. \A q \in Calls : /\ op'[q] = op[q] /\ pc'[q] = pc[q] /\ status'[q] = status[q]
                         /\ scope'[q] = scope[q] /\ held'[q] = held[q] /\ failed'[q] = failed[q]
    BY <1>1 DEF callVars
  <2>2. Verdicts' /\ OneWinner'
    BY <1>b, <2>1 DEF Judging, Verdicts, OneWinner
  <2> QED
    BY <1>0, <2>2 DEF Judging
<1>2. ASSUME NEW q \in Calls, CallStarts(q) PROVE Judging'
  <2>1. ASSUME NEW c \in Conns, NEW k \in Knobs, NEW v \in Values, SetKnob(q, c, k, v)
        PROVE Judging'
    BY <1>0, <1>c, <2>1 DEF SetKnob, Request, Answer, TypeOK
  <2>2. ASSUME NEW c \in Conns, Kill(q, c) PROVE Judging'
    <3>1. /\ pc[q] = "idle" /\ held[q] = {} /\ ~failed[q]
          /\ op'[q] = "kill" /\ scope'[q] = {c} /\ failed'[q] = failed[q]
          /\ chan' = chan
      BY <1>0, <2>2 DEF Kill, Request, Judging, Sweeping, IdleIsBlank, TypeOK
    <3>2. ASSUME NEW r \in Calls \ {q}
          PROVE /\ op'[r] = op[r] /\ pc'[r] = pc[r] /\ status'[r] = status[r]
                /\ scope'[r] = scope[r] /\ held'[r] = held[r] /\ failed'[r] = failed[r]
      BY <1>0, <2>2 DEF Kill, Claim, Request, Answer, TypeOK
    <3>3. CASE c \notin registry
      <4>1. pc'[q] = "done" /\ status'[q] = "404"
        BY <1>0, <2>2, <3>3 DEF Kill, Answer, TypeOK
      <4>2. ~Winner(q)'
        BY <4>1 DEF Winner
      <4>3. Verdicts'
        BY <1>b, <3>1, <3>2, <4>1, <4>2 DEF Verdicts
      <4>4. OneWinner'
        BY <1>b, <3>2, <4>2 DEF Judging, OneWinner
      <4> QED
        BY <1>0, <4>3, <4>4 DEF Judging
    <3>4. CASE c \in registry
      <4>1. pc'[q] = "send" /\ held'[q] = {c}
        BY <1>0, <2>2, <3>1, <3>4 DEF Kill, Claim, TypeOK
      <4>2. Sent(q, c)'
        BY <3>1, <4>1 DEF Sent
      <4>3. Verdicts'
        BY <1>b, <3>1, <3>2, <4>1, <4>2 DEF Verdicts
      <4>4. ASSUME NEW r \in Calls, Winner(r), scope[r] = {c} PROVE FALSE
        <5>1. Sent(r, c)
          BY <4>4 DEF Judging, Verdicts, Winner
        <5>2. chan[c] = "open" /\ c \notin held[r]
          BY <1>0, <3>4, <4>4 DEF Ownership, SenderHeldOnce
        <5> QED
          BY <5>1, <5>2 DEF Sent, Gone
      <4>5. OneWinner'
        BY <1>b, <3>1, <3>2, <4>4 DEF Judging, OneWinner
      <4> QED
        BY <1>0, <4>3, <4>5 DEF Judging
    <3> QED
      BY <3>3, <3>4
  <2>3. ASSUME NEW o \in AllOps, StartScan(q, o) PROVE Judging'
    BY <1>0, <1>c, <2>3 DEF StartScan, Request, TypeOK
  <2> QED
    BY <1>2, <2>1, <2>2, <2>3 DEF CallStarts
<1>3. ASSUME NEW q \in Calls, CallRuns(q) PROVE Judging'
  <2>1. ASSUME pc[q] \notin {"send", "done"}, op' = op,
               \A r \in Calls \ {q} :
                 /\ pc'[r] = pc[r] /\ status'[r] = status[r]
                 /\ scope'[r] = scope[r] /\ held'[r] = held[r] /\ failed'[r] = failed[r]
        PROVE Judging'
    <3>1. op'[q] # "kill"
      BY <2>1 DEF Judging, Verdicts
    <3> QED
      BY <1>c, <2>1, <3>1
  <2>2. CASE ScanShard(q) \/ EndScan(q) \/ EndRemove(q) \/ \E c \in Conns : RemoveNext(q, c)
    BY <1>0, <2>1, <2>2 DEF ScanShard, EndScan, EndRemove, RemoveNext, Claim, Answer, TypeOK
  <2>3. ASSUME NEW c \in Conns, SendNext(q, c) PROVE Judging'
    <3>1. ASSUME NEW r \in Calls \ {q}
          PROVE /\ op'[r] = op[r] /\ pc'[r] = pc[r] /\ status'[r] = status[r]
                /\ scope'[r] = scope[r] /\ held'[r] = held[r] /\ failed'[r] = failed[r]
      BY <1>0, <2>3 DEF SendNext, TypeOK
    <3>2. CASE op[q] # "kill"
      BY <1>c, <2>3, <3>1, <3>2 DEF SendNext
    <3>3. CASE op[q] = "kill"
      <4>1. /\ pc[q] = "send" /\ c \in held[q] /\ chan[c] = "open"
            /\ op' = op /\ pc' = pc /\ scope' = scope /\ status' = status
            /\ handler' = handler
        BY <1>0, <2>3 DEF SendNext, Ownership, SenderHeldOnce, connVars
      <4>2. Winner(q) /\ Winner(q)'
        BY <3>3, <4>1 DEF Winner
      <4>3. scope[q] = {c} /\ held[q] = {c} /\ ~failed[q]
        BY <3>3, <4>1, <4>2 DEF Judging, Verdicts, Sent
      <4>4. /\ held'[q] = {}
            /\ failed'[q] = ~ReceiverAlive(c)
            /\ chan'[c] = IF ReceiverAlive(c) THEN "sent" ELSE "dropped"
        BY <1>0, <2>3, <4>3 DEF SendNext, TypeOK
      <4>5. ~ReceiverAlive(c) => handler[c] \in {"closed", "dropped"}
        BY <1>0, <4>1 DEF Ownership, ChannelAge, ReceiverAlive, TypeOK, Phases
      <4>6. Sent(q, c)'
        BY <4>1, <4>4, <4>5 DEF Sent, Gone
      <4>7. Verdicts'
        BY <1>b, <3>1, <4>1, <4>3, <4>6 DEF Verdicts
      <4>8. OneWinner'
        BY <1>b, <3>1, <4>1, <4>2 DEF Judging, OneWinner
      <4> QED
        BY <1>0, <4>7, <4>8 DEF Judging
    <3> QED
      BY <3>2, <3>3
  <2>4. CASE EndSend(q)
    <3>1. ASSUME NEW r \in Calls \ {q}
          PROVE /\ op'[r] = op[r] /\ pc'[r] = pc[r] /\ status'[r] = status[r]
                /\ scope'[r] = scope[r] /\ held'[r] = held[r] /\ failed'[r] = failed[r]
      BY <1>0, <2>4 DEF EndSend, Answer, TypeOK
    <3>2. CASE op[q] # "kill"
      BY <1>c, <2>4, <3>1, <3>2 DEF EndSend
    <3>3. CASE op[q] = "kill"
      <4>1. /\ pc[q] = "send" /\ held[q] = {} /\ pc'[q] = "done"
            /\ status'[q] = IF failed[q] THEN "500" ELSE "202"
            /\ op' = op /\ scope' = scope /\ chan' = chan /\ handler' = handler
        BY <1>0, <2>4 DEF EndSend, Answer, TypeOK, connVars
      <4>2. Winner(q) /\ Winner(q)'
        BY <3>3, <4>1 DEF Winner
      <4>3. \A c \in scope[q] : IF failed[q] THEN Gone(c) ELSE chan[c] = "sent"
        BY <3>3, <4>1, <4>2 DEF Judging, Verdicts, Sent
      <4>4. \A c \in scope'[q] : Sent(q, c)'
        BY <4>1, <4>3 DEF Sent, Gone
      <4>5. Verdicts'
        BY <1>b, <3>1, <3>3, <4>1, <4>4 DEF Judging, Verdicts
      <4>6. OneWinner'
        BY <1>b, <3>1, <4>1, <4>2 DEF Judging, OneWinner
      <4> QED
        BY <1>0, <4>5, <4>6 DEF Judging
    <3> QED
      BY <3>2, <3>3
  <2> QED
    BY <1>3, <2>2, <2>3, <2>4 DEF CallRuns
<1>4. ASSUME NEW c \in Conns, ConnStep(c) PROVE UNCHANGED callVars
  BY <1>4 DEF ConnStep, Accept, DropHandler, ConnectFails, Register, CopyEnds, Unregister, Close
<1> QED
  BY <1>1, <1>2, <1>3, <1>4 DEF Next, vars, CtrlC, Exited

\* Of any number of competing shutdown requests for a connection one at most
\* is told anything but 404; 202 means the error was delivered, 500 that the
\* handler was gone.
THEOREM KillVerdictTruthful == Spec => []KillVerdict
<1>1. Judging => KillVerdict
  <2> SUFFICES ASSUME Judging, NEW q \in Calls, op[q] = "kill", pc[q] = "done"
      PROVE /\ \A c \in scope[q] :
                 /\ status[q] = "202" => c \notin registry /\ chan[c] = "sent"
                 /\ status[q] = "500" => ~ReceiverAlive(c) /\ chan[c] = "dropped"
            /\ \A r \in Calls \ {q} :
                 op[r] = "kill" /\ pc[r] = "done" /\ scope[q] = scope[r] =>
                   "404" \in {status[q], status[r]}
    BY DEF KillVerdict
  <2>1. ASSUME NEW c \in scope[q], status[q] # "404"
        PROVE Sent(q, c) /\ (chan[c] = "sent" => c \notin registry)
    BY <2>1 DEF Judging, Verdicts, Winner, Sweeping, Ownership, SenderHeldOnce, TypeOK
  <2> QED
    BY <2>1 DEF Judging, OneWinner, Winner, Sent, Gone, ReceiverAlive
<1>2. Init => Judging
  BY SweepingInit DEF Init, Judging, Verdicts, OneWinner, Winner
<1>3. Judging /\ [Next]_vars => Judging'
  BY JudgingNext
<1> QED
  BY <1>1, <1>2, <1>3, PTL DEF Spec

-----------------------------------------------------------------------------
(* Listings.                                                                *)

\* How much of its scope a listing has collected.
Listing ==
  \A q \in Calls : op[q] = "list" =>
    /\ pc[q] \in {"scan", "done"}
    /\ \A c \in scope[q] :
         /\ chan[c] # "none"
         /\ c \in registry =>
              IF pc[q] = "scan" THEN ShardOf[c] < cursor[q] => c \in ids[q] ELSE c \in ids[q]

Collecting == Sweeping /\ Listing

\* Every step keeps Listing: a shard is passed only when its entries were
\* collected, and no entry comes back to a shard that was passed.
LEMMA CollectingNext == Collecting /\ [Next]_vars => Collecting'
<1> SUFFICES ASSUME Collecting, [Next]_vars PROVE Collecting'
  OBVIOUS
<1>0. Sweeping' /\ Ownership /\ TypeOK /\ \A d \in Conns : SenderAges(d)
  BY SweepingNext, SendersAge DEF Collecting, Sweeping, Ownership
<1>a. \A q \in Calls : scope[q] \subseteq Conns
  BY <1>0 DEF TypeOK
\* Whoever does not move keeps what it has, and what it still needs only shrinks.
<1>b. ASSUME NEW q \in Calls,
             \/ op'[q] # "list"
             \/ /\ op'[q] = op[q] /\ pc'[q] = pc[q] /\ scope'[q] = scope[q]
                /\ cursor'[q] = cursor[q] /\ ids'[q] = ids[q]
      PROVE op'[q] = "list" =>
              /\ pc'[q] \in {"scan", "done"}
              /\ \A c \in scope'[q] :
                   /\ chan'[c] # "none"
                   /\ c \in registry' =>
                        IF pc'[q] = "scan" THEN ShardOf[c] < cursor'[q] => c \in ids'[q]
                        ELSE c \in ids'[q]
  BY <1>0, <1>a, <1>b DEF Collecting, Listing, SenderAges
<1>c. ASSUME NEW q \in Calls, op'[q] # "list",
             \A r \in Calls \ {q} :
               /\ op'[r] = op[r] /\ pc'[r] = pc[r] /\ scope'[r] = scope[r]
               /\ cursor'[r] = cursor[r] /\ ids'[r] = ids[r]
      PROVE Collecting'
  BY <1>0, <1>b, <1>c DEF Collecting, Listing
<1>1. CASE UNCHANGED callVars
  BY <1>0, <1>1, <1>b DEF callVars, Collecting, Listing
<1>2. ASSUME NEW q \in Calls, CallStarts(q) PROVE Collecting'
  <2>1. ASSUME NEW c \in Conns, NEW k \in Knobs, NEW v \in Values, SetKnob(q, c, k, v)
        PROVE Collecting'
    BY <1>0, <1>c, <2>1 DEF SetKnob, Request, Answer, TypeOK
  <2>2. ASSUME NEW c \in Conns, Kill(q, c) PROVE Collecting'
    BY <1>0, <1>c, <2>2 DEF Kill, Request, Answer, TypeOK
  <2>3. ASSUME NEW o \in AllOps, StartScan(q, o) PROVE Collecting'
    <3>1. /\ pc'[q] = "scan" /\ scope'[q] = registry
          /\ cursor'[q] = 0 /\ chan' = chan
      BY <1>0, <2>3 DEF StartScan, Request, TypeOK, Collecting, Sweeping, IdleIsBlank
    <3>2. \A c \in registry : chan[c] = "open" /\ ShardOf[c] \in Nat
      BY <1>0, ShardAssumption DEF Ownership, SenderHeldOnce, TypeOK
    <3>3. ASSUME NEW r \in Calls \ {q}
          PROVE /\ op'[r] = op[r] /\ pc'[r] = pc[r] /\ scope'[r] = scope[r]
                /\ cursor'[r] = cursor[r] /\ ids'[r] = ids[r]
      BY <1>0, <2>3 DEF StartScan, Request, TypeOK
    <3>4. Listing'
      BY <1>b, <3>1, <3>2, <3>3 DEF Listing
    <3> QED
      BY <1>0, <3>4 DEF Collecting
  <2> QED
    BY <1>2, <2>1, <2>2, <2>3 DEF CallStarts
<1>3. ASSUME NEW q \in Calls, CallRuns(q) PROVE Collecting'
  <2>1. ASSUME op' = op, op[q] # "list",
               \A r \in Calls \ {q} :
                 /\ pc'[r] = pc[r] /\ scope'[r] = scope[r]
                 /\ cursor'[r] = cursor[r] /\ ids'[r] = ids[r]
        PROVE Collecting'
    BY <1>c, <2>1
  <2>2. CASE ScanShard(q)
    <3>1. /\ cursor[q] \in Nat /\ cursor'[q] = cursor[q] + 1
          /\ ids'[q] = ids[q] \cup (registry \cap InShard(cursor[q]))
          /\ pc[q] = "scan" /\ UNCHANGED <<registry, chan, pc, op, scope>>
      BY <1>0, <2>2, ShardAssumption DEF ScanShard, TypeOK
    <3>2. ASSUME NEW r \in Calls \ {q}
          PROVE cursor'[r] = cursor[r] /\ ids'[r] = ids[r]
      BY <1>0, <2>2 DEF ScanShard, TypeOK
    <3>3. ASSUME NEW c \in Conns, c \in registry, ShardOf[c] < cursor'[q],
                 ShardOf[c] < cursor[q] => c \in ids[q]
          PROVE c \in ids'[q]
      <4>1. ShardOf[c] < cursor[q] \/ ShardOf[c] = cursor[q]
        BY <3>1, <3>3, ShardAssumption
      <4> QED
        BY <3>1, <3>3, <4>1 DEF InShard
    <3>4. Listing'
      BY <1>a, <1>b, <3>1, <3>2, <3>3 DEF Collecting, Listing
    <3> QED
      BY <1>0, <3>4 DEF Collecting
  <2>3. CASE EndScan(q)
    <3>1. /\ pc[q] = "scan" /\ cursor[q] = NShards
          /\ op[q] = "list" => pc'[q] = "done"
          /\ UNCHANGED <<registry, chan, op, cursor, ids, scope>>
      BY <1>0, <2>3 DEF EndScan, Answer, TypeOK
    <3>2. \A c \in Conns : ShardOf[c] < NShards
      BY ShardAssumption
    <3>3. ASSUME NEW r \in Calls \ {q} PROVE pc'[r] = pc[r]
      BY <1>0, <2>3 DEF EndScan, Answer, TypeOK
    <3>4. Listing'
      BY <1>a, <1>b, <3>1, <3>2, <3>3 DEF Collecting, Listing
    <3> QED
      BY <1>0, <3>4 DEF Collecting
  <2>4. ASSUME NEW c \in Conns, RemoveNext(q, c) PROVE Collecting'
    BY <1>0, <2>1, <2>4 DEF RemoveNext, TypeOK, Collecting, Listing
  <2>5. ASSUME NEW c \in Conns, SendNext(q, c) PROVE Collecting'
    BY <1>0, <2>1, <2>5 DEF SendNext, TypeOK, Collecting, Listing
  <2>6. CASE EndRemove(q) \/ EndSend(q)
    BY <1>0, <2>1, <2>6 DEF EndRemove, EndSend, Answer, TypeOK, Collecting, Listing
  <2> QED
    BY <1>3, <2>2, <2>3, <2>4, <2>5, <2>6 DEF CallRuns
<1>4. ASSUME NEW c \in Conns, ConnStep(c) PROVE UNCHANGED callVars
  BY <1>4 DEF ConnStep, Accept, DropHandler, ConnectFails, Register, CopyEnds, Unregister, Close
<1> QED
  BY <1>1, <1>2, <1>3, <1>4 DEF Next, vars, CtrlC, Exited

\* What a listing reports contains every connection that was registered for as
\* long as the listing took, although it locks one shard at a time.
THEOREM ListingsComplete == Spec => []ListComplete
<1>1. Collecting => ListComplete
  BY DEF Collecting, Listing, ListComplete
<1>2. Init => Collecting
  BY SweepingInit DEF Init, Collecting, Listing
<1>3. Collecting /\ [Next]_vars => Collecting'
  BY CollectingNext
<1> QED
  BY <1>1, <1>2, <1>3, PTL DEF Spec

-----------------------------------------------------------------------------
(* Which connections are reset.                                             *)

\* Once its handler has taken it off the map a connection is off for good; a
\* reset comes after that, and its copy has ended by then.
Fates ==
  \A c \in Conns :
    /\ handler[c] = "removed" => c \notin registry
    /\ c \in reset => handler[c] = "closed" /\ c \notin registry
                        /\ result[c] \in {"terminated", "timeout"}

\* Only connections the proxy itself breaks off are reset, and none that can
\* still be found in the registry.
THEOREM ResetsJustified == Spec => []ResetIsForFaults
<1>1. Fates /\ TypeOK => ResetIsForFaults
  BY DEF Fates, TypeOK, ResetIsForFaults
<1>2. Init => Fates
  BY DEF Init, Fates
<1>3. Fates /\ TypeOK /\ [Next]_vars => Fates'
  <2> SUFFICES ASSUME Fates, TypeOK, [Next]_vars PROVE Fates'
    OBVIOUS
  <2> USE DEF Fates
  <2>1. CASE UNCHANGED <<handler, result, reset, registry>>
    BY <2>1
  <2>2. ASSUME NEW c \in Conns, ConnStep(c) PROVE Fates'
    <3> USE DEF TypeOK
    <3>1. CASE Accept(c) \/ DropHandler(c) \/ ConnectFails(c)
      BY <3>1 DEF Accept, DropHandler, ConnectFails
    <3>2. CASE Register(c)
      BY <3>2 DEF Register
    <3>3. ASSUME NEW r \in Outcomes, CopyEnds(c, r) PROVE Fates'
      BY <3>3 DEF CopyEnds
    <3>4. CASE Unregister(c)
      BY <3>4 DEF Unregister
    <3>5. CASE Close(c)
      BY <3>5 DEF Close, DeservesReset
    <3> QED
      BY <2>2, <3>1, <3>2, <3>3, <3>4, <3>5 DEF ConnStep
  \* Requests only take entries out of the map.
  <2>3. ASSUME NEW q \in Calls, CallStarts(q) \/ CallRuns(q) PROVE Fates'
    <3>1. UNCHANGED <<handler, result, reset>> /\ registry' \subseteq registry
      BY <2>3 DEF CallStarts, SetKnob, Kill, Claim, StartScan, CallRuns, ScanShard, EndScan,
                  RemoveNext, SendNext, EndRemove, EndSend, connVars
    <3> QED
      BY <3>1
  <2> QED
    BY <2>1, <2>2, <2>3 DEF Next, vars, connVars, CtrlC, Exited
<1> QED
  BY <1>1, <1>2, <1>3, TypeCorrect, PTL DEF Spec

-----------------------------------------------------------------------------
(* The registry implements KillSwitch.                                      *)

\* A step that moves no sender is a stutter of the kill switch.
LEMMA IdleSwitch ==
  ASSUME UNCHANGED <<registry, held>>,
         \A c \in Conns : chan'[c] = "none" <=> chan[c] = "none"
  PROVE UNCHANGED Switch!vars
BY DEF Switch!vars, SenderPlace, SenderTaker, HoldersOf

\* Taking c out of the map on behalf of q, as Kill and RemoveNext do.
LEMMA ClaimSwitches ==
  ASSUME Ownership, NEW q \in Calls, NEW c \in Conns, Claim(q, c), chan' = chan
  PROVE [Switch!Next]_Switch!vars
<1>1. CASE c \notin registry
  <2>1. UNCHANGED <<registry, held>>
    BY <1>1 DEF Claim, Ownership, TypeOK
  <2> QED
    BY <2>1, IdleSwitch
<1>2. CASE c \in registry
  <2>1. /\ registry' = registry \ {c}
        /\ held' = [held EXCEPT ![q] = held[q] \cup {c}]
        /\ held \in [Calls -> SUBSET Conns]
    BY <1>2 DEF Claim, Ownership, TypeOK
  <2>2. HoldersOf(c) = {} /\ HoldersOf(c)' = {q}
    BY <1>2, <2>1 DEF HoldersOf, Ownership, SenderHeldOnce
  <2>3. \A d \in Conns \ {c} : HoldersOf(d)' = HoldersOf(d)
    BY <2>1 DEF HoldersOf
  <2>4. SenderPlace[c] = "listed" /\ SenderPlace' = [SenderPlace EXCEPT ![c] = "taken"]
    BY <1>2, <2>1, <2>2, <2>3 DEF SenderPlace
  <2>5. SenderTaker' = [SenderTaker EXCEPT ![c] = {q}]
    BY <2>2, <2>3 DEF SenderTaker
  <2>6. Switch!Take(c, q)
    BY <2>4, <2>5 DEF Switch!Take
  <2> QED
    BY <2>6 DEF Switch!Next
<1> QED
  BY <1>1, <1>2

\* Every step of the proxy is a step of the kill switch or moves no sender.
LEMMA StepSwitches == Ownership /\ [Next]_vars => [Switch!Next]_Switch!vars
<1> SUFFICES ASSUME Ownership, [Next]_vars PROVE [Switch!Next]_Switch!vars
  OBVIOUS
<1>0. TypeOK
  BY DEF Ownership
<1>1. CASE UNCHANGED <<registry, held, chan>>
  BY <1>1, IdleSwitch
<1>2. ASSUME NEW c \in Conns, ConnStep(c) PROVE [Switch!Next]_Switch!vars
  <2>1. CASE Accept(c) \/ DropHandler(c) \/ ConnectFails(c) \/ Close(c)
             \/ \E r \in Outcomes : CopyEnds(c, r)
    BY <1>1, <2>1 DEF Accept, DropHandler, ConnectFails, Close, CopyEnds, callVars
  <2>2. CASE Register(c)
    <3>1. chan[c] = "none" /\ c \notin registry /\ HoldersOf(c) = {}
      BY <2>2 DEF Register, Ownership, ChannelAge, SenderHeldOnce, HoldersOf
    <3>2. /\ registry' = registry \cup {c} /\ held' = held
          /\ chan' = [chan EXCEPT ![c] = "open"] /\ chan \in [Conns -> {"none", "open", "sent", "dropped"}]
      BY <1>0, <2>2 DEF Register, callVars, TypeOK
    <3>3. \A d \in Conns : HoldersOf(d)' = HoldersOf(d)
      BY <3>2 DEF HoldersOf
    <3>4. SenderPlace[c] = "unborn" /\ SenderPlace' = [SenderPlace EXCEPT ![c] = "listed"]
      BY <3>1, <3>2, <3>3 DEF SenderPlace
    <3>5. SenderTaker' = SenderTaker
      BY <3>3 DEF SenderTaker
    <3>6. Switch!Publish(c)
      BY <3>4, <3>5 DEF Switch!Publish
    <3> QED
      BY <3>6 DEF Switch!Next
  <2>3. CASE Unregister(c)
    <3>1. CASE c \notin registry
      BY <1>0, <1>1, <2>3, <3>1 DEF Unregister, callVars, TypeOK
    <3>2. CASE c \in registry
      <4>1. HoldersOf(c) = {}
        BY <3>2 DEF Ownership, SenderHeldOnce, HoldersOf
      <4>2. /\ registry' = registry \ {c} /\ held' = held
            /\ chan' = [chan EXCEPT ![c] = "dropped"] /\ chan \in [Conns -> {"none", "open", "sent", "dropped"}]
        BY <1>0, <2>3, <3>2 DEF Unregister, callVars, TypeOK
      <4>3. \A d \in Conns : HoldersOf(d)' = HoldersOf(d)
        BY <4>2 DEF HoldersOf
      <4>4. SenderPlace[c] = "listed" /\ SenderPlace' = [SenderPlace EXCEPT ![c] = "spent"]
        BY <3>2, <4>1, <4>2, <4>3 DEF SenderPlace
      <4>5. SenderTaker' = SenderTaker
        BY <4>3 DEF SenderTaker
      <4>6. Switch!Discard(c)
        BY <4>4, <4>5 DEF Switch!Discard
      <4> QED
        BY <4>6 DEF Switch!Next
    <3> QED
      BY <3>1, <3>2
  <2> QED
    BY <1>2, <2>1, <2>2, <2>3 DEF ConnStep
<1>3. ASSUME NEW q \in Calls, CallStarts(q) PROVE [Switch!Next]_Switch!vars
  <2>1. ASSUME NEW c \in Conns, NEW k \in Knobs, NEW v \in Values, SetKnob(q, c, k, v)
        PROVE [Switch!Next]_Switch!vars
    BY <1>1, <2>1 DEF SetKnob
  <2>2. ASSUME NEW c \in Conns, Kill(q, c) PROVE [Switch!Next]_Switch!vars
    BY <2>2, ClaimSwitches DEF Kill
  <2>3. ASSUME NEW o \in AllOps, StartScan(q, o) PROVE [Switch!Next]_Switch!vars
    BY <1>1, <2>3 DEF StartScan
  <2> QED
    BY <1>3, <2>1, <2>2, <2>3 DEF CallStarts
<1>4. ASSUME NEW q \in Calls, CallRuns(q) PROVE [Switch!Next]_Switch!vars
  <2>1. CASE ScanShard(q) \/ EndScan(q) \/ EndRemove(q) \/ EndSend(q)
    BY <1>1, <2>1 DEF ScanShard, EndScan, EndRemove, EndSend
  <2>2. ASSUME NEW c \in Conns, RemoveNext(q, c) PROVE [Switch!Next]_Switch!vars
    BY <2>2, ClaimSwitches DEF RemoveNext
  <2>3. ASSUME NEW c \in Conns, SendNext(q, c) PROVE [Switch!Next]_Switch!vars
    <3>1. /\ c \in held[q] /\ c \notin registry
          /\ \A r \in Calls \ {q} : c \notin held[r]
      BY <2>3 DEF SendNext, Ownership, SenderHeldOnce
    <3>2. /\ registry' = registry
          /\ held' = [held EXCEPT ![q] = held[q] \ {c}] /\ held \in [Calls -> SUBSET Conns]
          /\ chan'[c] # "none" /\ \A d \in Conns \ {c} : chan'[d] = chan[d]
      BY <1>0, <2>3 DEF SendNext, TypeOK
    <3>3. HoldersOf(c) # {} /\ HoldersOf(c)' = {}
      BY <3>1, <3>2 DEF HoldersOf
    <3>4. \A d \in Conns \ {c} : HoldersOf(d)' = HoldersOf(d)
      BY <3>2 DEF HoldersOf
    <3>5. SenderPlace[c] = "taken" /\ SenderPlace' = [SenderPlace EXCEPT ![c] = "spent"]
      BY <3>1, <3>2, <3>3, <3>4 DEF SenderPlace
    <3>6. SenderTaker' = [SenderTaker EXCEPT ![c] = {}]
      BY <3>3, <3>4 DEF SenderTaker
    <3>7. Switch!Send(c)
      BY <3>5, <3>6 DEF Switch!Send
    <3> QED
      BY <3>7 DEF Switch!Next
  <2> QED
    BY <1>4, <2>1, <2>2, <2>3 DEF CallRuns
<1> QED
  BY <1>1, <1>2, <1>3, <1>4 DEF Next, vars, CtrlC, Exited, callVars

\* Seen from its shutdown senders the proxy is a kill switch: each sender is
\* published once, claimed by one request at most, and spent by its claimant or
\* discarded by the handler, never both.
THEOREM RefinesKillSwitch == Spec => ImplementsKillSwitch
<1>1. Init => Switch!Init
  BY DEF Init, Switch!Init, SenderPlace, SenderTaker, HoldersOf
<1>2. Ownership /\ [Next]_vars => [Switch!Next]_Switch!vars
  BY StepSwitches
<1> QED
  BY <1>1, <1>2, OwnershipAlways, PTL DEF Spec, ImplementsKillSwitch, Switch!Safety
=============================================================================
