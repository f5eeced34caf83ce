------------------------------ MODULE Relay_proof ------------------------------
(***************************************************************************)
(* Proofs about Relay for copy buffers of any size and peers that send any *)
(* number of bytes.                                                        *)
(***************************************************************************)
EXTENDS Relay, TLAPS

\* The two directions go between the two sides, each its own way.
LEMMA Ends ==
  /\ From["DU"] = "down" /\ To["DU"] = "up" /\ From["UD"] = "up" /\ To["UD"] = "down"
  /\ \A d \in Dirs : From[d] \in Sides /\ To[d] \in Sides
  /\ \A d, e \in Dirs : d # e => From[d] # From[e] /\ To[d] # To[e]
BY DEF From, To, Dirs, Sides

-----------------------------------------------------------------------------
(* Types, and where a direction is in its loop.                             *)

\* What the next step of direction d presupposes.
AtStep(d) ==
  /\ st[d] = IF step = "shutdown" THEN "shutting" ELSE "running"
  /\ step \in {"fill", "topup"} => ~eof[d] /\ end[d] < Cap
  /\ step = "topup" => pos[d] < end[d]
  /\ step = "idleflush" => ~eof[d] /\ pos[d] = end[d]
  /\ step = "endflush" => eof[d]

\* A direction that is done is not polled; when both are, the future is over.
Turns ==
  /\ \A d \in Dirs : task = d => AtStep(d)
  /\ task = "parked" => \E d \in Dirs : st[d] # "done"

Typed == TypeOK /\ Turns

\* The future before its first poll.
LEMMA TypedInit == Init => Typed
<1> SUFFICES ASSUME Init PROVE Typed
  OBVIOUS
<1>1. 0 \in 0..Cap /\ \A s \in Sides : MaxSent[s] >= 0
  BY RelayAssumption
<1>2. TypeOK
  <2>1. /\ task \in Dirs \cup {"parked", "over"}
        /\ step \in {"fill", "write", "topup", "idleflush", "endflush", "shutdown"}
        /\ gated \in BOOLEAN /\ woken \in BOOLEAN /\ timer \in BOOLEAN /\ timed \in Timed
        /\ interest \subseteq Wakes
        /\ outcome \in {"none", "ok", "io", "terminated", "reason", "sentinel", "timeout"}
        /\ rx \in {"waiting", "none"} /\ signal \in {"open", "sent"}
    BY DEF Init
  <2>2. /\ st \in [Dirs -> {"running", "shutting", "done"}]
        /\ end \in [Dirs -> 0..Cap] /\ pos \in [Dirs -> 0..Cap]
        /\ \A d \in Dirs : pos[d] <= end[d]
        /\ eof \in [Dirs -> BOOLEAN] /\ unflushed \in [Dirs -> BOOLEAN]
    BY <1>1 DEF Init
  <2>3. /\ sent \in [Sides -> Nat] /\ avail \in [Sides -> Nat]
        /\ \A s \in Sides : sent[s] <= MaxSent[s] /\ avail[s] <= sent[s]
        /\ fin \in [Sides -> BOOLEAN] /\ room \in [Sides -> BOOLEAN]
        /\ lag \in [Sides -> {"idle", "running", "elapsed"}]
    BY <1>1 DEF Init
  <2> QED
    BY <2>1, <2>2, <2>3 DEF TypeOK
<1>3. Turns
  BY DEF Init, Turns, Dirs
<1> QED
  BY <1>2, <1>3 DEF Typed

\* A poll of a direction that is not done begins at a step that suits it.
LEMMA EntrySuits ==
  ASSUME TypeOK, NEW d \in Dirs, st[d] # "done"
  PROVE /\ Entry(d) \in {"fill", "write", "shutdown"}
        /\ st[d] = IF Entry(d) = "shutdown" THEN "shutting" ELSE "running"
        /\ Entry(d) = "fill" => ~eof[d] /\ end[d] < Cap
<1>1. CASE st[d] = "shutting"
  BY <1>1 DEF Entry
<1>2. CASE st[d] = "running" /\ ~eof[d] /\ end[d] < Cap
  BY <1>2 DEF Entry
<1>3. CASE st[d] = "running" /\ (eof[d] \/ end[d] = Cap)
  BY <1>3, RelayAssumption DEF Entry, TypeOK
<1> QED
  BY <1>1, <1>2, <1>3, RelayAssumption DEF TypeOK

\* A direction that yields leaves the turn to the other, or ends the poll.
LEMMA YieldTurns ==
  ASSUME Typed, NEW d \in Dirs, task = d, NEW st2, Yield(d, st2), st' = st2,
         st2 \in [Dirs -> {"running", "shutting", "done"}],
         \A e \in Dirs \ {d} :
           st2[e] = st[e] /\ eof'[e] = eof[e] /\ end'[e] = end[e] /\ pos'[e] = pos[e]
  PROVE /\ task' \in Dirs \cup {"parked", "over"}
        /\ step' \in {"fill", "write", "topup", "idleflush", "endflush", "shutdown"}
        /\ outcome' \in {"none", "ok", "io", "terminated", "reason", "sentinel", "timeout"}
        /\ Turns'
<1> USE DEF Typed, Dirs
<1>1. CASE d = "DU" /\ st["UD"] # "done"
  <2>1. task' = "UD" /\ step' = Entry("UD") /\ UNCHANGED outcome
    BY <1>1 DEF Yield
  <2> QED
    BY <1>1, <2>1, EntrySuits DEF TypeOK, Turns, AtStep
<1>2. CASE ~(d = "DU" /\ st["UD"] # "done") /\ \A e \in Dirs : st2[e] = "done"
  BY <1>2 DEF Yield, TypeOK, Turns
<1>3. CASE ~(d = "DU" /\ st["UD"] # "done") /\ \E e \in Dirs : st2[e] # "done"
  <2>1. Rest
    BY <1>3 DEF Yield
  <2> QED
    BY <1>3, <2>1 DEF Rest, TypeOK, Turns
<1> QED
  BY <1>1, <1>2, <1>3

\* Every step keeps the types and the turns.
LEMMA TypedNext == Typed /\ [Next]_vars => Typed'
<1> SUFFICES ASSUME Typed, [Next]_vars PROVE Typed'
  OBVIOUS
<1> USE DEF Typed, TypeOK
<1>1. CASE UNCHANGED vars
  BY <1>1 DEF vars, bufVars, peerVars, Turns, AtStep
<1>2. CASE Poll
  <2>1. task' \in Dirs /\ st[task'] # "done" /\ step' = Entry(task')
    BY <1>2 DEF Poll, Dirs, Turns
  <2>2. UNCHANGED <<gated, interest, outcome, st, bufVars, rx, signal, timed, timer, lag, peerVars>>
        /\ woken' = FALSE
    BY <1>2 DEF Poll
  <2>3. Turns'
    BY <2>1, <2>2, EntrySuits DEF Turns, AtStep, bufVars, Dirs
  <2> QED
    BY <2>1, <2>2, <2>3, EntrySuits DEF bufVars, peerVars, Dirs
<1>3. CASE PollError
  <2>1. UNCHANGED <<step, woken, st, bufVars, signal, timed, timer, lag, peerVars>>
    BY <1>3 DEF PollError
  <2>2. CASE Trip
    <3>1. /\ task' = "over" /\ rx' = "none" /\ UNCHANGED <<gated, interest>>
          /\ outcome' \in {"none", "ok", "io", "terminated", "reason", "sentinel", "timeout"}
      BY <2>2 DEF Trip, Fail
    <3>2. Turns'
      BY <3>1 DEF Turns, Dirs
    <3> QED
      BY <2>1, <3>1, <3>2 DEF bufVars, peerVars
  <2>3. CASE LetThrough
    <3>1. interest' \subseteq Wakes /\ gated' \in BOOLEAN /\ UNCHANGED <<task, outcome, rx>>
      BY <2>3 DEF LetThrough, Wakes
    <3> QED
      BY <2>1, <3>1 DEF bufVars, peerVars, Turns, AtStep
  <2> QED
    BY <1>3, <2>2, <2>3 DEF PollError
<1>4. CASE OperationFails
  BY <1>4 DEF OperationFails, Fail, bufVars, peerVars, Turns, Dirs
<1>5. ASSUME NEW d \in Dirs, Copy(d) PROVE Typed'
  <2>0. From[d] \in Sides /\ To[d] \in Sides
    BY Ends
  \* A step that stays in the loop of d ...
  <2>a. ASSUME task = d, task' = d, outcome' = outcome,
               step' \in {"fill", "write", "topup", "idleflush", "endflush", "shutdown"},
               AtStep(d)'
        PROVE task' \in Dirs \cup {"parked", "over"} /\ Turns'
    BY <2>a DEF Turns, Dirs
  <2>1. CASE ReadBytes(d)
    <3>1. PICK n \in Space(d) :
            /\ n <= avail[From[d]]
            /\ avail' = [avail EXCEPT ![From[d]] = @ - n]
            /\ end' = [end EXCEPT ![d] = @ + n]
      BY <2>1 DEF ReadBytes
    <3>2. /\ avail' \in [Sides -> Nat] /\ \A s \in Sides : avail'[s] <= sent[s]
          /\ end' \in [Dirs -> 0..Cap] /\ \A e \in Dirs : pos[e] <= end'[e]
      BY <2>0, <3>1, RelayAssumption DEF Space
    <3>3. CASE step = "fill"
      BY <2>1, <2>a, <3>2, <3>3 DEF ReadBytes, Filling, Turns, AtStep, bufVars
    <3>4. CASE step # "fill"
      <4>1. Yield(d, st) /\ task = d /\ UNCHANGED <<st, eof, pos>>
        BY <2>1, <3>4 DEF ReadBytes, Filling
      <4> QED
        BY <2>1, <3>1, <3>2, <4>1, YieldTurns DEF ReadBytes
    <3> QED
      BY <3>3, <3>4
  <2>2. CASE ReadEof(d)
    <3>1. CASE step = "fill"
      BY <2>2, <2>a, <3>1 DEF ReadEof, Filling, Turns, AtStep, peerVars
    <3>2. CASE step # "fill"
      <4>1. Yield(d, st) /\ task = d /\ UNCHANGED <<st, end, pos>>
            /\ eof' = [eof EXCEPT ![d] = TRUE]
        BY <2>2, <3>2 DEF ReadEof, Filling
      <4> QED
        BY <2>2, <4>1, YieldTurns DEF ReadEof, peerVars
    <3> QED
      BY <3>1, <3>2
  <2>3. CASE ReadPending(d)
    <3>1. interest' \subseteq Wakes
      BY <2>0, <2>3 DEF ReadPending, Readable, Wakes, Sides
    <3>2. CASE Yield(d, st)
      <4>1. task = d /\ UNCHANGED <<st, bufVars>>
        BY <2>3 DEF ReadPending, Filling
      <4> QED
        BY <2>3, <3>1, <3>2, <4>1, YieldTurns DEF ReadPending, bufVars, peerVars
    <3>3. CASE step = "fill" /\ step' \in {"write", "idleflush"} /\ UNCHANGED <<task, outcome>>
               /\ (step' = "idleflush" => pos[d] = end[d])
      BY <2>3, <2>a, <3>1, <3>3 DEF ReadPending, Filling, Turns, AtStep, bufVars, peerVars
    <3> QED
      BY <2>3, <3>2, <3>3 DEF ReadPending
  <2>4. CASE IdleFlush(d)
    <3>1. task = d /\ Yield(d, st) /\ UNCHANGED <<st, pos, end, eof>>
      BY <2>4 DEF IdleFlush
    <3> QED
      BY <2>4, <3>1, YieldTurns DEF IdleFlush, peerVars
  \* ... and one that could not write.
  <2>b. ASSUME task = d, Blocked(d), UNCHANGED <<st, bufVars>>,
               step = "write" => pos[d] < end[d]
        PROVE /\ task' \in Dirs \cup {"parked", "over"}
              /\ step' \in {"fill", "write", "topup", "idleflush", "endflush", "shutdown"}
              /\ outcome' \in {"none", "ok", "io", "terminated", "reason", "sentinel", "timeout"}
              /\ Turns'
    <3>1. CASE step = "write" /\ ~eof[d] /\ end[d] < Cap
      BY <2>a, <2>b, <3>1 DEF Blocked, bufVars, Turns, AtStep
    <3>2. CASE ~(step = "write" /\ ~eof[d] /\ end[d] < Cap)
      <4>1. Yield(d, st)
        BY <2>b, <3>2 DEF Blocked
      <4> QED
        BY <2>b, <4>1, YieldTurns DEF bufVars
    <3> QED
      BY <3>1, <3>2
  <2>5. CASE DelayPending(d)
    <3>1. interest' \subseteq Wakes
      BY <2>0, <2>5 DEF DelayPending, Delayed, Wakes, Sides
    <3>2. step = "write" => pos[d] < end[d]
      BY <2>5 DEF DelayPending, Through, Operating
    <3> QED
      BY <2>0, <2>5, <2>b, <3>1, <3>2 DEF DelayPending, bufVars, peerVars
  <2>6. CASE Write(d)
    <3>1. PICK n \in 1..(end[d] - pos[d]) : pos' = [pos EXCEPT ![d] = @ + n]
      BY <2>6 DEF Write
    <3>2. pos' \in [Dirs -> 0..Cap] /\ \A e \in Dirs : pos'[e] <= end[e]
      BY <3>1, RelayAssumption
    <3>3. /\ UNCHANGED <<task, step, woken, interest, outcome, st, end, eof, rx, signal, timed,
                        timer, sent, avail, fin>>
          /\ gated' \in BOOLEAN
      BY <2>6 DEF Write
    <3>4. room' \in [Sides -> BOOLEAN] /\ unflushed' \in [Dirs -> BOOLEAN]
      BY <2>6 DEF Write
    <3>5. lag' \in [Sides -> {"idle", "running", "elapsed"}]
      BY <2>6 DEF Write, DelayPassed
    <3>6. Turns'
      <4>1. task = d /\ step = "write" /\ st[d] = "running"
        BY <2>6 DEF Write, Turns, AtStep
      <4> QED
        BY <2>a, <3>3, <4>1 DEF AtStep
    <3> QED
      BY <3>2, <3>3, <3>4, <3>5, <3>6
  <2>7. CASE WritePending(d)
    <3>1. interest' \subseteq Wakes
      BY <2>0, <2>7 DEF WritePending, Writable, Wakes, Sides
    <3>2. pos[d] < end[d]
      BY <2>7 DEF WritePending, Through, Operating
    <3> QED
      BY <2>0, <2>7, <2>b, <3>1, <3>2 DEF WritePending, DelayPassed, bufVars, peerVars
  <2>8. CASE Drained(d)
    BY <2>8, <2>a, RelayAssumption DEF Drained, Rewind, Turns, AtStep, peerVars
  <2>9. CASE EndFlush(d)
    BY <2>9, <2>a DEF EndFlush, Turns, AtStep, bufVars, peerVars
  <2>10. CASE ShutdownWriter(d)
    <3>1. /\ task = d /\ Yield(d, st') /\ UNCHANGED bufVars
          /\ st' = [st EXCEPT ![d] = "done"]
      BY <2>10 DEF ShutdownWriter
    <3> QED
      BY <2>0, <2>10, <3>1, YieldTurns DEF ShutdownWriter, DelayPassed, bufVars, peerVars
  <2> QED
    BY <1>5, <2>1, <2>2, <2>3, <2>4, <2>5, <2>6, <2>7, <2>8, <2>9, <2>10 DEF Copy
<1>6. ASSUME NEW s \in Sides, PeerSends(s) \/ PeerCloses(s) \/ PeerReads(s) \/ DelayElapses(s)
      PROVE Typed'
  <2>0. UNCHANGED <<task, step, st, bufVars>>
    BY <1>6 DEF PeerSends, PeerCloses, PeerReads, DelayElapses
  <2>1. Turns'
    BY <2>0 DEF Turns, AtStep, bufVars
  <2>2. CASE PeerSends(s)
    <3>0. MaxSent[s] \in Nat
      BY RelayAssumption
    <3>1. /\ sent' = [sent EXCEPT ![s] = sent[s] + 1] /\ avail' = [avail EXCEPT ![s] = avail[s] + 1]
          /\ sent[s] + 1 <= MaxSent[s]
      BY <2>2, <3>0 DEF PeerSends
    <3>2. /\ sent' \in [Sides -> Nat] /\ avail' \in [Sides -> Nat]
          /\ \A r \in Sides : sent'[r] <= MaxSent[r] /\ avail'[r] <= sent'[r]
      BY <3>1
    <3> QED
      BY <2>1, <2>2, <3>2 DEF PeerSends, Wake, bufVars
  <2>3. CASE PeerCloses(s)
    BY <2>1, <2>3 DEF PeerCloses, Wake, bufVars
  <2>4. CASE PeerReads(s)
    BY <2>1, <2>4 DEF PeerReads, Wake, bufVars
  <2>5. CASE DelayElapses(s)
    BY <2>1, <2>5 DEF DelayElapses, Wake, bufVars, peerVars
  <2> QED
    BY <1>6, <2>2, <2>3, <2>4, <2>5
<1>7. CASE Kill \/ TimerFires \/ Over
  <2>1. Turns'
    BY <1>7 DEF Kill, TimerFires, Over, vars, bufVars, Turns, AtStep
  <2>2. CASE Kill
    BY <2>1, <2>2 DEF Kill, Wake, bufVars, peerVars
  <2>3. CASE TimerFires
    BY <2>1, <2>3 DEF TimerFires, bufVars, peerVars
  <2>4. CASE Over
    BY <2>1, <2>4 DEF Over, vars, bufVars, peerVars
  <2> QED
    BY <1>7, <2>2, <2>3, <2>4
<1> QED
  BY <1>1, <1>2, <1>3, <1>4, <1>5, <1>6, <1>7 DEF Next, TaskStep

\* Typed is an invariant.
LEMMA TypedAlways == Spec => []Typed
BY TypedInit, TypedNext, PTL DEF Spec

\* Every variable keeps its type, whatever the two peers do.
THEOREM TypeCorrect == Spec => []TypeOK
<1>1. Typed => TypeOK
  BY DEF Typed
<1> QED
  BY <1>1, TypedAlways, PTL

-----------------------------------------------------------------------------
(* How the future resolves.                                                 *)

\* The future has an outcome only when it is over, and so it is when the
\* receiver is gone.  A direction that has seen end of file has read
\* everything; one that is being shut down has seen it.
Accounts ==
  /\ rx = "none" \/ outcome # "none" => task = "over"
  /\ \A d \in Dirs :
       /\ eof[d] => fin[From[d]] /\ avail[From[d]] = 0
       /\ st[d] # "running" => eof[d]

\* What a yield makes of the outcome.
LEMMA YieldOutcome ==
  ASSUME NEW d \in Dirs, NEW st2, Yield(d, st2)
  PROVE \/ outcome' = outcome
        \/ outcome' = "ok" /\ task' = "over" /\ \A e \in Dirs : st2[e] = "done"
        \/ outcome' = "timeout" /\ task' = "over" /\ timer
BY DEF Yield, Rest

\* Nothing has happened at first.
LEMMA AccountsInit == Init => Accounts /\ OutcomeJustified
BY DEF Init, Accounts, OutcomeJustified

\* Every step keeps the accounts and with them the justification.
LEMMA AccountsNext ==
  ASSUME Typed, Accounts, OutcomeJustified, [Next]_vars
  PROVE Accounts' /\ OutcomeJustified'
<1> USE DEF Accounts, OutcomeJustified
<1>a. ASSUME UNCHANGED <<st, eof, rx, signal, timer, outcome, avail, fin>>,
             task = "over" => task' = "over"
      PROVE Accounts' /\ OutcomeJustified'
  BY <1>a
<1>1. CASE UNCHANGED vars
  BY <1>1, <1>a DEF vars, bufVars, peerVars
<1>2. CASE Poll
  BY <1>2, <1>a DEF Poll, bufVars, peerVars
<1>3. CASE PollError
  <2>1. task \in Dirs /\ task # "over" /\ UNCHANGED <<st, eof, signal, timer, avail, fin>>
    BY <1>3 DEF PollError, Operating, bufVars, peerVars, Dirs
  <2>2. CASE Trip
    <3>1. signal = "sent" /\ outcome' = "reason" /\ task' = "over" /\ rx' = "none"
      BY <2>1, <2>2 DEF Trip, Fail, Typed, TypeOK
    <3> QED
      BY <2>1, <3>1
  <2>3. CASE LetThrough
    BY <2>1, <2>3, <1>a DEF LetThrough
  <2> QED
    BY <1>3, <2>2, <2>3 DEF PollError
<1>4. CASE OperationFails
  BY <1>4 DEF OperationFails, Fail, bufVars, peerVars
<1>5. ASSUME NEW d \in Dirs, Copy(d) PROVE Accounts' /\ OutcomeJustified'
  <2>0. From[d] \in Sides /\ task = d /\ task # "over"
    BY <1>5, Ends DEF Copy, ReadBytes, ReadEof, ReadPending, Filling, IdleFlush, DelayPending,
                      Write, WritePending, Drained, EndFlush, ShutdownWriter, Dirs
  \* A direction that is not done keeps the future from being "ok".
  <2>a. ASSUME st' = st, st[d] # "done", UNCHANGED <<rx, signal, timer>>,
               outcome' = outcome \/ Yield(d, st),
               \A e \in Dirs : eof'[e] => fin'[From[e]] /\ avail'[From[e]] = 0,
               \A e \in Dirs : eof[e] => eof'[e]
        PROVE Accounts' /\ OutcomeJustified'
    <3>1. outcome = "none" /\ rx # "none"
      BY <2>0
    <3>2. outcome' = "none" \/ (outcome' = "timeout" /\ task' = "over" /\ timer)
      BY <2>a, <3>1, YieldOutcome
    <3>3. \A e \in Dirs : st'[e] # "running" => eof'[e]
      BY <2>a
    <3> QED
      BY <2>a, <3>1, <3>2, <3>3
  <2>b. st[d] # "done" \/ step = "shutdown"
    BY <2>0 DEF Typed, Turns, AtStep
  <2>1. CASE ReadBytes(d)
    <3>1. ~eof[d]
      BY <2>0, <2>1 DEF ReadBytes, Filling, Typed, Turns, AtStep
    <3>2. \A e \in Dirs \ {d} : avail'[From[e]] = avail[From[e]]
      BY <2>0, <2>1, Ends DEF ReadBytes, Typed, TypeOK
    <3> QED
      BY <2>1, <2>a, <2>b, <3>1, <3>2 DEF ReadBytes, Filling
  <2>2. CASE ReadEof(d)
    <3>1. \A e \in Dirs \ {d} : eof'[e] = eof[e]
      BY <2>2 DEF ReadEof, Typed, TypeOK
    <3> QED
      BY <2>2, <2>a, <2>b, <3>1 DEF ReadEof, Filling, peerVars, Typed, TypeOK
  <2>3. CASE ReadPending(d) \/ IdleFlush(d) \/ Write(d) \/ WritePending(d) \/ Drained(d)
             \/ (DelayPending(d) /\ step = "write")
    <3>1. /\ UNCHANGED <<st, eof, rx, signal, timer, avail, fin>>
          /\ outcome' = outcome \/ Yield(d, st)
          /\ step # "shutdown"
      BY <2>3 DEF ReadPending, Filling, IdleFlush, Write, WritePending, Drained, DelayPending,
                  Blocked, bufVars, peerVars
    <3> QED
      BY <2>a, <2>b, <3>1
  <2>4. CASE DelayPending(d) /\ step = "shutdown"
    <3>1. st[d] = "shutting"
      BY <2>0, <2>4 DEF Typed, Turns, AtStep
    <3> QED
      BY <2>4, <2>a, <3>1 DEF DelayPending, Blocked, bufVars, peerVars
  <2>5. CASE EndFlush(d)
    <3>1. eof[d]
      BY <2>0, <2>5 DEF EndFlush, Typed, Turns, AtStep
    <3> QED
      BY <2>0, <2>5, <3>1 DEF EndFlush, bufVars, peerVars, Typed, TypeOK
  <2>6. CASE ShutdownWriter(d)
    <3>1. eof[d]
      BY <2>0, <2>6 DEF ShutdownWriter, Typed, Turns, AtStep
    <3>2. /\ Yield(d, st') /\ \A e \in Dirs : st'[e] # "running" => eof[e]
          /\ UNCHANGED <<eof, rx, signal, timer, avail, fin>>
      BY <2>6, <3>1 DEF ShutdownWriter, bufVars, peerVars, Typed, TypeOK
    <3>3. outcome' = "ok" => outcome = "ok" \/ \A e \in Dirs : eof[e]
      BY <3>2, YieldOutcome
    <3>4. OutcomeJustified'
      BY <3>2, <3>3, YieldOutcome, Ends DEF Dirs
    <3>5. outcome' # "none" => task' = "over"
      BY <2>0, <3>2, YieldOutcome
    <3> QED
      BY <2>0, <3>2, <3>4, <3>5
  <2> QED
    BY <1>5, <2>1, <2>2, <2>3, <2>4, <2>5, <2>6 DEF Copy, DelayPending
<1>6. ASSUME NEW s \in Sides, PeerSends(s) \/ PeerCloses(s) PROVE Accounts' /\ OutcomeJustified'
  <2>1. task # "over" /\ outcome = "none" /\ UNCHANGED <<task, st, eof, rx, signal, timer, outcome>>
    BY <1>6 DEF PeerSends, PeerCloses, bufVars
  <2>2. \A r \in Sides : fin[r] => fin'[r] /\ avail'[r] = avail[r]
    BY <1>6 DEF PeerSends, PeerCloses, Typed, TypeOK
  <2> QED
    BY <2>1, <2>2, Ends
<1>7. ASSUME NEW s \in Sides, PeerReads(s) \/ DelayElapses(s) PROVE Accounts' /\ OutcomeJustified'
  BY <1>7, <1>a DEF PeerReads, DelayElapses, bufVars, peerVars
<1>8. CASE Kill
  BY <1>8 DEF Kill, bufVars, peerVars
<1>9. CASE TimerFires
  BY <1>9 DEF TimerFires, bufVars, peerVars
<1> QED
  BY <1>1, <1>2, <1>3, <1>4, <1>5, <1>6, <1>7, <1>8, <1>9 DEF Next, TaskStep, Over

\* Both are invariants.
LEMMA AccountsAlways == Spec => [](Accounts /\ OutcomeJustified)
<1>1. Typed /\ Accounts /\ OutcomeJustified /\ [Next]_vars => Accounts' /\ OutcomeJustified'
  BY AccountsNext
<1> QED
  BY <1>1, AccountsInit, TypedAlways, PTL DEF Spec

\* The future resolves with a cause that has occurred: with the reason it was
\* killed for, never with the generic one, with a timeout only after the time,
\* and with success only when both peers have closed and all was read.
THEOREM OutcomesJustified == Spec => []OutcomeJustified
BY AccountsAlways, PTL

-----------------------------------------------------------------------------
(* No lost wake-up.                                                         *)

\* The registrations that a direction relies on while it is not polled: with
\* the Shutdowner's oneshot, with its reader, with its writer.
Signalled == "signal" \in interest /\ signal = "open"

ReadIdle(d) ==
  avail[From[d]] = 0 /\ ~fin[From[d]] /\ Readable[From[d]] \in interest

DelayRuns(d) == lag[To[d]] = "running" /\ Delayed[To[d]] \in interest

WriteStuck(d) == DelayRuns(d) \/ (~room[To[d]] /\ Writable[To[d]] \in interest)

\* Direction d has had its turn in the current poll, or in the last one.
HadTurn(d) == task = "parked" \/ (task = "UD" /\ d = "DU")

\* What may have made d yield is still the case.
AwaitsInput(d) ==
  pos[d] = end[d] /\ ~eof[d] /\ ReadIdle(d) /\ (d = "DU" => Signalled)

AwaitsWriter(d) ==
  /\ pos[d] < end[d] /\ WriteStuck(d)
  /\ d = "UD" \/ (~eof[d] /\ end[d] < Cap) => Signalled

AwaitsShutdown(d) == DelayRuns(d) /\ (d = "UD" => Signalled)

Waits(d) ==
  \/ st[d] = "done"
  \/ st[d] = "running" /\ (AwaitsInput(d) \/ AwaitsWriter(d))
  \/ st[d] = "shutting" /\ AwaitsShutdown(d)

\* The step in progress relies on what the step before it has registered.
MidStep(d) ==
  /\ step = "idleflush" => ReadIdle(d) /\ (d = "DU" => Signalled)
  /\ step = "topup" => WriteStuck(d) /\ (d = "UD" => Signalled)
  /\ gated => Signalled

Watch ==
  /\ gated => task \in Dirs
  /\ task = "parked" /\ ~woken => ~timer
  /\ ~woken => \A d \in Dirs : (HadTurn(d) => Waits(d)) /\ (task = d => MidStep(d))

\* A direction waits on, whatever changes elsewhere.
LEMMA WaitsOn ==
  ASSUME NEW e \in Dirs, Waits(e), interest \subseteq interest', signal' = signal,
         st'[e] = st[e], pos'[e] = pos[e], end'[e] = end[e], eof'[e] = eof[e],
         avail'[From[e]] = avail[From[e]], fin'[From[e]] = fin[From[e]],
         room'[To[e]] = room[To[e]], lag'[To[e]] = lag[To[e]]
  PROVE Waits(e)'
<1>1. Signalled => Signalled'
  BY DEF Signalled
<1>2. ReadIdle(e) => ReadIdle(e)'
  BY DEF ReadIdle
<1>3. (DelayRuns(e) => DelayRuns(e)') /\ (WriteStuck(e) => WriteStuck(e)')
  BY DEF DelayRuns, WriteStuck
<1> QED
  BY <1>1, <1>2, <1>3 DEF Waits, AwaitsInput, AwaitsWriter, AwaitsShutdown

\* A direction may yield once it waits.
LEMMA YieldWatches ==
  ASSUME Typed, Watch, NEW d \in Dirs, task = d, ~woken,
         NEW st2, Yield(d, st2), st' = st2, timer' = timer, gated' = FALSE,
         Waits(d)',
         \A e \in Dirs \ {d} : st'[e] = st[e] /\ (Waits(e) => Waits(e)')
  PROVE Watch'
<1> USE DEF Dirs
<1>1. \A e \in Dirs \ {d} : HadTurn(e) => Waits(e)'
  BY DEF Watch
<1>2. CASE d = "DU" /\ st["UD"] # "done"
  <2>1. task' = "UD" /\ step' = Entry("UD")
    BY <1>2 DEF Yield
  <2>2. step' \in {"fill", "write", "shutdown"}
    BY <1>2, <2>1, EntrySuits DEF Typed
  <2> QED
    BY <1>2, <2>1, <2>2 DEF Watch, HadTurn, MidStep
<1>3. CASE ~(d = "DU" /\ st["UD"] # "done") /\ task' = "over"
  BY <1>3 DEF Watch, HadTurn
<1>4. CASE ~(d = "DU" /\ st["UD"] # "done") /\ task' # "over"
  <2>1. task' = "parked" /\ ~timer
    BY <1>4 DEF Yield, Rest
  <2>2. \A e \in Dirs \ {d} : Waits(e)'
    BY <1>1, <1>4 DEF HadTurn, Waits
  <2> QED
    BY <2>1, <2>2 DEF Watch, HadTurn
<1> QED
  BY <1>2, <1>3, <1>4

\* The task is woken before its first poll.
LEMMA WatchInit == Init => Watch
BY DEF Init, Watch, Dirs

\* An event that wakes nobody was not waited for.
LEMMA UnheardWake ==
  ASSUME NEW w, Wake(w), ~woken'
  PROVE ~woken /\ w \notin interest /\ interest' = interest
BY DEF Wake

\* Every step keeps the watch.
LEMMA WatchNext ==
  ASSUME Typed, Accounts, Watch, [Next]_vars
  PROVE Watch'
<1>1. CASE UNCHANGED vars
  BY <1>1 DEF vars, bufVars, peerVars, Watch, HadTurn, Waits, MidStep, AwaitsInput, AwaitsWriter,
              AwaitsShutdown, WriteStuck, DelayRuns, ReadIdle, Signalled
<1>2. CASE Poll
  <2>1. /\ task' = IF st["DU"] # "done" THEN "DU" ELSE "UD"
        /\ step' = Entry(task') /\ st[task'] # "done"
        /\ UNCHANGED <<gated, st>> /\ task = "parked"
    BY <1>2 DEF Poll, Typed, Turns, Dirs
  <2>2. ~gated' /\ step' \in {"fill", "write", "shutdown"}
    BY <2>1, EntrySuits DEF Watch, Typed, Dirs
  <2> QED
    BY <2>1, <2>2 DEF Watch, HadTurn, MidStep, Waits, Dirs
<1>3. CASE PollError
  <2>1. /\ task \in Dirs /\ UNCHANGED <<step, woken, st, bufVars, signal, timer, lag, peerVars>>
    BY <1>3 DEF PollError, Operating
  <2>2. CASE Trip
    BY <1>3, <2>2, <2>1 DEF PollError, Trip, Fail, Watch, HadTurn, Dirs
  <2>3. CASE LetThrough
    <3>1. /\ task' = task /\ interest \subseteq interest' /\ Signalled'
      BY <2>1, <2>3 DEF LetThrough, Signalled
    <3>2. \A e \in Dirs : Waits(e) => Waits(e)'
      BY <2>1, <3>1, WaitsOn DEF bufVars, peerVars
    <3>3. \A e \in Dirs : MidStep(e) => MidStep(e)'
      BY <2>1, <3>1 DEF MidStep, ReadIdle, WriteStuck, DelayRuns, bufVars, peerVars
    <3> QED
      BY <2>1, <3>1, <3>2, <3>3 DEF Watch, HadTurn, Dirs
  <2> QED
    BY <1>3, <2>2, <2>3 DEF PollError
<1>4. CASE OperationFails
  BY <1>4 DEF OperationFails, Fail, Watch, HadTurn, Dirs
<1>5. ASSUME NEW d \in Dirs, Copy(d) PROVE Watch'
  <2>0. task = d /\ UNCHANGED <<woken, signal, timer>> /\ task # "parked"
        /\ (gated' = FALSE \/ UNCHANGED <<gated, task>>)
    BY <1>5 DEF Copy, ReadBytes, ReadEof, ReadPending, Filling, IdleFlush, DelayPending,
                Write, WritePending, Drained, EndFlush, ShutdownWriter, Dirs
  <2>1. CASE woken
    BY <2>0, <2>1 DEF Watch
  <2>2. CASE ~woken
    <3>0. MidStep(d)
      BY <2>0, <2>2 DEF Watch
    \* An operation on the client's side has registered with the oneshot.
    <3>a. Through /\ OpSide = "down" => Signalled
      BY <3>0 DEF Through, MidStep
    <3>b. From[d] \in Sides /\ To[d] \in Sides
          /\ \A e \in Dirs \ {d} : From[e] # From[d] /\ To[e] # To[d]
      BY Ends
    <3> DEFINE Others == /\ interest \subseteq interest'
                         /\ \A e \in Dirs \ {d} :
                              /\ st'[e] = st[e] /\ pos'[e] = pos[e] /\ end'[e] = end[e]
                              /\ eof'[e] = eof[e]
                              /\ avail'[From[e]] = avail[From[e]] /\ fin'[From[e]] = fin[From[e]]
                              /\ room'[To[e]] = room[To[e]] /\ lag'[To[e]] = lag[To[e]]
    <3>c. Others => \A e \in Dirs \ {d} : Waits(e) => Waits(e)'
      BY <2>0, WaitsOn
    \* The direction goes on, ...
    <3>d. ASSUME Others, task' = d, gated' = FALSE, MidStep(d)'
          PROVE Watch'
      <4>1. \A e \in Dirs \ {d} : HadTurn(e) => Waits(e)'
        BY <2>2, <3>c, <3>d DEF Watch
      <4> QED
        BY <2>0, <3>d, <4>1 DEF Watch, HadTurn, Dirs
    \* ... or yields.
    <3>e. ASSUME Others, Yield(d, st'), gated' = FALSE, Waits(d)'
          PROVE Watch'
      BY <2>0, <2>2, <3>c, <3>e, YieldWatches
    <3>1. CASE ReadBytes(d)
      <4>1. Others /\ gated' = FALSE /\ st' = st
        BY <3>1, <3>b DEF ReadBytes, Typed, TypeOK
      <4>2. CASE step = "fill"
        BY <2>0, <3>1, <3>d, <4>1, <4>2 DEF ReadBytes, MidStep
      <4>3. CASE step # "fill"
        <5>1. step = "topup" /\ Yield(d, st) /\ Through
          BY <3>1, <4>3 DEF ReadBytes, Filling
        <5>2. WriteStuck(d) /\ Signalled
          BY <2>0, <3>0, <3>a, <5>1, Ends DEF MidStep, OpSide, Dirs
        <5>3. WriteStuck(d)' /\ Signalled'
          BY <2>0, <3>1, <5>2 DEF ReadBytes, WriteStuck, DelayRuns, Signalled
        <5>4. pos'[d] < end'[d]
          <6>1. pos[d] < end[d] /\ pos' = pos
            BY <2>0, <3>1, <5>1 DEF ReadBytes, Typed, Turns, AtStep
          <6>2. PICK n \in Space(d) : end' = [end EXCEPT ![d] = @ + n]
            BY <3>1 DEF ReadBytes
          <6> QED
            BY <6>1, <6>2, RelayAssumption DEF Space, Typed, TypeOK
        <5>5. Waits(d)'
          BY <2>0, <4>1, <5>1, <5>3, <5>4 DEF Waits, AwaitsWriter, Typed, Turns, AtStep
        <5> QED
          BY <3>e, <4>1, <5>1, <5>5
      <4> QED
        BY <4>2, <4>3
    <3>2. CASE ReadEof(d)
      <4>1. Others /\ gated' = FALSE /\ st' = st
        BY <3>2, <3>b DEF ReadEof, peerVars, Typed, TypeOK
      <4>2. CASE step = "fill"
        BY <2>0, <3>2, <3>d, <4>1, <4>2 DEF ReadEof, MidStep
      <4>3. CASE step # "fill"
        <5>1. step = "topup" /\ Yield(d, st) /\ Through
          BY <3>2, <4>3 DEF ReadEof, Filling
        <5>2. WriteStuck(d) /\ Signalled
          BY <2>0, <3>0, <3>a, <5>1, Ends DEF MidStep, OpSide, Dirs
        <5>3. WriteStuck(d)' /\ Signalled'
          BY <2>0, <3>2, <5>2 DEF ReadEof, WriteStuck, DelayRuns, Signalled, peerVars
        <5>4. pos'[d] < end'[d]
          BY <2>0, <3>2, <5>1 DEF ReadEof, Typed, Turns, AtStep
        <5>5. Waits(d)'
          BY <2>0, <4>1, <5>1, <5>3, <5>4 DEF Waits, AwaitsWriter, Typed, Turns, AtStep
        <5> QED
          BY <3>e, <4>1, <5>1, <5>5
      <4> QED
        BY <4>2, <4>3
    <3>3. CASE ReadPending(d)
      <4>1. Others /\ gated' = FALSE /\ st' = st /\ Through
        BY <3>3, <3>b DEF ReadPending, Filling, bufVars, peerVars
      <4>2. ReadIdle(d)' /\ OpSide = From[d]
        BY <2>0, <3>3 DEF ReadPending, Filling, ReadIdle, peerVars, OpSide
      <4>3. d = "DU" => Signalled'
        BY <2>0, <3>3, <3>a, <4>1, <4>2, Ends DEF Signalled
      <4>4. CASE step' = "write" /\ UNCHANGED task
        BY <2>0, <3>d, <4>1, <4>4 DEF MidStep
      <4>5. CASE step' = "idleflush" /\ UNCHANGED task
        BY <2>0, <3>d, <4>1, <4>2, <4>3, <4>5 DEF MidStep
      <4>6. CASE Yield(d, st) /\ step = "topup"
        <5>1. WriteStuck(d) /\ (d = "UD" => Signalled)
          BY <3>0, <4>6 DEF MidStep
        <5>2. WriteStuck(d)' /\ Signalled'
          BY <2>0, <3>3, <4>1, <4>3, <5>1 DEF ReadPending, WriteStuck, DelayRuns, Signalled, peerVars, Dirs
        <5>3. pos'[d] < end'[d] /\ st'[d] = "running"
          BY <2>0, <3>3, <4>6 DEF ReadPending, bufVars, Typed, Turns, AtStep
        <5>4. Waits(d)'
          BY <5>2, <5>3 DEF Waits, AwaitsWriter
        <5> QED
          BY <3>e, <4>1, <4>6, <5>4
      <4>7. CASE Yield(d, st) /\ step = "fill" /\ pos[d] = end[d]
        <5>1. pos'[d] = end'[d] /\ st'[d] = "running" /\ ~eof'[d]
          BY <2>0, <3>3, <4>7 DEF ReadPending, bufVars, Typed, Turns, AtStep
        <5>2. Waits(d)'
          BY <4>2, <4>3, <5>1 DEF Waits, AwaitsInput
        <5> QED
          BY <3>e, <4>1, <4>7, <5>2
      <4> QED
        BY <3>3, <4>4, <4>5, <4>6, <4>7 DEF ReadPending, Filling
    <3>4. CASE IdleFlush(d)
      <4>1. Others /\ gated' = FALSE /\ st' = st /\ Yield(d, st) /\ step = "idleflush"
        BY <3>4, <3>b DEF IdleFlush, peerVars
      <4>2. ReadIdle(d)' /\ (d = "DU" => Signalled')
        BY <2>0, <3>0, <3>4, <4>1 DEF IdleFlush, MidStep, ReadIdle, Signalled, peerVars
      <4>3. pos'[d] = end'[d] /\ st'[d] = "running" /\ ~eof'[d]
        BY <2>0, <3>4, <4>1 DEF IdleFlush, Typed, Turns, AtStep
      <4>4. Waits(d)'
        BY <4>2, <4>3 DEF Waits, AwaitsInput
      <4> QED
        BY <3>e, <4>1, <4>4
    \* A write that is pending has registered with what holds it up.
    <3>f. ASSUME Others, Through, step = "write", Blocked(d), WriteStuck(d)', gated' = FALSE,
                 UNCHANGED <<st, bufVars>>
          PROVE Watch'
      <4>1. d = "UD" => Signalled'
        BY <2>0, <3>a, <3>f, Ends DEF OpSide, Signalled
      <4>2. CASE ~eof[d] /\ end[d] < Cap
        BY <2>0, <3>d, <3>f, <4>1, <4>2 DEF Blocked, MidStep
      <4>3. CASE ~(~eof[d] /\ end[d] < Cap)
        <5>1. Yield(d, st)
          BY <3>f, <4>3 DEF Blocked
        <5>2. pos'[d] < end'[d] /\ st'[d] = "running"
          BY <2>0, <3>f DEF Through, Operating, bufVars, Typed, Turns, AtStep
        <5>3. Waits(d)'
          BY <3>f, <4>1, <4>3, <5>2 DEF Waits, AwaitsWriter, bufVars
        <5> QED
          BY <3>e, <3>f, <5>1, <5>3
      <4> QED
        BY <4>2, <4>3
    <3>5. CASE DelayPending(d)
      <4>1. Others /\ gated' = FALSE /\ UNCHANGED <<st, bufVars>> /\ Blocked(d) /\ Through
        BY <3>5, <3>b DEF DelayPending, bufVars, peerVars, Typed, TypeOK
      <4>2. DelayRuns(d)'
        BY <3>5, <3>b DEF DelayPending, DelayRuns, Typed, TypeOK
      <4>3. CASE step = "write"
        BY <3>f, <4>1, <4>2, <4>3 DEF WriteStuck
      <4>4. CASE step = "shutdown"
        <5>1. Yield(d, st)
          BY <4>1, <4>4 DEF Blocked
        <5>2. d = "UD" => Signalled'
          BY <2>0, <3>a, <4>1, <4>4, Ends DEF OpSide, Signalled
        <5>3. Waits(d)'
          BY <2>0, <4>1, <4>2, <4>4, <5>2 DEF Waits, AwaitsShutdown, Typed, Turns, AtStep
        <5> QED
          BY <3>e, <4>1, <5>1, <5>3
      <4> QED
        BY <3>5, <4>3, <4>4 DEF DelayPending
    <3>6. CASE Write(d)
      <4>1. Others /\ gated' = FALSE /\ task' = d /\ step' = "write"
        BY <2>0, <3>6, <3>b DEF Write, DelayPassed, Typed, TypeOK
      <4> QED
        BY <3>d, <4>1 DEF MidStep
    <3>7. CASE WritePending(d)
      <4>1. Others /\ gated' = FALSE /\ UNCHANGED <<st, bufVars>> /\ Blocked(d) /\ Through /\ step = "write"
        BY <3>7, <3>b DEF WritePending, DelayPassed, bufVars, peerVars, Typed, TypeOK
      <4>2. WriteStuck(d)'
        BY <3>7 DEF WritePending, WriteStuck, peerVars
      <4> QED
        BY <3>f, <4>1, <4>2
    <3>8. CASE Drained(d)
      <4>1. Others /\ task' = d /\ step' \in {"endflush", "fill"} /\ gated' = gated
        BY <2>0, <3>8, <3>b DEF Drained, Rewind, peerVars, Typed, TypeOK
      <4>2. \A e \in Dirs \ {d} : HadTurn(e) => Waits(e)'
        BY <2>2, <3>c, <4>1 DEF Watch
      <4>3. MidStep(d)'
        BY <2>0, <3>0, <3>8, <4>1 DEF Drained, MidStep, Signalled
      <4> QED
        BY <2>0, <4>1, <4>2, <4>3 DEF Watch, HadTurn, Dirs
    <3>9. CASE EndFlush(d)
      <4>1. Others /\ gated' = FALSE /\ task' = d /\ step' = "shutdown"
        BY <2>0, <3>9, <3>b DEF EndFlush, bufVars, peerVars, Typed, TypeOK
      <4> QED
        BY <3>d, <4>1 DEF MidStep
    <3>10. CASE ShutdownWriter(d)
      <4>1. Others /\ gated' = FALSE /\ Yield(d, st') /\ st'[d] = "done"
        BY <3>10, <3>b DEF ShutdownWriter, DelayPassed, bufVars, peerVars, Typed, TypeOK
      <4> QED
        BY <3>e, <4>1 DEF Waits
    <3> QED
      BY <1>5, <3>1, <3>2, <3>3, <3>4, <3>5, <3>6, <3>7, <3>8, <3>9, <3>10 DEF Copy
  <2> QED
    BY <2>1, <2>2
\* Somebody else acts: nobody is woken only if nothing that was waited for changes.
<1>a. ASSUME UNCHANGED <<task, step, gated, timer>>, woken' PROVE Watch'
  BY <1>a DEF Watch
<1>b. ASSUME UNCHANGED <<task, step, gated, timer>>, ~woken,
             \A e \in Dirs : Waits(e) => Waits(e)',
             \A e \in Dirs : MidStep(e) => MidStep(e)'
      PROVE Watch'
  BY <1>b DEF Watch, HadTurn
<1>6. ASSUME NEW s \in Sides, PeerSends(s) \/ PeerCloses(s) PROVE Watch'
  <2>1. /\ UNCHANGED <<task, step, gated, timer, st, bufVars, signal, lag, room>> /\ Wake(Readable[s])
    BY <1>6 DEF PeerSends, PeerCloses
  <2>2. \A r \in Sides \ {s} : avail'[r] = avail[r] /\ fin'[r] = fin[r]
    BY <1>6 DEF PeerSends, PeerCloses, Typed, TypeOK
  <2>3. CASE ~woken'
    <3>1. ~woken /\ Readable[s] \notin interest /\ interest' = interest
      BY <2>1, <2>3, UnheardWake
    <3>2. \A e \in Dirs : ReadIdle(e) => ReadIdle(e)'
      BY <2>2, <3>1, Ends DEF ReadIdle
    <3>3. Signalled' = Signalled /\ \A e \in Dirs : WriteStuck(e)' = WriteStuck(e) /\ DelayRuns(e)' = DelayRuns(e)
      BY <2>1, <3>1 DEF Signalled, WriteStuck, DelayRuns
    <3>4. \A e \in Dirs : Waits(e) => Waits(e)'
      BY <2>1, <3>2, <3>3 DEF Waits, AwaitsInput, AwaitsWriter, AwaitsShutdown, bufVars
    <3>5. \A e \in Dirs : MidStep(e) => MidStep(e)'
      BY <2>1, <3>2, <3>3 DEF MidStep
    <3> QED
      BY <1>b, <2>1, <3>1, <3>4, <3>5
  <2> QED
    BY <1>a, <2>1, <2>3
<1>7. ASSUME NEW s \in Sides, PeerReads(s) \/ DelayElapses(s) PROVE Watch'
  <2>1. /\ UNCHANGED <<task, step, gated, timer, st, bufVars, signal, avail, fin>>
        /\ Wake(Writable[s]) \/ Wake(Delayed[s])
    BY <1>7 DEF PeerReads, DelayElapses, peerVars
  <2>2. CASE ~woken'
    <3>1. ~woken /\ interest' = interest
      BY <2>1, <2>2, UnheardWake
    <3>2. \A e \in Dirs : (WriteStuck(e) => WriteStuck(e)') /\ (DelayRuns(e) => DelayRuns(e)')
      <4>1. CASE PeerReads(s)
        <5>1. Writable[s] \notin interest
          BY <2>2, <4>1, UnheardWake DEF PeerReads
        <5>2. lag' = lag /\ room' = [room EXCEPT ![s] = TRUE]
          BY <4>1 DEF PeerReads
        <5> QED
          BY <3>1, <5>1, <5>2, Ends DEF WriteStuck, DelayRuns, Typed, TypeOK
      <4>2. CASE DelayElapses(s)
        <5>1. Delayed[s] \notin interest
          BY <2>2, <4>2, UnheardWake DEF DelayElapses
        <5>2. room' = room /\ lag' = [lag EXCEPT ![s] = "elapsed"]
          BY <4>2 DEF DelayElapses, peerVars
        <5> QED
          BY <3>1, <5>1, <5>2, Ends DEF WriteStuck, DelayRuns, Typed, TypeOK
      <4> QED
        BY <1>7, <4>1, <4>2
    <3>3. Signalled' = Signalled /\ \A e \in Dirs : ReadIdle(e)' = ReadIdle(e)
      BY <2>1, <3>1 DEF Signalled, ReadIdle
    <3>4. \A e \in Dirs : Waits(e) => Waits(e)'
      BY <2>1, <3>2, <3>3 DEF Waits, AwaitsInput, AwaitsWriter, AwaitsShutdown, bufVars
    <3>5. \A e \in Dirs : MidStep(e) => MidStep(e)'
      BY <2>1, <3>2, <3>3 DEF MidStep
    <3> QED
      BY <1>b, <2>1, <3>1, <3>4, <3>5
  <2> QED
    BY <1>a, <2>1, <2>2
<1>8. CASE Kill
  <2>1. /\ UNCHANGED <<task, step, gated, timer, st, bufVars, lag, peerVars>> /\ Wake("signal")
    BY <1>8 DEF Kill
  <2>2. CASE ~woken'
    <3>1. ~woken /\ ~Signalled /\ interest' = interest
      BY <2>1, <2>2, UnheardWake DEF Signalled
    <3>2. \A e \in Dirs : /\ ReadIdle(e)' = ReadIdle(e) /\ WriteStuck(e)' = WriteStuck(e)
                          /\ DelayRuns(e)' = DelayRuns(e)
      BY <2>1, <3>1 DEF ReadIdle, WriteStuck, DelayRuns, peerVars
    <3>3. \A e \in Dirs : Waits(e) => Waits(e)'
      BY <2>1, <3>1, <3>2 DEF Waits, AwaitsInput, AwaitsWriter, AwaitsShutdown, bufVars
    <3>4. \A e \in Dirs : MidStep(e) => MidStep(e)'
      BY <2>1, <3>1, <3>2 DEF MidStep
    <3> QED
      BY <1>b, <2>1, <3>1, <3>3, <3>4
  <2> QED
    BY <1>a, <2>1, <2>2
<1>9. CASE TimerFires
  BY <1>9 DEF TimerFires, Watch
<1> QED
  BY <1>1, <1>2, <1>3, <1>4, <1>5, <1>6, <1>7, <1>8, <1>9 DEF Next, TaskStep, Over

\* No wake-up is lost: a task that sleeps can do nothing, and a killed one that
\* sleeps waits for its upstream alone.
THEOREM SleepersAreStuck == Spec => []QuietMeansStuck
<1>1. Typed /\ Accounts /\ OutcomeJustified /\ Watch /\ [Next]_vars
        => Accounts' /\ OutcomeJustified' /\ Watch'
  BY AccountsNext, WatchNext
<1>2. ASSUME Typed, Watch PROVE QuietMeansStuck
  <2> SUFFICES ASSUME task = "parked", ~woken
               PROVE /\ \A d \in Dirs : st[d] = "running" =>
                          IF pos[d] = end[d] THEN avail[From[d]] = 0 /\ ~fin[From[d]]
                                             ELSE ~room[To[d]] \/ lag[To[d]] = "running"
                     /\ \A d \in Dirs : st[d] = "shutting" => lag[To[d]] = "running"
                     /\ signal = "sent" => ~WouldTouchDownstream
                     /\ ~timer
    BY DEF QuietMeansStuck
  <2>1. \A d \in Dirs : Waits(d)
    BY <1>2 DEF Watch, HadTurn
  <2>2. ASSUME NEW d \in Dirs, st[d] = "running"
        PROVE IF pos[d] = end[d] THEN avail[From[d]] = 0 /\ ~fin[From[d]]
                                 ELSE ~room[To[d]] \/ lag[To[d]] = "running"
    <3>1. AwaitsInput(d) \/ (pos[d] # end[d] /\ AwaitsWriter(d))
      BY <1>2, <2>1, <2>2, RelayAssumption DEF Waits, AwaitsWriter, Typed, TypeOK
    <3> QED
      BY <3>1 DEF AwaitsInput, AwaitsWriter, ReadIdle, WriteStuck, DelayRuns
  <2>3. \A d \in Dirs : st[d] = "shutting" => lag[To[d]] = "running"
    BY <2>1 DEF Waits, AwaitsShutdown, DelayRuns
  <2>4. ASSUME signal = "sent" PROVE ~WouldTouchDownstream
    <3>1. ~Signalled /\ Waits("DU") /\ Waits("UD")
      BY <2>1, <2>4 DEF Signalled, Dirs
    <3>2. ~(st["DU"] = "running" /\ ~eof["DU"] /\ end["DU"] < Cap)
      BY <3>1 DEF Waits, AwaitsInput, AwaitsWriter
    <3>3. st["UD"] # "shutting"
      BY <3>1 DEF Waits, AwaitsShutdown
    <3>4. ASSUME st["UD"] = "running"
          PROVE ~(pos["UD"] < end["UD"] \/ avail["up"] > 0 \/ fin["up"])
      <4>1. pos["UD"] = end["UD"] /\ ReadIdle("UD")
        BY <3>1, <3>4 DEF Waits, AwaitsInput, AwaitsWriter
      <4>2. avail["up"] = 0 /\ ~fin["up"]
        BY <4>1, Ends DEF ReadIdle
      <4> QED
        BY <1>2, <4>1, <4>2, RelayAssumption DEF Typed, TypeOK, Dirs
    <3> QED
      BY <3>2, <3>3, <3>4 DEF WouldTouchDownstream
  <2>5. ~timer
    BY <1>2 DEF Watch
  <2> QED
    BY <2>2, <2>3, <2>4, <2>5
<1> QED
  BY <1>1, <1>2, AccountsInit, WatchInit, TypedAlways, PTL DEF Spec

-----------------------------------------------------------------------------
(* What a kill leaves to the client's side.                                 *)

\* A step after a kill lets nothing more through, and a step on the client's
\* side uses up what was let through, or ends the copy with the reason.
CutOff ==
  /\ gated' => gated
  /\ ClientStep => outcome' = "reason" \/ (gated /\ ~gated')

\* Every step of a copy, and every step of the others, is cut off by a kill.
LEMMA StepsAreCutOff == ASSUME Typed, Accounts, signal = "sent", [Next]_vars PROVE CutOff
<1> USE DEF CutOff
<1>1. ASSUME UNCHANGED <<task, step, gated, outcome, st, bufVars>> PROVE CutOff
  BY <1>1 DEF ClientStep
<1>2. CASE Poll
  <2>1. ~Operating
    BY <1>2 DEF Poll, Operating, Dirs
  <2> QED
    BY <1>2, <2>1 DEF Poll, ClientStep
<1>3. CASE PollError
  <2>1. ~LetThrough
    BY DEF LetThrough
  <2>2. rx = "waiting"
    BY <1>3 DEF PollError, Operating, Dirs, Accounts, Typed, TypeOK
  <2> QED
    BY <1>3, <2>1, <2>2 DEF PollError, Trip, Fail
<1>4. ASSUME NEW d \in Dirs, Drained(d) PROVE CutOff
  <2>1. pos[task] = end[task] /\ end[task] \in Nat /\ step = "write" /\ gated' = gated
    BY <1>4 DEF Drained, Typed, TypeOK
  <2>2. ~Operating
    BY <2>1 DEF Operating
  <2> QED
    BY <2>1, <2>2 DEF ClientStep
<1>5. ASSUME Through, gated' = FALSE PROVE CutOff
  BY <1>5 DEF Through, ClientStep
<1>6. CASE OperationFails
  BY <1>5, <1>6 DEF OperationFails
<1>7. ASSUME NEW d \in Dirs,
             \/ ReadBytes(d) \/ ReadEof(d) \/ ReadPending(d) \/ IdleFlush(d) \/ DelayPending(d)
             \/ Write(d) \/ WritePending(d) \/ EndFlush(d) \/ ShutdownWriter(d)
      PROVE CutOff
  <2>1. Through /\ gated' = FALSE
    BY <1>7 DEF ReadBytes, ReadEof, ReadPending, IdleFlush, DelayPending, Write, WritePending,
                EndFlush, ShutdownWriter, Filling
  <2> QED
    BY <1>5, <2>1
<1>8. CASE TaskStep
  BY <1>2, <1>3, <1>4, <1>6, <1>7, <1>8 DEF TaskStep, Copy
<1>9. ASSUME NEW s \in Sides, PeerSends(s) \/ PeerCloses(s) \/ PeerReads(s) \/ DelayElapses(s)
      PROVE CutOff
  BY <1>1, <1>9 DEF PeerSends, PeerCloses, PeerReads, DelayElapses
<1>10. CASE Kill \/ TimerFires \/ Over \/ UNCHANGED vars
  BY <1>1, <1>10 DEF Kill, TimerFires, Over, vars
<1> QED
  BY <1>8, <1>9, <1>10 DEF Next

\* After a kill one more operation at most reaches the client's socket or fails
\* there with an error of its own.
THEOREM KillsCutOff == Spec => KillCutsOff
<1>1. Typed /\ Accounts /\ [Next]_vars =>
        [signal = "sent" =>
           /\ gated' => gated
           /\ ClientStep => outcome' = "reason" \/ (gated /\ ~gated')]_vars
  BY StepsAreCutOff DEF CutOff
<1> QED
  BY <1>1, TypedAlways, AccountsAlways, PTL DEF Spec, KillCutsOff
=============================================================================
