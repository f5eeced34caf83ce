-------------------------------- MODULE Relay -------------------------------
(***************************************************************************)
(* One proxied connection of trixter: the task that runs                   *)
(*    timeout(d, copy_bidirectional(&mut downstream, &mut upstream))       *)
(* where downstream is wrapped in a Shutdowner and both sides in a         *)
(* Terminator, between two peers, the API and the timer.                   *)
(*                                                                         *)
(* A step is one poll of one layer; another thread may act between any two *)
(* of them.  What a task awaits is the set of wake-ups it has registered.  *)
(* copy_bidirectional and the oneshot are tokio's and modelled as the code *)
(* under src/ uses them; bytes are counted, not told apart.                *)
(*                                                                         *)
(* Bounds: a copy buffer of Cap bytes, MaxSent[s] bytes sent by peer s.     *)
(***************************************************************************)
EXTENDS Naturals, FiniteSets

CONSTANTS
  Cap,           \* size of each direction's copy buffer
  MaxSent,       \* MaxSent[s]: bytes peer s sends in a run
  Timed,         \* whether connection_duration_ms > 0: the settings of a run
  CanDelay,      \* the delay of writes and shutdowns may be above zero
  CanTerminate   \* the termination probability is not zero

Sides == {"down", "up"}

ASSUME RelayAssumption ==
  /\ Cap \in Nat \ {0} /\ MaxSent \in [Sides -> Nat]
  /\ Timed \subseteq BOOLEAN /\ {CanDelay, CanTerminate} \subseteq BOOLEAN

Dirs == {"DU", "UD"}
From == [d \in Dirs |-> IF d = "DU" THEN "down" ELSE "up"]
To == [d \in Dirs |-> IF d = "DU" THEN "up" ELSE "down"]

VARIABLES
  task,      \* the direction being polled, or "parked", or "over"
  step,      \* what that direction does next
  gated,     \* the Shutdowner let the current operation through
  woken,     \* the task was notified since its last poll began
  interest,  \* wake-ups registered
  outcome,   \* how the future resolved
  st,        \* st[d]: TransferState of direction d
  pos, end,  \* pos[d], end[d]: the bytes pos..end of its buffer are unwritten
  eof,       \* eof[d]: read_done
  unflushed, \* unflushed[d]: need_flush
  rx,        \* the Shutdowner's receiver: "waiting", or "none" once tripped
  signal,    \* the oneshot: "open", or "sent" by the API
  timed,     \* the connection was given a duration
  timer,     \* the duration has elapsed
  sent,      \* sent[s]: bytes peer s has sent in total
  avail,     \* avail[s]: of these, unread by the proxy
  fin,       \* fin[s]: peer s has closed its sending half
  room,      \* room[s]: the socket towards s accepts bytes now
  lag        \* lag[s]: the timer of the DelayedWriter towards s

bufVars == <<pos, end, eof, unflushed>>
peerVars == <<sent, avail, fin, room>>
vars == <<task, step, gated, woken, interest, outcome, st, bufVars, rx, signal, timed, timer, lag, peerVars>>

Wakes == {"down.read", "up.read", "down.write", "up.write", "down.lag", "up.lag", "signal"}
Readable == [s \in Sides |-> IF s = "down" THEN "down.read" ELSE "up.read"]
Delayed == [s \in Sides |-> IF s = "down" THEN "down.lag" ELSE "up.lag"]
Writable == [s \in Sides |-> IF s = "down" THEN "down.write" ELSE "up.write"]

TypeOK ==
  /\ task \in Dirs \cup {"parked", "over"}
  /\ step \in {"fill", "write", "topup", "idleflush", "endflush", "shutdown"}
  /\ gated \in BOOLEAN /\ woken \in BOOLEAN /\ timer \in BOOLEAN /\ timed \in Timed
  /\ interest \subseteq Wakes
  /\ outcome \in {"none", "ok", "io", "terminated", "reason", "sentinel", "timeout"}
  /\ st \in [Dirs -> {"running", "shutting", "done"}]
  /\ end \in [Dirs -> 0..Cap] /\ pos \in [Dirs -> 0..Cap]
  /\ \A d \in Dirs : pos[d] <= end[d]
  /\ eof \in [Dirs -> BOOLEAN] /\ unflushed \in [Dirs -> BOOLEAN]
  /\ rx \in {"waiting", "none"} /\ signal \in {"open", "sent"}
  /\ sent \in [Sides -> Nat] /\ avail \in [Sides -> Nat]
  /\ \A s \in Sides : sent[s] <= MaxSent[s] /\ avail[s] <= sent[s]
  /\ fin \in [Sides -> BOOLEAN] /\ room \in [Sides -> BOOLEAN]
  /\ lag \in [Sides -> {"idle", "running", "elapsed"}]

Init ==
  /\ task = "parked" /\ step = "fill" /\ gated = FALSE /\ woken = TRUE
  /\ interest = {} /\ outcome = "none"
  /\ st = [d \in Dirs |-> "running"]
  /\ pos = [d \in Dirs |-> 0] /\ end = [d \in Dirs |-> 0]
  /\ eof = [d \in Dirs |-> FALSE] /\ unflushed = [d \in Dirs |-> FALSE]
  /\ rx = "waiting" /\ signal = "open"
  /\ timed \in Timed /\ timer = FALSE
  /\ sent = [s \in Sides |-> 0] /\ avail = [s \in Sides |-> 0]
  /\ lag = [s \in Sides |-> "idle"]
  /\ fin = [s \in Sides |-> FALSE] /\ room \in [Sides -> BOOLEAN]

-----------------------------------------------------------------------------
(* The future as a whole.                                                  *)

\* Where a poll of direction d begins.
Entry(d) ==
  CASE st[d] = "shutting" -> "shutdown"
    [] st[d] = "running" /\ ~eof[d] /\ end[d] < Cap -> "fill"
    [] st[d] = "running" /\ (eof[d] \/ end[d] = Cap) -> "write"

\* The runtime polls the woken task: direction DU first, if it is not done.
Poll ==
  /\ task = "parked" /\ woken
  /\ woken' = FALSE
  /\ task' = IF st["DU"] # "done" THEN "DU" ELSE "UD"
  /\ step' = Entry(task')
  /\ UNCHANGED <<gated, interest, outcome, st, bufVars, rx, signal, timed, timer, lag, peerVars>>

\* Mutant: a pending copy is waited for, whatever the timer says.
RestForever == task' = "parked" /\ UNCHANGED <<outcome, step>>

\* timeout polls the copy first: only a pending copy looks at the timer.
Rest ==
  IF timer THEN task' = "over" /\ outcome' = "timeout" /\ step' = step
           ELSE task' = "parked" /\ UNCHANGED <<outcome, step>>

\* Direction d yields, leaving the transfer states st2; DU is followed by UD.
Yield(d, st2) ==
  IF d = "DU" /\ st["UD"] # "done"
    THEN task' = "UD" /\ step' = Entry("UD") /\ UNCHANGED outcome
    ELSE IF \A e \in Dirs : st2[e] = "done"
      THEN task' = "over" /\ outcome' = "ok" /\ step' = step
      ELSE Rest

Fail(error) == task' = "over" /\ outcome' = error

-----------------------------------------------------------------------------
(* The layers every operation passes on its way to the socket.             *)

\* The side that the operation in progress is made on.
OpSide == IF step \in {"fill", "topup"} THEN From[task] ELSE To[task]

\* Whether the operation in progress polls a stream at all: a write loop with
\* nothing to write does not.
Operating == task \in Dirs /\ (step = "write" => pos[task] < end[task])

\* Mutant: the error that was sent is thrown away.
TripWithoutReason ==
  /\ rx = "waiting" /\ signal = "sent"
  /\ Fail("sentinel") /\ rx' = "none"
  /\ UNCHANGED <<gated, interest>>

\* The oneshot resolved: take the receiver, fail with the error it carried; if
\* an earlier operation took it, fail with the generic one.
Trip ==
  /\ rx = "waiting" => signal = "sent"
  /\ Fail(IF rx = "waiting" THEN "reason" ELSE "sentinel") /\ rx' = "none"
  /\ UNCHANGED <<gated, interest>>

\* Mutant: the channel is tested (try_recv) instead of polled.
LetThroughUnwatched ==
  /\ rx = "waiting" /\ signal = "open"
  /\ gated' = TRUE
  /\ UNCHANGED <<task, outcome, rx, interest>>

\* Mutant: what was sent is looked at only from the next poll of the task on.
LetThroughUntilPolled ==
  /\ rx = "waiting" /\ (signal = "open" \/ woken)
  /\ gated' = TRUE /\ interest' = interest \cup {"signal"}
  /\ UNCHANGED <<task, outcome, rx>>

\* Nothing sent yet: polling the oneshot registered the task with it.
LetThrough ==
  /\ rx = "waiting" /\ signal = "open"
  /\ gated' = TRUE /\ interest' = interest \cup {"signal"}
  /\ UNCHANGED <<task, outcome, rx>>

\* Shutdowner::poll_error, in front of every operation on downstream.
PollError ==
  /\ Operating /\ OpSide = "down" /\ ~gated
  /\ Trip \/ LetThrough
  /\ UNCHANGED <<step, woken, st, bufVars, signal, timed, timer, lag, peerVars>>

Through == Operating /\ (OpSide = "down" => gated)

\* The Terminator's draw hits, or the socket operation itself fails.
OperationFails ==
  /\ Through
  /\ \/ CanTerminate /\ Fail("terminated")
     \/ Fail("io")
  /\ gated' = FALSE
  /\ UNCHANGED <<step, woken, interest, st, bufVars, rx, signal, timed, timer, lag, peerVars>>

-----------------------------------------------------------------------------
(* CopyBuffer::poll_copy for the direction d being polled.                 *)

\* How many bytes one read may add.
Space(d) == 1..(Cap - end[d])

\* poll_fill_buf, as the first thing of the loop or to top up a buffer that
\* could not be written.
Filling(d) == task = d /\ step \in {"fill", "topup"} /\ Through

ReadBytes(d) ==
  /\ Filling(d) /\ avail[From[d]] > 0
  /\ \E n \in Space(d) :
       /\ n <= avail[From[d]]
       /\ avail' = [avail EXCEPT ![From[d]] = @ - n]
       /\ end' = [end EXCEPT ![d] = @ + n]
  /\ IF step = "fill" THEN step' = "write" /\ UNCHANGED <<task, outcome>> ELSE Yield(d, st)
  /\ gated' = FALSE
  /\ UNCHANGED <<woken, interest, st, pos, eof, unflushed, rx, signal, timed, timer, lag, sent, fin, room>>

ReadEof(d) ==
  /\ Filling(d) /\ avail[From[d]] = 0 /\ fin[From[d]]
  /\ eof' = [eof EXCEPT ![d] = TRUE]
  /\ IF step = "fill" THEN step' = "write" /\ UNCHANGED <<task, outcome>> ELSE Yield(d, st)
  /\ gated' = FALSE
  /\ UNCHANGED <<woken, interest, st, pos, end, unflushed, rx, signal, timed, timer, lag, peerVars>>

\* Nothing to read: write what is buffered; with an empty buffer flush once,
\* then wait.
ReadPending(d) ==
  /\ Filling(d) /\ avail[From[d]] = 0 /\ ~fin[From[d]]
  /\ interest' = interest \cup {Readable[From[d]]}
  /\ \/ step = "fill" /\ pos[d] < end[d] /\ step' = "write" /\ UNCHANGED <<task, outcome>>
     \/ step = "fill" /\ pos[d] = end[d] /\ unflushed[d] /\ step' = "idleflush"
        /\ UNCHANGED <<task, outcome>>
     \/ (step = "topup" \/ (pos[d] = end[d] /\ ~unflushed[d])) /\ Yield(d, st)
  /\ gated' = FALSE
  /\ UNCHANGED <<woken, st, bufVars, rx, signal, timed, timer, lag, peerVars>>

IdleFlush(d) ==
  /\ task = d /\ step = "idleflush" /\ Through
  /\ unflushed' = [unflushed EXCEPT ![d] = FALSE]
  /\ Yield(d, st)
  /\ gated' = FALSE
  /\ UNCHANGED <<woken, interest, st, pos, end, eof, rx, signal, timed, timer, lag, peerVars>>

\* A write that is pending for any reason tops the buffer up first.
Blocked(d) ==
  IF step = "write" /\ ~eof[d] /\ end[d] < Cap
    THEN step' = "topup" /\ UNCHANGED <<task, outcome>>
    ELSE Yield(d, st)

\* DelayedWriter::poll_with_write_delay, in front of writes and shutdowns: it
\* arms its timer, or waits for it.
DelayPending(d) ==
  /\ task = d /\ step \in {"write", "shutdown"} /\ Through
  /\ lag[To[d]] = "running" \/ (lag[To[d]] = "idle" /\ CanDelay)
  /\ lag' = [lag EXCEPT ![To[d]] = "running"]
  /\ interest' = interest \cup {Delayed[To[d]]}
  /\ Blocked(d)
  /\ gated' = FALSE
  /\ UNCHANGED <<woken, st, bufVars, rx, signal, timed, timer, peerVars>>

\* The timer has run out, or the delay is zero at this moment; either way the
\* next operation starts with an idle timer, even if this one is refused.
DelayPassed(d) == lag[To[d]] # "running" /\ lag' = [lag EXCEPT ![To[d]] = "idle"]

Write(d) ==
  /\ task = d /\ step = "write" /\ Through
  /\ DelayPassed(d) /\ room[To[d]]
  /\ \E n \in 1..(end[d] - pos[d]) : pos' = [pos EXCEPT ![d] = @ + n]
  /\ \E more \in BOOLEAN : room' = [room EXCEPT ![To[d]] = more]
  /\ unflushed' = [unflushed EXCEPT ![d] = TRUE]
  /\ gated' = FALSE
  /\ UNCHANGED <<task, step, woken, interest, outcome, st, end, eof, rx, signal, timed, timer, sent, avail, fin>>

WritePending(d) ==
  /\ task = d /\ step = "write" /\ Through
  /\ DelayPassed(d) /\ ~room[To[d]]
  /\ interest' = interest \cup {Writable[To[d]]}
  /\ Blocked(d)
  /\ gated' = FALSE
  /\ UNCHANGED <<woken, st, bufVars, rx, signal, timed, timer, peerVars>>

\* Mutant: the end goes back to the start, the read position stays.
RewindEnd(d) == end' = [end EXCEPT ![d] = 0] /\ UNCHANGED pos

Rewind(d) == pos' = [pos EXCEPT ![d] = 0] /\ end' = [end EXCEPT ![d] = 0]

\* All written: the buffer starts over; after EOF flush and shut down.
Drained(d) ==
  /\ task = d /\ step = "write" /\ pos[d] = end[d]
  /\ Rewind(d)
  /\ step' = IF eof[d] THEN "endflush" ELSE "fill"
  /\ UNCHANGED <<task, gated, woken, interest, outcome, st, eof, unflushed, rx, signal, timed, timer, lag, peerVars>>

EndFlush(d) ==
  /\ task = d /\ step = "endflush" /\ Through
  /\ st' = [st EXCEPT ![d] = "shutting"] /\ step' = "shutdown"
  /\ gated' = FALSE
  /\ UNCHANGED <<task, woken, interest, outcome, bufVars, rx, signal, timed, timer, lag, peerVars>>

\* poll_shutdown of the writer: the peer sees EOF.
ShutdownWriter(d) ==
  /\ task = d /\ step = "shutdown" /\ Through
  /\ DelayPassed(d)
  /\ st' = [st EXCEPT ![d] = "done"]
  /\ Yield(d, st')
  /\ gated' = FALSE
  /\ UNCHANGED <<woken, interest, bufVars, rx, signal, timed, timer, peerVars>>

Copy(d) ==
  \/ ReadBytes(d) \/ ReadEof(d) \/ ReadPending(d) \/ IdleFlush(d)
  \/ DelayPending(d) \/ Write(d) \/ WritePending(d) \/ Drained(d) \/ EndFlush(d) \/ ShutdownWriter(d)

-----------------------------------------------------------------------------
(* Everybody else.  An event wakes the task if it registered for it.       *)

Wake(w) ==
  /\ woken' = (woken \/ w \in interest)
  /\ interest' = interest \ {w}

PeerSends(s) ==
  /\ task # "over" /\ sent[s] < MaxSent[s] /\ ~fin[s]
  /\ sent' = [sent EXCEPT ![s] = @ + 1] /\ avail' = [avail EXCEPT ![s] = @ + 1]
  /\ Wake(Readable[s])
  /\ UNCHANGED <<task, step, gated, outcome, st, bufVars, rx, signal, timed, timer, lag, fin, room>>

PeerCloses(s) ==
  /\ task # "over" /\ ~fin[s]
  /\ fin' = [fin EXCEPT ![s] = TRUE]
  /\ Wake(Readable[s])
  /\ UNCHANGED <<task, step, gated, outcome, st, bufVars, rx, signal, timed, timer, lag, sent, avail, room>>

PeerReads(s) ==
  /\ task # "over" /\ ~room[s]
  /\ room' = [room EXCEPT ![s] = TRUE]
  /\ Wake(Writable[s])
  /\ UNCHANGED <<task, step, gated, outcome, st, bufVars, rx, signal, timed, timer, lag, sent, avail, fin>>

\* shutdown_connection: tx.send(reason).
Kill ==
  /\ task # "over" /\ signal = "open"
  /\ signal' = "sent"
  /\ Wake("signal")
  /\ UNCHANGED <<task, step, gated, outcome, st, bufVars, rx, timed, timer, lag, peerVars>>

TimerFires ==
  /\ task # "over" /\ timed /\ ~timer
  /\ timer' = TRUE /\ woken' = TRUE
  /\ UNCHANGED <<task, step, gated, interest, outcome, st, bufVars, rx, signal, timed, lag, peerVars>>

DelayElapses(s) ==
  /\ task # "over" /\ lag[s] = "running"
  /\ lag' = [lag EXCEPT ![s] = "elapsed"]
  /\ Wake(Delayed[s])
  /\ UNCHANGED <<task, step, gated, outcome, st, bufVars, rx, signal, timed, timer, peerVars>>

Over == task = "over" /\ UNCHANGED vars

\* The steps of the connection's own task.
TaskStep == Poll \/ PollError \/ OperationFails \/ \E d \in Dirs : Copy(d)

Next ==
  \/ TaskStep
  \/ \E s \in Sides : PeerSends(s) \/ PeerCloses(s) \/ PeerReads(s) \/ DelayElapses(s)
  \/ Kill \/ TimerFires \/ Over

\* The runtime polls a woken task, a poll runs to its end, timers fire.
\* Nothing is assumed of the peers or of the API.
Spec ==
  /\ Init /\ [][Next]_vars
  /\ WF_vars(TaskStep) /\ WF_vars(TimerFires)
  /\ \A s \in Sides : WF_vars(DelayElapses(s))

-----------------------------------------------------------------------------

\* No wake-up is lost: a task that sleeps without a pending notification has
\* nothing it could do, and if it was killed it is waiting for the upstream
\* alone.  (Registration happens before the Pending that relies on it, in the
\* Shutdowner as in tokio's sockets, with other threads acting in between.)
WouldTouchDownstream ==
  \/ st["DU"] = "running" /\ ~eof["DU"] /\ end["DU"] < Cap
  \/ /\ st["UD"] = "running"
     /\ pos["UD"] < end["UD"] \/ avail["up"] > 0 \/ fin["up"]
  \/ st["UD"] = "shutting"

QuietMeansStuck ==
  task = "parked" /\ ~woken =>
    /\ \A d \in Dirs : st[d] = "running" =>
         IF pos[d] = end[d] THEN avail[From[d]] = 0 /\ ~fin[From[d]] ELSE ~room[To[d]] \/ lag[To[d]] = "running"
    /\ \A d \in Dirs : st[d] = "shutting" => lag[To[d]] = "running"
    /\ signal = "sent" => ~WouldTouchDownstream
    /\ ~timer

\* The error a killed connection ends with is the reason it was given, never
\* the Shutdowner's generic one, and no connection ends by a cause that did
\* not occur: what handle_connection classifies to choose between RST and FIN.
OutcomeJustified ==
  /\ outcome # "sentinel"
  /\ outcome = "reason" => signal = "sent" /\ rx = "none"
  /\ outcome = "timeout" => timer
  /\ outcome = "ok" => fin["down"] /\ fin["up"] /\ avail["down"] = 0 /\ avail["up"] = 0

\* A poll gets ahead with an operation on the client's side, or fails in it.
ClientStep ==
  /\ Operating /\ OpSide = "down"
  /\ <<task, step, outcome, st, bufVars>>' # <<task, step, outcome, st, bufVars>>

\* From the moment of a kill at most one more operation reaches the client's
\* socket, the one the Shutdowner had let through already; nothing else on that
\* side, an injected fault or an error of the socket, can take the place of the
\* reason that was sent ("Once tripped, all future I/O polls on the wrapper fail
\* immediately", shutdowner.rs).
KillCutsOff ==
  [][signal = "sent" =>
       /\ gated' => gated
       /\ ClientStep => outcome' = "reason" \/ (gated /\ ~gated')]_vars

\* A kill ends the copy whenever the next poll of either direction would touch
\* the client's side: always, as long as the client's data keeps being read.
KillSeen ==
  task = "parked" /\ signal = "sent" /\ WouldTouchDownstream ~> task = "over"

\* With a duration every killed connection ends, the ones that KillSeen says
\* nothing about too.
KillStopsInTime == timed /\ signal = "sent" ~> task = "over"

\* A kill ends the copy ("This copy will abort as soon as the shutdown signal
\* is received", shutdowner.rs).
KillStops == signal = "sent" ~> task = "over"
=============================================================================
