--------------------------------- MODULE Delay ---------------------------------
(***************************************************************************)
(* The timer state machine of delayer.rs that DelayedReader and            *)
(* DelayedWriter poll before an operation.                                 *)
(***************************************************************************)
EXTENDS Naturals

Timers(durations) == [armed : BOOLEAN, left : UNION {0..d : d \in durations}]

\* Delay::new; State::Idle
IdleTimer == [armed |-> FALSE, left |-> 0]

\* maybe_delay(), for a duration that is not 0.
Armed(duration) == [armed |-> TRUE, left |-> duration]

\* Delay::poll(): Idle is BeforeDelay, a timer that ran out AfterDelay.
BeforeDelay(timer) == ~timer.armed
Waiting(timer) == timer.armed /\ timer.left > 0
AfterDelay(timer) == timer.armed /\ timer.left = 0

\* A tick passes.
Closer(timer) == [timer EXCEPT !.left = IF @ = 0 THEN 0 ELSE @ - 1]
=============================================================================
