# A formal model of trixter and tokio-netem

trixter is a TCP chaos proxy: it accepts connections, opens one to a fixed
upstream for each, wraps both sockets in the fault-injecting adapters of
`tokio-netem`, copies bytes both ways, and lets an HTTP API list, tune and kill
the connections while they run. This directory models the parts of it in which
several actors meet, checks them with TLC, and proves the central invariants
with TLAPS. Paths below are relative to `src/`.

## 1. The system

| Component | Source | State | Operations | Talks to |
|---|---|---|---|---|
| Accept loop | `trixter/src/main.rs` 512-539 | whether it runs | accept, Ctrl-C | spawns handlers |
| Connection handler | `main.rs` 352-464 | the phase it is in, result of the copy, RST or not | connect, register, copy with timeout, unregister, close | registry (insert, remove), oneshot (receiver), knobs (reads), both sockets |
| Registry | `main.rs` 121-203 | DashMap from id to info, knobs and oneshot sender | insert, remove, iterate (per shard), get_mut | shared by handlers and API |
| Control API | `main.rs` 205-350 | one task per request | list, five setters, shutdown, _all/shutdown | registry, oneshot (sender), knobs (stores) |
| Copy task | `main.rs` 428-444 with tokio's `copy_bidirectional` | two directions with a buffer each, registered wake-ups | poll | every adapter, timer |
| Shutdowner | `tokio-netem/src/shutdowner.rs` | receiver, or tripped | every I/O operation first polls the oneshot | API through the oneshot |
| DynamicProbability | `probability.rs` | two atomics: rate and threshold | new, set, probability, threshold | set by the API, read by Terminator and Corrupter |
| Terminator | `terminator.rs` | fuse | draw on every poll | knob, inner stream |
| SlicedWriter | `slicer.rs` | phase: writing, or flushing n written bytes | write in slices, each followed by a flush | size knob, inner writer |
| DelayedWriter, DelayedReader | `delayer.rs` | timer state, burst flag | delay before an operation | duration knob, timer |
| Throttler | `throttler.rs` | leaky bucket: budget, last update, sleeping | acquire, consume | rate knob, timer |
| Corrupter | `corrupter.rs` | garbage still to be written | draw, drain garbage, then the caller's bytes | probability knob, inner stream |
| Injectors | `injector.rs` | bytes still to be injected | drain a channel before the caller's operation | a channel |
| ResetLinger, extension traits | `io.rs` | none | set SO_LINGER 0 through the stack | handler |

Stack of a connection, outermost first: Shutdowner (client side only),
Corrupter, Terminator, SlicedWriter, ThrottledWriter, DelayedWriter, socket.

What is hard, and what makes each part correct:

* **Registry.** Handlers and requests run in parallel; a request touches the
  map, then the oneshot, and the handler may end in between. Correct means: a
  sender has one owner at a time, whatever is listed is alive, a request's
  status tells the truth, a sweep misses nobody, nothing leaks.
* **Copy task and Shutdowner.** The future is polled only when something it
  registered for happens, and a wake-up polls only what the copy is about to
  use. Correct means: no lost wake-up, the error that is reported is the one
  that happened, a kill ends the copy.
* **Probability.** A two-word value without a lock. Correct means: what a
  listing shows is what the data path does; off is off; a blown fuse stays
  blown.
* **Slicer, Delayer, Throttler, Corrupter, Injectors.** Poll-based state
  machines that carry state from a pending poll to the next one, under knobs
  that change in between, and stacked on each other in any order. What an
  adapter keeps was meant for the call that left it there; the next call may be
  another, come from another adapter, or not pass this one at all. Correct
  means: no byte lost, duplicated or reordered, injected and random payloads in
  one piece, every call eventually answered, rates and delays kept.

`PROJECT.json` lists every hazard with the line where it bites and the
properties that watch it.

## 2. Modules

| Module | Models | Role |
|---|---|---|
| `KillSwitch` | the promise of the registry about a connection's one-shot sender, in two halves: `Safety` (what may happen to it) and `Liveness` (what is claimed is used) | abstract specification |
| `Proxy` | accept loop, handlers, registry, API | detailed specification, refines `KillSwitch` |
| `MCProxy` | | constants for TLC |
| `Relay` | one connection's copy task with Shutdowner, delay, terminator outcome, timer, peers | detailed specification |
| `DynamicProbability` | the two-atomic knob | component |
| `Terminator` | terminators over that knob (extends it) | composition |
| `MCRelay`, `MCTerminator` | | constants for TLC |
| `ByteSink` | the promise of an `AsyncWrite` to whoever writes to it | abstract specification |
| `Adapters` | which operations each of the ten adapters acts on, and which it only forwards | shared definitions |
| `LeakyBucket`, `Delay` | the bucket of `throttler.rs` and the timer of `delayer.rs`, as values with operators | shared definitions |
| `WriteStack` | any stack of write adapters between an owner and a socket or BufWriter | composition, refines `ByteSink` |
| `ReadStack` | any stack of read adapters between a BufReader and an owner | composition |
| `MCWriteStack`, `MCReadStack` | | stacks and constants for TLC |
| `Proxy_proof`, `Relay_proof`, `Terminator_proof`, `ReadStack_proof`, `WriteStack_proof` | | proofs about the module of that name (`Terminator_proof` also about the knob) |
| `WriteTiming_proof` | | proofs about the delay and the throttle in `WriteStack`, on top of `WriteStack_proof` |
| `LeakyBucket_proof` | | lemmas about the bucket that both stacks use |

### Proxy

An action is one DashMap operation, one oneshot operation, or a stretch of a
task that touches nothing shared. `handler[c]` follows `handle_connection`:

    none -Accept-> connecting -Register-> copying -CopyEnds-> ended
         -Unregister-> removed -Close-> closed

with `ConnectFails` from connecting to closed, and `DropHandler` from the two
phases in which the task awaits, once Ctrl-C has stopped the runtime. From
`ended` to `closed` the code does not await, so the task cannot be dropped
there. `chan[c]` is the oneshot (none, open, sent, dropped). `held[q]` are the
`ConnectionState`s request q has taken out of the map and not yet sent to.

A request starts with its body parsed. `Kill` is `remove_connection`, `SendNext`
the `tx.send`; between the two anything may happen. `StartScan`, `ScanShard`,
`EndScan` are the iteration over the DashMap, which locks one shard at a time.
`RemoveNext` is one iteration of `remove_all`'s loop. Setters hold the shard's
write lock from lookup to store and are one action. `scope[q]` is a history
variable: what the request was about when it started. The order in which ids of
a scan are removed and sent to is left open.

The five knobs differ in whether a value can be refused; the runs look at one
that can, termination, which also decides how a copy may end. Values are 0 (off), 1 (a valid setting) and 2 (valid for the plain
knobs, out of range for the probabilities). A copy may end with `terminated`
only while the termination knob is not 0, with `timeout` only if a duration is
configured, with `shutdown` only after a send; `Relay` is where these conditions
come from. `set_reset_linger` is best effort in the code; `reset` records that
it was asked for.

### Relay

The task is parked, or polling direction DU (client to upstream) or UD. Inside
a poll `step` says which operation comes next, following tokio's `CopyBuffer`:
fill, write, top up after a refused write, flush when idle, flush and shut down
after end of file. An operation on the client's side first passes `PollError`,
the Shutdowner; `gated` separates that check from the operation itself, because
the API may send in between. `DelayPending` and `DelayPassed` are the
DelayedWriter: the timer is armed by a write or a shutdown, and is idle again as
soon as it has run out, even if the socket then refuses. `interest` is the set
of registered wake-ups; an event sets `woken` if it was registered. The future
is `timeout(copy)`: `Rest` looks at the timer when the copy is pending.

`copy_bidirectional`, oneshot, timers and sockets are tokio's and are marked
external in the map; they are modelled as the program uses them. Slicing,
throttling and corruption are not in this module: the first two only make
writes shorter or later, which `Write` and `room` already allow.

### DynamicProbability and Terminator

`set` is two stores, `StoreRate` and `StoreThreshold`. Nobody loads both words: a
listing (`List`) loads the rate, a poll the threshold. `Locked` says whether `set`
and listings are serialised by a reader-writer lock from outside, as the shard
lock of the DashMap does in trixter; the type has none of its own. Polls take no
lock: `Poll` looks at the fuse and loads the threshold, `Decide` draws, blows the
fuse or goes on to the inner stream, and a `set` may come in between. `listed[x]`
is the rate listing x was shown, until the next `set` stores; `shownOff[t]`
remembers that the poll under way began when a listing showed 0.0. Both are
history variables, for `OffMeansOff`: what the API shows can be relied on by the
data path, although the two read different words.

Memory orders do not add behaviours here: with two single-word locations,
release stores and acquire loads, every outcome is that of some interleaving.
Rates are multiples of 1/`Den` and a draw is one of `Draws` values; the run has
1/16 and 8, so one valid rate rounds to threshold 0 (as rates below 2^-64 do) and
1.0 saturates.

### Adapters, LeakyBucket, Delay

Every adapter implements all of `AsyncRead`, `AsyncBufRead` and `AsyncWrite`,
acts on some of their operations and forwards the others as they are.
`ActsOn[kind]` is the set it acts on, read off its impl blocks; `Stops(stack,
op)` are the positions at which an operation stops on its way down, the last of
them what lies below the stack, and `Below` gives the next one. `SlicedWriter` does not act on a
read, `Corrupter` and `WriteInjector` not on a vectored write, no one but
`Shutdowner` on `poll_fill_buf`, no one on `consume`.

A bucket is `[budget, age, nap]`: bytes that may pass, time since `last_update`,
what is left of the sleep. `Refilled` is `update_budget` with its integer
division: `age` goes back to 0 only if something was added, and then the
remainder of the time is lost. Ages above a second fill the bucket at any rate,
so they are not told apart. A delay timer is `[armed, left]`.

`Metered` is not in the code. It is a second bucket that fills at the highest
rate, holds twice as much, and pays for every byte that goes through; that it
never goes below zero says that no stretch of time lets more through than two
seconds' worth and what the time allows. Two and not one: with a rate that
changes, `last_update` may be a second old at a full bucket (at a low rate
nothing was added, so it was not touched), and the whole second is then paid out
at the new rate on top of what was in the bucket. `throttler.rs` speaks of
"roughly one second of tokens", which holds while the rate stays the same.

### ByteSink and WriteStack

Bytes are numbered; the owner's buffer is `next .. next + len - 1`. `ByteSink`
takes the first n bytes of it in the step that answers n, and takes nothing from
a write that is pending or withdrawn.

In `WriteStack` a poll is a call that goes down the stops of its operation and
comes back up. `frames` is the call stack, the innermost call last: which
adapter, whose bytes (the owner's, an injector's, a corrupter's), how many, and
where in the adapter's code it is. `answer` is the `Poll` a call has just
returned. One action is one load of a knob or one decision, so that setters and
the clock can come in between: `SliceOff`/`SliceOn` is `is_zero()`,
`SliceWrites` the second load; `ThrottleOff`/`ThrottleOn`, `Acquire` and `Grant`
are the three loads of the rate in one poll. `layer` is what the adapters keep
between polls, a component per adapter field (a stack has at most one adapter of
a kind); an adapter whose inner call came back pending leaves it as it was when
it made the call (`PassUp`). A call as the last expression replaces the frame
(`TailCall`); `InjectorResumes`, `CorrupterResumes`, `SliceResumes` and
`ThrottleResumes` are the code after a call that is not the last.
`InjectorResumes` and `CorrupterResumes` answer with an error also where
`Bytes::advance` would panic: both end the connection.

`Shutdowner` and `Terminator` are reduced to `Fuse`: fail now, or let through;
when they do which is the subject of `Relay` and `Terminator`. A draw of the
corrupter is open at a probability between 0 and 1, of which a run allows
finitely many hits, certain at 1. The sink may take any part of a buffer; it
flushes at once (a socket) or may wait (the stacks in `Buffered`). Wake-ups are
not modelled here: a pending call is polled again some time (see `Relay` for
lost wake-ups).

The owner's buffer may grow while a write is pending, as `copy_bidirectional`'s
does. `Abandons` lets it drop a pending write, and offer the same bytes again or
go on. `Careful` are the conditions under which the stack keeps its promise:
over a sink whose flush waits the size does not become 0 while a write is under
way and a write is not dropped while its flush is pending; and a vectored write
does not overtake a payload that is being drained. Over a socket the first two
ask nothing of anybody, and trixter writes nothing vectored. Section 3 says what
happens without them.

Refinement: the abstract stream is the part of what reached the sink that the
owner has been told of.

### ReadStack

No read adapter comes back to a call it has handed down, so a poll is a descent
(`Descend`) and `frame` one place. `source` is the BufReader: bytes the owner has had, bytes
in the buffer, bytes in the socket. `ThrottledReader` and `DelayedReader` read
by `poll_fill_buf` and `consume`, which everything below forwards, so
`ThrottleFills` and `DelayArms` look straight into `source`. `habits` is what
else the owner does: drop reads, or use `fill_buf` and `consume` itself.
`burst` records when the buffer was filled and the lowest delay since.

## 3. Runs

| Run | Instance | Shows |
|---|---|---|
| `proxy_kill` | 2 connections in 2 shards, 2 requests out of shutdown and _all/shutdown, copies end by a kill or an I/O error | one owner per sender (`SenderHeldOnce`); listed means served (`ListedIsServed`); 202 means delivered, 500 means already gone, one winner (`KillVerdict`); a sweep covers all it started with (`KillAllCovers`); `Proxy` implements the safety half of `KillSwitch` (`ImplementsKillSwitch`) and, with its own fairness, the other half: a claimed sender is used or dropped (`ClaimsAreUsed`) |
| `proxy_live` | 2 connections, 1 request of every kind, all outcomes | a listing contains what was there throughout (`ListComplete`); RST only for termination and timeout, and only after unlisting (`ResetIsForFaults`); `CallsAnswered`, `EndedIsDelisted`, `TimedConnectionsEnd` |
| `relay_copy` | buffers of 2, up to 2 bytes from the client and 1 from the upstream, delay, with and without a duration | no lost wake-up (`QuietMeansStuck`); `OutcomeJustified`; a kill is seen whenever the next poll would touch the client's side (`KillSeen`), and always if there is a duration (`KillStopsInTime`); from a kill on the client's side lets one operation pass at most, the one let through before, and fails with no other error than the kill (`KillCutsOff`) |
| `relay_zombie` | as `relay_copy`, no duration | violation of `KillStops`, see below |
| `probability_locked` | 2 setters, 1 listing at any time, 2 terminators, 6 rates | `SettledPair`, `OffMeansOff`, `BlownFuseBlocks` |
| `write_stack` | trixter's client side with every knob on; slicer over a BufWriter; corrupter over slicer; throttle; corrupter over delay; injector over corrupter; 4 bytes in buffers up to 2, one knob change, one injection, one random corruption, writes dropped | `ToldIsForwarded`; `RateMetered`; `SlicesApart`; `PayloadsWhole`; `SpacedOut`; `Answered`; `ImplementsByteSink` |
| `read_stack` | injector, corrupter and delay; fuse, corrupter and throttle; injector alone; delay alone; trixter's client side; 4 bytes, buffers up to 2, one knob change; owners that drop reads or use fill_buf, or both where no delay is | `NothingLost`; `EofTruthful`; `RateMetered`; `BurstDelayed`; `NeverPanics`; `ReadsAnswered` |
| `sliced_race` | slicer over a socket | violation of `NeverZero` |
| `sliced_off` | slicer over a BufWriter, without `Careful` | violation of `ForwardedOnce` |
| `garbage_starves` | corrupter at probability 1 over a delay | violation of `Answered` |
| `reader_panics` | throttle around a delayed reader, two changes of the rate | violation of `NeverPanics` |
| `read_bypass` | delayed reader around a throttle, rate constant | violation of `RateMetered` |

Why the bounds are enough. Two requests and the handler's own clean-up are all
the parties that can meet at one entry. A second connection, in the other
shard, is what a scan can pass or miss. A buffer of two bytes can be empty,
partly written and full, and the client's two bytes fill it. Two setters are
needed for a mixed pair, and a listing for the rate to be known when a terminator
is polled.

In the stacks, buffers of one and two bytes against slices of one and payloads
of one and two make every write whole or partial; four bytes are a full bucket
at the highest rate twice over, and leave bytes for a write after the one that
went wrong. A second is two ticks and a sleep one, so that at rate 1 a sleep
ends with nothing accrued (as at rates below 10 B/s in the code), and at rate 2
with a byte. A delay of two ticks can be interrupted in the middle. The five
small stacks put adapters that keep state next to each other in pairs; all knob
values, and one change of any knob at any step, are tried on each. trixter's own
stack of six runs with constant knobs (each with more than one effect on a
write), one corruption, dropped writes and failures at every layer.

Deadlock is checked in every run of `Proxy`, `Relay` and the stacks (where the
clock always runs): the only states of the first two allowed to have nothing
left to do are the end of the process (`Exited`) and of the future (`Over`). In
`probability_locked` it is off: setters make one call each and the
terminators get a bounded number of operations through, after which the instance
may have nothing left to do.

Every property has a mutant: an operator, placed before the definition it
replaces and marked "Mutant:", with the bug the property would catch.

### What the violations mean

* **`relay_zombie`.** The client half-closes; its direction is shut down and
  done. The upstream keeps its side open and is silent. A shutdown request is
  answered 202 and the entry leaves the registry; the task is woken, polls the
  upstream read, which is pending, and parks without ever having polled the
  Shutdowner. The connection lives until the upstream sends or closes, unlisted
  and out of reach of another kill. The same happens when the client's data
  fills the copy buffer against an upstream that does not read. `KillSeen`
  delimits when a kill works; a configured duration bounds the rest.
* **`sliced_race`.** The size becomes 0 between the two loads of one poll, and a
  write of some bytes is ready with 0. `copy_bidirectional` and `write_all` treat
  that as an error, so turning slicing off on a busy connection can end it. No
  inner writer has to wait for this; it is open to trixter.
* **`sliced_off`.** The size becomes 0 while a flush is pending; the next poll
  takes the pass-through path and forwards the slice again. Needs a flush that
  waits.
* **`garbage_starves`.** A poll of the corrupter that finds no garbage draws, and
  the poll that resumes a pending write is no exception. Above a delay: garbage
  is drawn and waits out the delay; it is written, and the caller's bytes arm
  the next delay; the poll at its end draws again, and the fresh garbage takes
  the delay that has passed. At probability 1 this goes on for ever, below 1 a
  write takes as many delays as draws hit in a row. trixter has this stack and
  both knobs.
* **`reader_panics`.** `ThrottledReader` hands a read down at rate 0 and reads by
  `poll_fill_buf` otherwise. Around a `DelayedReader`: at rate 0 the delayed read
  sees bytes and starts its timer; a limit is set, and the bytes are read past
  it; the limit is lifted, the timer is over, and the delayed read finds the
  buffer empty, which is `unreachable!`. TLC finds the same without a throttle if
  the owner drops a delayed read, or has it answered by a `Corrupter` or
  `ReadInjector` above, and drains the buffer by `fill_buf` and `consume`; that
  is why no owner in `read_stack` does both over a delay.
* **`read_bypass`.** The other order: `DelayedReader` reads by `poll_fill_buf`,
  which `ThrottledReader` forwards, and no byte is counted. A `Terminator`,
  `Corrupter` or `ReadInjector` below a throttled or delayed reader is passed by
  in the same way. trixter has no read adapters.

What the code does beside its promises in some more places is left out by a
constant or by the wording of a property; there is no run for them.

* With `Locked` FALSE `SettledPair` fails: two `set` calls of a
  `DynamicProbability` without a lock around them leave the rate of one and the
  threshold of the other, and a listing shows a probability that is not in force.
  `probability.rs` (69-71) promises readers a consistent pair by its memory
  orderings alone; trixter's setters are serialised by the map's lock.
* `poll_fill_buf` does not look at a `Terminator`'s fuse, so whoever reads through
  `AsyncBufRead` reads on from a terminated stream. `BlownFuseBlocks` speaks of
  the other operations.
* The other half of what `Careful` excludes over a BufWriter: a write is dropped
  while its flush is pending, and the next one, whatever it offers, is answered
  with the old number and forwards nothing. A corrupter or injector above that
  has drawn or received a payload meanwhile takes the number for its own. It has
  the same root as `sliced_off`, the phase outliving the call it belongs to, and
  the same remedy.
* `WriteInjector` and `Corrupter` forward a vectored write without looking at what
  they have queued: a plain write is pending with half a payload written, the
  owner comes back with a vectored one, and its bytes land inside the payload
  (`Careful` again).
* An injected buffer of no bytes answers a read with no bytes, which every reader
  takes for the end of the file. `EofTruthful` keeps this answer apart.
* `buf_empty` of a `DelayedReader` is written by `poll_read` alone: a read leaves
  bytes in the buffer, the owner consumes them by `fill_buf` and `consume`, and
  the next burst is read without a delay. `BurstDelayed` covers the owners that
  only read.
* A `DelayedWriter` hands a write down once when its timer is over; if
  the socket refuses, the timer starts again, so under backpressure a write waits
  for several delays. `SpacedOut` and `Answered` hold all the same: never too
  early, and some time.

## 4. Fairness

`Proxy`: a request whose body is parsed and a handler whose copy has ended do
not wait for anyone, so the runtime finishes them (weak fairness of `CallRuns`,
`Unregister`, `Close`); tokio's timer fires (`CopyEnds(c, "timeout")`); a
dropped runtime drops every task (`DropHandler`). Peers, API clients, Ctrl-C,
and the end of a copy are under no obligation. `Relay`: a woken task is polled
and a poll runs to its end (`TaskStep`), timers fire. No peer is assumed to
read, write or close, which is why `KillStops` can fail. `WriteStack`: a pending
write is polled again and a poll runs to its end (`TaskStep`), time passes
(`Tick`), the peer reads (`PeerReads`), and a flush that is tried again and again
succeeds some time (strong fairness, since a poll that finds it waiting ends in
between). Setters, owners that drop writes, draws below 1 and injections are
bounded instead. `ReadStack`: polls and time; the peer owes nothing, so
`ReadsAnswered` speaks of reads for which there is something to answer.

## 5. Proofs

The theorems hold for every value of the constants that satisfies the
assumptions next to their declarations: any sets of connections, requests,
setters and streams, any number of shards, buffers, payloads, rates and delays
of any size, stacks of any adapters in any order (at most one of a kind). Bounds
that make TLC's instances small, such as `Total` or `MaxSent`, are constants,
too. Each safety theorem goes through an inductive invariant: a conjunction of
the property with what it takes to carry it through one more step, first checked
by TLC as an invariant, then proved initially and action by action.

### Registry (`Proxy_proof`)

* `TypeCorrect`: the type invariant.
* `SenderOwnedOnce` and `ListedServed`, from the inductive invariant
  `Ownership` = types, `SenderHeldOnce`, `ListedIsServed` and `ChannelAge`.
  `SenderHeldOnce` alone is not inductive: `Register` publishes a sender, which
  is safe only because a connection that is still connecting has no channel,
  hence is held by nobody (`ChannelAge`).
* `KillAllReachesAll`, from `Sweeping` = `Ownership`, `IdleIsBlank` and `Sweep`.
  `Sweep` says how far a scan or removal has come: entries of the scope still in
  the map lie in a shard not yet visited or are among the collected ids. It
  needs that nothing returns to the map, which is lemma `SendersAge`.
* `KillVerdictTruthful`, from `Judging` = `Sweeping`, `Verdicts` and
  `OneWinner`. `Verdicts` follows the one send of a shutdown request from the
  removal to the status. A second winner is impossible because a new one finds
  the entry in the map, with an open channel, while the channel of an earlier
  winner is in that request's hands or used up.
* `ListingsComplete` and `ResetsJustified`: what was listed throughout a listing
  is in it; a reset is asked for only after termination or timeout, and only
  once unlisted.
* `RefinesKillSwitch`: `Spec => ImplementsKillSwitch`, the safety half of the
  refinement, by `Ownership`: each action of `Proxy` is one of `KillSwitch` or a
  stutter.

### Probability (`Terminator_proof`)

`TypeCorrect` and `BlownFusesBlock` hold without a lock. `PairSettles` and
`ZeroIsOff` assume `Locked`, from the invariant `Paired`: only one `set` is half
done at a time (`Exclusive`), with none half done the threshold is that of the
rate (`SettledPair`), a listing that no `set` has outdated shows the rate there
is, with none half done (`Current`), and a poll that began when a listing showed
0.0 has loaded the threshold 0 (`PollsOff`). The lock orders `set` and listings
only; that it reaches the polls, which take none, is what `ZeroIsOff` says and
`PollsOff` carries over a `set` between the two steps of a poll. Without the lock
both are false (section 3); trixter's map provides it.

### Copy task (`Relay_proof`)

* `TypeCorrect`, with `Turns`: which step a direction can be at.
* `OutcomesJustified`, from `Accounts`: end of file means that everything was
  read, a direction shuts down only after it, and the receiver is gone only with
  the future.
* `KillsCutOff`, from `Accounts`, too: an operation on the client's side that was
  not let through before the kill finds the receiver still there, hence the reason
  that was sent, and ends the future. An injected fault or an error of the socket
  has its turn only behind that check.
* `SleepersAreStuck` (no lost wake-up), from `Watch`: as long as nothing has
  woken the task, each direction that had its turn waits for something that is
  registered (`Waits`), and a direction in the middle of its turn is waiting for
  what it has already found pending (`MidStep`). A step of one direction keeps
  the other's `Waits` (`WaitsOn`), which is the heart of it.

### Bucket (`LeakyBucket_proof`)

How refills, sleeps, ticks and payments change a bucket, and what it may still
claim: `Claim(b, top)` = `Second` times the budget plus `top` times the age.
A refill at a rate up to `top` does not raise it, a tick raises it by at most
`top`, and paying n bytes lowers it by `Second * n`. Both meters stay ahead of
it. (The divisions of `Added` are linear only after the quotient is named; the
lemmas keep the nonlinear step in one place.)

### Read stack (`ReadStack_proof`)

`TypeCorrect`, `BytesInOrder` (`NothingLost`) and `EndOfFileIsTrue` hold for
every stack and every owner. They rest on `Sound`: types, `Underway` (a poll
serves a pending read; only the throttle takes several steps, the later ones
with bytes to read or at the end). The others need a stack in which nothing
reads past the adapter in question:

| Theorem | Hypothesis | Invariant |
|---|---|---|
| `ThroughputIsMetered` | `Unbypassed`: no DelayedReader and no `fill_buf` of the owner above a throttle | `Covered`: the meter is at least the bucket's claim, and as long as there has been a limit the poll is not past the throttle |
| `BurstsAreDelayed` | `Undisturbed`: no throttle above a delay | `Punctual`: what the timer has left and how long the burst has waited add up to the lowest delay |
| `DelaysFindTheirBytes` | `Undisturbed`, `Unshared`: an owner who uses `fill_buf` drops no read, and has no corrupter or injector above the delay | `Kept`: while the timer is armed there are bytes in the buffer, or the end |

The hypotheses are not for the prover's sake: `read_bypass` and `reader_panics`
show what the code does without them (section 3).

### Write stack (`WriteStack_proof`)

`SlicesAreFlushed` (`SlicesApart`) holds for every stack. `TypeCorrect`,
`WritesAreTold` (`ToldIsForwarded`) and `StacksAreSinks` (`ImplementsByteSink`)
share one hypothesis and one invariant. The hypothesis is `Unmixed`: where the
flush of the sink may wait (the stacks in `Buffered`) the conditions of
`Careful` hold, and no injector or corrupter lies above the slicer. Over a
socket, hence for trixter, it asks nothing. `sliced_off` shows why `Careful` is
needed; and a corrupter or injector above the slicer that draws or receives a
payload while a flush is pending is answered with the number of the owner's
slice and takes it for its own. `ToldIsForwarded` fails then (TLC finds it with
`<<"Corrupter", "SlicedWriter">>` in `Buffered`), and what the adapter owes the
sink can grow past any payload, so the types fail, too.

The invariant `Sound` is a conjunction of

* `Chosen`, `Owning`: the stack is that of a setup; a poll serves a pending
  operation whose buffer lies within the owner's bytes;
* `Chain`: positions grow along the call stack; a call serves the bytes of the
  adapter that made it; only adapters that look at an answer are returned to;
* `Fits`: no call carries more than its source has left;
* `SizeKept`: over a BufWriter the size is not 0 while a slice is under way;
* `FlushDue`: a slice that has been written and not flushed is either the
  slicer's own next step or belongs to the pending write of the owner;
* `Balanced`: the bytes in the sink are those the owner was told of plus
  `Flight`, the number in the answer on its way up or waiting for its flush; they
  are the next bytes of its buffer; what an injector or corrupter owes is what it
  has left less its own `Flight`.

`Balanced` is what the properties need; everything above it says whose bytes an
answer is about. For the refinement, a step in which an answer reaches the owner
is `Take` of `ByteSink` with that number, new and dropped buffers are `Offer`
and `Withdraw`, and all other steps stutter, because told and forwarded bytes
are equal between operations and the stream only grows at its end.

`PayloadsStayWhole` (`PayloadsWhole`) assumes `Careful`, too, for its third
condition: a vectored write passes `WriteInjector` and `Corrupter` unseen. Its
invariant `Whole`: a call with the owner's bytes is below an adapter with a
payload only if nothing is left of the payload, and a vectored write is pending
only if no adapter has anything left. The adapter hands the owner's bytes on
only when it has drained its own, and draws or receives new ones only when the
call it made is back (`AtPayer`, `PayloadStays`). That what reaches the sink is
booked to the right payload is `Balanced` again.

### Write timing (`WriteTiming_proof`)

`WritesAreSpacedOut` (`SpacedOut`) and `WritesAreMetered` (`RateMetered`) assume
`Unmixed` and, for the adapter in question, `Beyond`: no injector or corrupter
lies below it. What one of these writes of its own has not passed the adapter,
so nobody spaces it or pays for it; TLC finds both properties violated with
`<<"DelayedWriter", "WriteInjector">>` and `<<"ThrottledWriter", "Corrupter">>`.
In trixter's stack the corrupter lies above both.

* `Distant`, for the delay: as long as the timer is armed, what it has left and
  the time since the last bytes add up to the lowest delay; a call below the
  delay finds the timer idle and the distance over, unless it is on its way back
  from the sink, or the flush of its slice is on its way down. `Descents` says
  how a call can get past an adapter: only by that adapter's own step.
* `Metering`, for the throttle: `Granted`, a call below the throttle was made by
  it, for no more bytes than the budget (so no answer comes back too large to
  pay), and `Covering`, the meter is at least the claim of the bucket once it
  has paid what is `Unpaid`. Bytes are unpaid from the sink's answer until the
  throttle sees it: on their way up, or, with a slicer below the throttle,
  put aside until the flush. `RateMetered` alone is not inductive: between the
  sink and the throttle the meter has paid and the bucket has not.

### What stays with TLC

Liveness under fairness: `CallsAnswered`, `EndedIsDelisted`,
`TimedConnectionsEnd`, `ClaimsAreUsed`, `KillSeen`, `KillStopsInTime`,
`Answered`, `ReadsAnswered`. Every other property of a passing run is a theorem.

## 6. Plan

1. `Proxy`, `KillSwitch`, `Proxy_proof`: the registry. Done.
2. `Relay`, `Relay_proof`: the copy task. Done but for the composition in step 6.
3. `DynamicProbability`, `Terminator`, `Terminator_proof`. Done.
4. `Adapters`, `LeakyBucket`, `Delay`, `ByteSink`, `WriteStack`, `ReadStack` and
   their proofs. Done.
5. `WriteTiming_proof`: pace and distance through a stack. Done.
6. `Relay` over the whole client-side stack instead of its reduced one.

## 7. Not modelled

Command line parsing, JSON and HTTP framing, logging; RNG streams (a draw is any
value); the failing bind of the API address, which panics one task and leaves
the proxy running; id collisions of nanoid; the test utility
`utils/rate_counting_reader.rs`. Lost wake-ups inside a stack (they are modelled
in `Relay`). Two adapters of the same kind in one stack. A BufReader or BufWriter
between the adapters and a TcpStream, which answers `set_reset_linger` without
passing it on. The contents of payloads and the split of a vectored write into
buffers: lengths only.
