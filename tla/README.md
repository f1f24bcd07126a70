# Kino in TLA+

Kino is a Rack web server for Ruby: a Rust extension (`src/ext/kino/src`) accepts
connections with tokio and hyper and hands requests, over bounded channels, to Ruby
workers (`src/lib/kino`) that are either ractors with a supervisor each or plain
threads. This directory holds TLA+ modules of its core protocols, the TLC
configurations that check them on small instances, and proofs TLAPS checks.

`PROJECT.json` maps every definition to the lines it models, and lists the runs, the
mutants that show each property can fail, the hazards and the findings.

## 1. The system

| Component | State | Operations | Talks to | What makes it correct |
|---|---|---|---|---|
| Front end (`server.rs` `handle_request`) | one future per request: permit to send, in-flight guard, head oneshot, timers | size guard, send or dispatch, wait for the head, time out, be dropped by hyper | queue or lanes, responder, gauges | every request ends in one response; gauges are exact however the future ends |
| Shared queue (`queue.rs`, `registry.rs`, `gvl.rs`) | bounded flume channel with parked senders; per slot: weak list of what is being served, interrupt and retire flags | checkout, receive, interruptible wait, admit, batch fill, fused respond-and-take | front end, workers, supervisor, shutdown | a context has one owner; an owner that dies is found by `abort_slot` |
| Lanes (`server.rs` `try_dispatch`, `queue.rs` `lane_take`) | a bounded channel per slot, parked flag, retire flag, slot table | three-pass scan, steal, park, retire, abort, close | front end, workers, scaler, supervisor, shutdown | nothing is left in the lane of a worker that has gone; a backlog is stolen |
| Worker loop (`worker.rb`) | the batch in hand | take, call the app, deliver, close the body, rescue | queue, responder | back at the take, everything taken has been answered |
| Responder and streaming (`response.rs`, `request.rs`, `stream.rb`) | claimed flag, head oneshot, frame sender under a mutex, 8-frame channel | claim, stream head, write, finish, abort, Drop backstop | worker, supervisor, shutdown, GC, hyper | one head; a clean end of stream means a whole body |
| Request body (`server.rs` forwarder, `request.rs` `read_body`, `input.rb`) | frame channel, leftover, abandonment reason | forward, read, abandon | hyper, worker | an abandoned body is never read as a short one |
| Ractor supervisor (`ractor_supervisor.rb`) | live, retiring and replaced tables, draining flag | supervise, abort, respawn, grow, retire, replace | queue, slot bank, scaler | crashed workers are replaced until the drain |
| Threaded pool (`threaded_pool.rb`) | groups of threads | spawn, retire, reap, replace, kill stragglers | the same | the pool keeps its floor |
| Slot bank, scaler, monitors | free list, idle counters, outstanding quarantines | claim, release, step, scan | supervisor or pool | a slot has at most one worker |
| Server lifecycle (`server.rb`, `server_start`) | boot and shutdown progress, server state | start, stop accepting, drain, close, join, abort, interrupt, kill, tear down | everything | every boot returns, shutdown returns, and a drain in time loses nothing |
| Accept loops and I/O shards (`server.rs`, `io_shards.rs`) | connection permits, shard channels and loads, drain watch | accept, assign, send, serve, drain, cut off | front end, control plane | permits and loads are given back; a server that goes deaf stops saying ready |
| Env strings and pins (`env_strings.rs`, `pin.rs`) | LRU caches under mutexes, slabs of GC roots, bodies hyper holds | look up, build, root, evict, upgrade, pin, release, collect | workers, Ruby's collector, hyper | what Rust refers to is alive and says what it said |
| Sensors, control plane and log (`registry.rs`, `control.rs`, `logsink.rs`, `access_log.rs`) | relaxed atomics, monitoring connections, bounded log channel | admit and count, reset, abort, snapshot, accept, time out, write, flush | workers, supervisors, monitor, clients | a report does not accuse a healthy worker; the log drains |

**What is hard here.** Three worlds run at once: tokio tasks that hyper may drop at any
await, Ruby threads that block outside the VM lock, and the main, supervisor and
monitor threads. A request context is moved through channels between them, up to four
parties race for its responder, and three of its failure paths (crash, shutdown past
the deadline, garbage collection) reach it through weak references. Nothing is
persisted, so crash recovery means the recovery of a worker, not of data.

## 2. Modules

| Module | Models | Main correspondence |
|---|---|---|
| `RequestPromise` | what Kino promises about one request: handed to the app at most once, at most one response, an app response only from an app that ran, a 413 never reaches the app | abstract, no code of its own |
| `SharedQueue` | a request's whole way with the default queue, the worker loop, crash and respawn, retirement, GC, `Server#shutdown` | `line` is the flume buffer followed by its parked senders; `held` the handles in a worker's frames; `current` the slot's weak list; `garbage` handles waiting for `RequestCtx::drop`; `phase` where `shutdown` stands |
| `SharedQueueProofs` | theorems about `SharedQueue`, its refinement of `RequestPromise` among them | section 5 |
| `LaneDispatch` | lane mode: scans, takes, steals, parking, retire and recycle, crash, abort, close | `scan` is one `try_dispatch` in progress (pass, lanes left, lane aimed at); `abort` one `abort_slot` in progress |
| `LaneDispatchProofs` | theorems about `LaneDispatch` | section 5 |
| `ResponseStream` | one response in full: claim race, streaming head, frame channel, finish, abort, Drop, the client's reading, shutdown's escalation | `app` is the line of `Worker.serve`; `lock` the `body_tx` mutex an aborter keeps over its blocking send |
| `ResponseStreamProofs` | theorems about `ResponseStream` | section 5 |
| `RequestBody` | a request body on its way in: forwarder, cap, idle timeout, channel, choice of `rack.input`, `Input`'s reads over `read_body` | a byte is its position in the body; `chan` the channel followed by the parked sender's frame; `reader` the line of `read_body` |
| `RequestBodyProofs` | theorems about `RequestBody` | section 5 |
| `Connections` | `server_start` with its failure paths, both accept topologies, a connection from accept to close, shards that die, drain, teardown, the control thread's life | `hand` is the connection between accept and send; `load` and `live` the accept loop's view of the shards, `shard` the threads themselves; `late` what `borrow_and_update` saw |
| `ConnectionsProofs` | theorems about `Connections` | section 5 |
| `EnvStrings` | the caches every ractor fills and evicts, their slab, zero-copy bodies, global and per-ractor collections | `frame` is what the native frame refers to (Ruby scans it), `env` what the Hash refers to; `slab` the atomic VALUE slots |
| `EnvStringsProofs` | theorems about `EnvStrings` | section 5 |
| `WorkerPool` | supervisor threads and tables, slot bank, quarantine monitor, scaler | `sup` is the line of `supervise`; `ids` its local `worker_ids`; `mon` and `scaler` the two monitor threads between their steps, `rows` the rest of the monitor's snapshot |
| `WorkerPoolProofs` | theorems about `WorkerPool` | section 5 |
| `Telemetry` | the sensors as admission, `WorkerSlot::reset` and `abort_slot` write them, snapshots read atomic by atomic, the control plane's connections, access log and flusher | `scan` is one snapshot in progress; `stint` and `scan.age` (history) when a slot's batch began; `torn` (history) the slots reset under the report's eyes |
| `TelemetryProofs` | a theorem about `Telemetry` | section 5 |
| `MC*` | small instances for TLC | |

An action is what runs between two points where another thread can interfere: an
await, an unlock, an atomic access, a channel operation. Data is reduced to what the
properties tell apart: a request is a model value, a body a number of chunks, a response
its status class. Environments are unconstrained: clients send, hang up and stop
reading when they like, timers fire or not, apps raise, crash or hang.

The modules meet at a few named places: a request's time inside a connection is a busy
period of `Connections` and a whole life in `SharedQueue` or `LaneDispatch`; a worker that
crashes there is respawned by `WorkerPool`'s protocol; `Telemetry` keeps the queue as a
set and looks at the sensors. `RequestPromise` is the abstract specification that
`SharedQueue` implements (`KeepsPromise`; TLC checks the refinement on an instance and
`QueueKeepsPromise` proves it).

## 3. Runs

| Run | Instance | Shows |
|---|---|---|
| `queue_crash` | 2 requests, 3 slots of which 2 booted and 1 may crash, queue 1, batch 2, ractor mode, scaler, request timeout | `TypeOK`, `OwnedOnce`, `Answerable`, `ListedWhileHeld`, `BatchAnsweredAtCheckout`, `NoClientWaitsForGC`: after the supervisor's abort no client waits for the collector |
| `queue_shutdown` | 2 requests, 2 workers, batch 2, threaded mode, unsupervised crash, `body.close` raising, timeout, shutdown | `InFlightExact`, `NothingLeftBehind`, and `KeepsPromise`: the queue path implements `RequestPromise` |
| `queue_live` | 2 requests, 2 slots, 1 booted that may crash or hang, shutdown | `EveryRequestSettles`, `ShutdownReturns`, `CloseReleasesWorkers` |
| `lane_race` | 2 requests, 2 slots, lanes of 1, crash, retire, recycle, grow, shutdown | `NoOrphanedLane`, `OnePlace` |
| `lane_live` | 2 requests, 3 slots of which 2 booted, slot 1 may hang or crash | `BacklogStolen` |
| `stream` | 3 chunks over a buffer of 2, all body shapes, both worker modes, raise, crash, timeout, kill, shutdown, a client that reads or leaves | `EachEndsComplete`, `BackstopLeavesNothing`, `EveryExchangeEnds`, `WorkerReleased`, `ShutdownReturns` |
| `stream_stalled` | a client that stops reading | violates `ShutdownReturns` (finding) |
| `body` | bodies of up to 5 bytes in frames of up to 4, cap 3 or none, channel of 1, chunks of 2, reads by length, line and whole | `BytesInOrder`, `LiveEofIsWhole`, `ReadReturns`, `ForwarderStops` |
| `conns` | 2 connections, 2 shards that may die, four layouts (sharded or not, TLS or not, control plane or not, cap 1 or 2), every boot failure, shutdown at any time | `PermitsExact`, `LoadsExact`, `ReadyNeverTurnsDeaf`, `BootReturns`, `DrainEmpties` |
| `envcache` | 2 ractors, 3 requests out of 5 kinds (one name by header, by authority, with a port; a header value; a body), caches of 1, the slab of the code's size for them, 1 pin, both kinds of collection | `SlabExact`, `CachedLive`, `EnvOwn`, `PinnedLive`, `GcCompletes` |
| `pool` | floor 1, ceiling 2, 3 worker indexes, 4 slots, 1 crash, 1 replacement, threads that cannot be started | `SlotOwnedOnce`, `NoSlotLost`, `FloorKept` |
| `telemetry` | 1 slot with batches of up to 2 requests that is retired and recycled, or crashes and is aborted, a clock of 0 or 1 tick, 2 monitoring clients over a cap of 1, a log channel of 2; log, control plane and monitor one at a time | `ReportTrue`, `LogDrains`, `ProbeEnds` |

The modules' type invariants are checked too: `TypeOK` is a conjunct of `OnePlace`,
`BackstopLeavesNothing`, `BytesInOrder`, `PermitsExact`, `SlabExact`, `SlotOwnedOnce` and
`ReportTrue`.

**Bounds.** Two requests over a one-place channel already give a full queue, a parked
sender, a batch of two and a fused take. Two workers give a thief and a victim, or a
survivor and a crash; a third slot gives the respawn somewhere to go. Slots are
bounded by `Workers` and `MaxSlots`: a respawn that finds none left does not happen in
the model, which the bounded runs reach only after their crash budget (`MayCrash`) is
spent. Three chunks over a buffer of two reach the empty, partly full and full channel;
nothing depends on the code's 8 beyond that. Frames of four over chunks of two make a
leftover that is split again, and three bytes are asked for across two pulls. Two
connections over a cap of one keep a client in the backlog, over a cap of two they share
a shard; two shards leave one to route around to, and none when both are gone. Caches of
one entry evict at every second key; the cells suffice for what is in use at once. One
replacement and one crash, with a floor of one, let the monitor, the scaler and a
supervisor disagree about the same worker; worker indexes are never reused in the code,
so `Indexes` bounds how often the pool grows (a growth past it does not happen in the
model). In `telemetry` the log, the control plane and the monitor share nothing but the
sensors and are switched on one by one; one tick separates a batch's admissions, and a
timeout of zero makes every busy time count. Deadlock is not checked: a server whose
clients have all been answered, or that has been shut down, has nothing left to do.
Request symmetry is used only in runs without liveness.

**Fairness.** Weak fairness is given to what the code's schedulers owe: tokio polls
ready futures; the VM schedules workers, supervisors and the main thread; a blocking
wait wakes at its next tick (`gvl.rs` polls every tick, `queue.rs` steals at every
timeout). Strong fairness is used twice in `LaneDispatch`: for `Steal`, whose sweep
comes by a lane again and again, and for `ClaimSlot`, whose write lock on the slot table
is not starved by readers (parking_lot holds new readers back once a writer waits). No
fairness for clients, timers, the collector, the scaler, crashes, or app calls in
`MayHang`. `ResponseStream` has two versions: `ReadingSpec`, whose client reads until it
leaves, and `StalledSpec`, whose client may stop reading for ever. In `RequestBody` the
forwarder's wait for a frame ends, because tokio's timer bounds it. `Connections` has
weak fairness for the booting thread, the accept loop once it holds a connection, shards
and connection tasks, and for a busy connection's response (that is `EveryRequestSettles`);
strong fairness for the accept loop's shutdown branch, because its `select!` is not
biased. Nobody has to call shutdown. `EnvStrings` gives each ractor and the collector
weak fairness. `Telemetry` has weak fairness for the flusher, the worker, the reader of
a snapshot and the end of a back-off, and strong fairness for `Accept` (descriptors run
out only now and then, and connections over the cap end) and for the deadline, which a
timer wheel keeps.

**Memory order.** Every atomic of the sensors and the server state is `Relaxed`. The
models are sequentially consistent: each access is a step, in program order, and is seen
at once. That is stronger than what the language promises, and what is checked and proved
of the sensors (`ReportTrue`) is claimed for that order only. On a weakly ordered CPU a
reader may see a slot's `in_flight` before its `last_started_ms` (`queue.rs:139-141`
against `control.rs:37-38`), and then a worker that was idle for longer than the
quarantine timeout looks wedged in its first instant of work.

## 4. Findings and observations

**Finding: shutdown can hang on a stalled client** (`response.rs:128-130`, run
`stream_stalled`). The abort's error frame is a blocking send into a channel that only the
client's reading empties; with the buffer full, `abort_all_inflight` does not return, and
neither does `shutdown`, against `server.rb:201-202` ("Always returns by ~deadline + a small
epsilon"). `ReadingSpec`, with a client that reads or leaves, satisfies `ShutdownReturns`.

### Observations

Places where the code does less than a comment or a reader may expect, met while
modelling and stated here without a run of their own. The models of these parts contain the
behaviours, and no property claims the opposite.

*Requests.*
* `body.close` raising after a fused take (`worker.rb:99-117`): `respond_and_take` has
  already taken the next batch; the rescue returns `NOT_FUSED`, the batch is dropped
  unserved, and checkout clears the list through which the supervisor would find it
  (`queue.rs:191`). Its clients get a 500 at the next garbage collection.
  `BatchAnsweredAtCheckout` and `NoClientWaitsForGC` hold where `CloseRaises` is off.
* A drain in time can cut a response: `in_flight` drops with the response head
  (`server.rs:612-622`), so the drain loop (`server.rb:217-222`) may end with bytes still
  to be written.
* A 503 for a queue-full timeout whose context a worker pulled in the same instant, so
  that the app runs it all the same (`server.rs:651-652` says it was dropped unsent;
  `RequestPromise` allows it).
* A Rack 3 `call` body that raises ends cleanly (`worker.rb:126-131`): the `ensure` closes
  the stream before the rescue can abort it (`CHANGELOG.md:210-212`). `EachEndsComplete`
  leaves that body shape out.
* A body abandoned before admission reads as empty (`request.rs:270-278`): the channel is
  empty and disconnected, `body_possible` takes that for the end, and the app gets
  `NullInput` (`response.rs:29-30`). `LiveEofIsWhole` is about `Input`.
* A body error is treated as a clean end of file (`server.rs:561`).
* In lane mode all lanes are closed between the abort of the only worker and its respawn,
  so a dispatch gives up although `server.rs:772` reads "draining"; and a worker respawned
  between `close_queue` and the draining flag parks on an open lane until the deadline's
  interrupt (`server.rb:224`, `ractor_supervisor.rb:180`).

*Env.*
* The hosts cache is keyed by the text alone (`request.rs:226-265`): where the text names
  no port, SERVER_PORT is that of the socket it was first seen on, for every server of
  the process. `EnvOwn` leaves the port of such a pair aside.
* `PinSlab::insert` scans slot by slot while others release, so it may miss a free slot and
  leave a string uncached although the slab is sized never to be full (`env_strings.rs:107`).

*Pool.*
* A ractor joins its threads in order (`ractor_supervisor.rb:213-221`), so with several
  threads per ractor a crash of a later one goes unnoticed while the first serves on.
* A slot quarantined and then released by its retired worker is handed out again with the
  quarantine mark on (`registry.rs:292-311`): its next worker is invisible to the monitor.
* `retire` of a worker that is being respawned flags its dead slots
  (`ractor_supervisor.rb:109-121`): it counts as leaving and serves on. `replace` in the same
  window quarantines the fresh slots (`:151`). So may a stale row of the monitor's snapshot
  (`quarantine_monitor.rb:22`) whose slot has been handed on in the meantime.
* A supervisor thread that cannot be started leaves its index in the live table (`:162`);
  `FloorKept` counts it as the code does.
* The count of outstanding quarantines only grows (`quarantine_monitor.rb:35`). The
  active-worker gauge is computed and stored in two steps (`registry.rs:123`). A crashed
  thread of the threaded pool is not replaced and its group counts on
  (`threaded_pool.rb:147`). Two servers starting at once may both judge a pidfile stale
  (`server.rb:454`).

*Server, control plane and log.*
* `control_ready` stores ready without a look (`server.rs:812-818`). When all shards die
  during boot, its store may come after that of the accept loop (`io_shards.rs:364`),
  before or after the loop has ended (`:365`): the server then accepts nobody and says
  ready for good, although `io_shards.rs:310-312` reads "flips the server to draining, so
  the control plane stops reporting ready". The model has these behaviours.
  `ReadyNeverTurnsDeaf` leaves them out: it is about servers that said ready while
  their accept loop ran, which includes every loop that gives up after the boot.
* A control-plane report that has loaded a slot's `in_flight` (`control.rs:37`) when the
  slot's worker leaves and the slot is recycled reads the zero of `WorkerSlot::reset` as
  its start (`control.rs:38`, `registry.rs:306`): `busy_ms` is then the whole uptime of an
  idle worker (`control.rs:12-13`: "the age of the current in-flight work (0 when idle)").
  `ReportTrue` names this case and excludes every other. The monitor cannot meet it: it
  reads and the bank resets under the main ractor's lock.
* `abort_all_inflight` clears `in_flight` of workers that are alive and go on admitting
  (`server.rs:856`), so that a report in the last moments of a shutdown counts too few.
* `busy_ms` counts from the batch's last admission (`queue.rs:139`), and a batch whose requests
  are each short can look wedged (`configuration.rb:282` speaks of one request). One
  report's `queue_time.count` may exceed its `served` (`control.rs:58-59`).
* `logsink.rs:8-10` says that a graceful shutdown loses nothing; the flusher thread is not
  joined, so a process that exits at once may not write the last lines, and a full
  channel drops lines at any time. `LogDrains` is about a process that stays up.

## 5. Proofs

`SharedQueueProofs` proves, for any sets of requests and workers, any queue depth and
batch size, either worker mode and every combination of the other options
(`SharedQueueAssumption`):

* `TypeCorrect`: `Spec => []TypeOK`;
* `SingleOwner`: `Spec => []OwnedOnce`;
* `NobodyOrphaned`: `Spec => []Answerable`;
* `AbortFindsAll`: `Spec => []ListedWhileHeld`;
* `QueueKeepsPromise`: `Spec => KeepsPromise`, the refinement of `RequestPromise`;
* `NothingLost`: `Spec => []NothingLeftBehind`;
* `GaugeExact`: `Spec => []InFlightExact`, for finitely many requests, which is what makes
  the gauge a number;
* `ListClearedSafely`: `Spec => []BatchAnsweredAtCheckout`, when no `body.close` raises;
* `NobodyWaitsForGC`: `Spec => []NoClientWaitsForGC`, in ractor mode, when no `body.close`
  raises.

The last two carry hypotheses because the code does not do more. When `body.close` raises
after a fused take, `serve` returns as if there had been none, and the batch it had just
fetched goes to the garbage collector unanswered; and in threaded mode nobody aborts a
crashed worker's slot. The run `queue_crash` checks both properties under the constants
the theorems assume.

The inductive invariant is `Ownership`: the three safety properties, `TypeOK`,
`UnsentNowhere` (a request not sent yet is nowhere on the Ruby side; without it `Send`
could put a second copy in the channel) and `HandsMatchPc` (a worker's hands are empty
where its loop says so; without it a receive could overwrite what the worker holds, and
a batch's end could lose it). `TypeOK` itself needs `HandsMatchPc`, because `Tail` and
`Last` are applied to the hands.

The argument: `MovesOnly` shows that every step does one of ten things to the places
a context can be in (nothing, enter or leave the channel, receive, drop, a fused
respond, finish, collect, kill, tear down). One lemma per kind says what happens to the
members, and `OwnedOnceStep` and `OwnedStep` follow from those rather than from some
forty actions. `ClaimsOnly` and `FutureStep` say the same of the responders and the
futures, and `AnswerableStep` combines them: a waiting, unclaimed request does not lose
its owner. `ListedStep` goes through the actions that change a list or a hand. The
lemmas on sequences at the top (`Append`, `Tail`, `RemoveAt`, prefixes) state the
members and the injectivity of each.

The later theorems build on `Ownership`:

* The refinement maps a request to the stage its client and its context are in (`Stage`)
  and needs `HandOvers`: a request is counted as handed over once, when its worker admits
  it and never while it is in the channel (`CountedOnce`); only such a request gets the
  app's head (`HeadsFromApp`); a 413 has no context at all (`RefusedNowhere`). Each action
  is then a hand-over, an answer, or a stutter of `RequestPromise`.
* `NothingLost` needs `Departures`: in a shutdown that has met its deadline nobody was
  interrupted, a worker that was not retired leaves only a disconnected queue
  (`LeavesInTime`), and not everybody is retired (`SomeoneStays`). Somebody is therefore
  there to empty the queue, and left it empty.
* `GaugeExact` follows the set of running futures: every step adds one, removes one or
  leaves it alone, and the gauge with it.
* `ListAccounted` (what is on a slot's list is answered or in its worker's hands, unless
  the worker died on it) and `GarbageFound` (an abandoned context is answered or on the
  list of a crashed worker still to be aborted) are the invariants of the last two.

`ConnectionsProofs` proves, for any connections, shards, cap and either topology:

* `PermitsKept`: `Spec => []PermitsExact`;
* `LoadsKept`: `Spec => []LoadsExact`;
* `ReadyKept`: `Spec => ReadyNeverTurnsDeaf`. Its body is a box inside a box: from a
  moment at which the server says ready and accepts, ready without an accept loop is
  excluded for good.

Its invariant `Core` adds to `TypeOK` that the permits add up (`PermitSum`), that the
connection in the accept loop's hand is one that holds a permit (`HandHeld`), that a
connection has no home before it is sent (`NotYetHome`), and that a shard's counter covers
the connections it was sent, those of a dead shard included (`LoadCovers`). Without them a
decrement could take a counter below zero or a permit could be counted twice.
`NotStarted` and `ReadyWindow` say when the server may call itself ready, and
`HeardReady`, which no step leaves, that past that point no loop has ended, or is about
to, under a ready state.

`WorkerPoolProofs` proves, for any number of slots, workers, threads per worker, crashes
and replacements:

* `SlotsOwned`: `Spec => []SlotOwnedOnce`;
* `SlotsFound`: `Spec => []NoSlotLost`;
* `PoolKeepsFloor`: `Spec => []FloorKept`.

Its invariant `Core` is `Shape`, `Errands` (what the monitor and the scaler carry between
two steps of theirs), `Hands` (a supervisor's slots match its line), `Owners` (the
sharper form of one owner per slot), `Marks` and `NoSlotLost`. `Marks` says where a
retirement mark can be: on the slots of a worker that is leaving, in the bank, or on
slots lost to a crash, never on a starting worker's. It is what lets a crash, a
retirement and a replacement of the same worker overlap. `FloorKept` needs `Margin` as
well: the floor, plus one for a retirement that is decided and not yet done. The lemmas
go by the way a step treats the slots (claimed, released, handed over, left alone).

`ResponseStreamProofs` proves, for every body shape, number of chunks, buffer size and
worker mode:

* `BackstopComplete`: `Spec => []BackstopLeavesNothing`;
* `EachArrivesWhole`: `Spec => []EachEndsComplete`.

`Core` ties the oneshot, the sender and the receiver to the line `serve` is at: the head
is claimed without being sent only inside `send_stream_head`, no stream is open without a
claim, a Drop starts after the worker is through. For a whole body two more parts are
needed. `Continues`: up to its first error frame, the channel continues what the client
got. `Released`: nobody lets go of an `each` body's sender but for an error frame, sent
or about to be, or for the end of the body. `Released` is false of `call` bodies, whose
`ensure stream.close` lets go after a raise; that is why the theorem is about `each`
bodies and the run `stream` checks nothing stronger of the others. Every step does one
of five things to the frames (`StreamSteps`).

`LaneDispatchProofs` proves, for any requests, slots, lane depth and faults:

* `NobodyLeftBehind`: `Spec => []NoOrphanedLane`;
* `OneLaneOrHand`: `Spec => []OnePlace`.

The first needs `Shut`: a worker that is gone left a lane that takes nothing, retired or
closed; an abort closes a lane before it drains it; and nobody is interrupted before the
teardown. It also needs that a scan aims at registered slots (`Scans`). The second needs
the bank's entries to be distinct and free (`Tables`), hands that match the worker's
line (`Hands`), that the aborts answered what a crashed worker held (`Freed`), and
`Once`, `NotYet` and `Kept`: no context twice, none before it is dispatched, none lost
while its client waits. Every step does one of five things to lanes and hands
(`MovesOnly`). The theorems assume that 0, which stands for an empty hand, is no request.

`EnvStringsProofs` proves, for any workers, heap, slabs and requests, and for one
collector for all ractors or one for each:

* `PinsHold`: `Spec => []PinnedLive`;
* `SlabAgrees`: `Spec => []SlabExact`;
* `CachedStringsLive`: `Spec => []CachedLive`;
* `EnvIsOwn`: `Spec => []EnvOwn`.

For the pins the invariant says that two buffers never share a slot, that a pinned body is
shareable where ractors collect for themselves, and that the body in a worker's frame is
its own. For the caches `CacheInv` adds that an entry's root holds its string
(`RootsHeld`), that no two strings share a root (`RootsOwn`), that every root in use is an
entry's (`RootsUsed`), that an entry says what its key says and outlives every collection
(`CacheSays`), and what each worker has in its frame and its env at each line of its
lookup (`Hands`). A cache is a sequence in order of use; the lemmas on it say which
entries a lookup, a store, an upgrade and an eviction keep. The theorems do not depend on
the slab being large enough: a scan that finds no room leaves cache and slab alone.

`RequestBodyProofs` proves, for any body, frames, cap, channel capacity, chunk size and
sequence of reads:

* `BytesKeepOrder`: `Spec => []BytesInOrder`;
* `EofOnlyWhenWhole`: `Spec => []LiveEofIsWhole`.

A byte is its position in the body, so each place that can hold bytes (what the app got,
`Input`'s buffer, the chunk `read_body` assembles, its leftover, the frames of the channel)
holds an interval. `Whole` says that there are cut points at which these intervals join,
from the first byte to the last that hyper yielded. Reads move a cut point, a split
inserts one, the greedy drain joins two. `Reading` and `Forwarding` tie the lines of the
reader and the forwarder to the channel and the flags; `Ending` says that `Input` takes
for the end only that of a body which the forwarder did not abandon, with nothing left in
the channel.

`TelemetryProofs` proves, for any requests, slots, batch size, histogram bounds, readers,
cap and log depth:

* `ReportsAreTrue`: `Spec => []ReportTrue`.

The run has one slot; the theorem has any number of them, which matters because a report
walks over them while each moves. `Batches` ties a slot's sensors to the line its worker
is at: the stamp of a batch is written before the request is counted, which is the order
`queue.rs:139-141` keeps and the mutant `AdmitCountsFirst` breaks. It holds through resets,
which clear the count before the stamp, and through aborts, which clear the count of a
worker that may be alive. `Alone` keeps resets out of the monitor's reports. `Scanning`
says how far a report has come and that a slot it has seen busy has a young enough stamp,
unless it was reset since (`torn`). `Counts` relates sums: the server's count is the sum
over the slots of what they counted under all their workers, which is not less than what
they show since their last reset, plus one for those in between; the histogram's total
lacks the requests being admitted. A report that is half read compares with a partial sum.

**Sums and concatenations without recursion.** The provers cannot instantiate an
induction theorem that takes an operator. Where a property is about a sum or a
concatenation, the invariant carries the witness instead: the function of partial sums
(`RowsFit`, `WaitsFit`) or the cut points of the body (`Pieces`, `Coming`). A step then only has to
say what it does to the witness. The little induction that is left uses `LeastNatural`,
that a non-empty set of naturals has a least element, proved from the library's
theorem about `<`.

The inductive invariants were checked by TLC, on the runs' constants or smaller, before
they were proved. Every invariant and every action property the runs check, and the
refinement, is now also a theorem. Only model-checked is what needs fairness:
`EveryRequestSettles`, `ShutdownReturns`, `CloseReleasesWorkers`, `BacklogStolen`,
`EveryExchangeEnds`, `WorkerReleased`, `ReadReturns`, `ForwarderStops`, `BootReturns`,
`DrainEmpties`, `GcCompletes`, `LogDrains` and `ProbeEnds`. Liveness under fairness and
`ENABLED` are out of the prover's reach. No module uses a `RECURSIVE` operator.

## 6. What could come next

1. Models: the threaded pool's groups, which differ from the ractor supervisor's tables;
   start-up with its pidfile and signal handling.
2. A common abstract specification for the two dispatchers: `LaneDispatch` could be shown
   to implement the part of `RequestPromise` that its state tells apart.
3. The safety facts that the liveness properties rest on (a waiter that is always woken, a
   slot in which a parked sender always has a partner) as invariants with proofs.

## 7. Not modelled

* TLS, configuration, the CLI and option checks, formatting of logs and headers,
  `build_env`'s translation of a head into a hash: input and output, or sequential code
  that the repository's specs exercise.
* The threaded pool's own groups. A crash there is not replaced and its group keeps
  counting as active (`threaded_pool.rb:147`); `SharedQueue` and `ResponseStream` run in
  threaded mode, `WorkerPool` is the ractor supervisor's.
* The pidfile and signals (`server.rb:454` and around): their races are between
  processes, through the file system.
* Paths taken only when an allocation or a thread fails: errors of `admit`'s Ruby calls
  (`queue.rs:153`, `:156`); `Ractor.new` raising in a respawn (`ractor_supervisor.rb:211`,
  outside the `begin`), which ends the supervisor thread with the slots it had claimed, so
  that nobody holds them and `NoSlotLost` would not hold.
* Malformed host texts, which the header's parser (`request.rs:495-503`) and the
  authority's (`request.rs:234-238`) may read differently although they share a cache key;
  the rollback of a half-rooted entry (`env_strings.rs:161-174`), which happens under the
  cache lock and is modelled as a claim of nothing; the keepers' release at the end of
  `shutdown` (`server.rb:240-242`), which trusts a runtime shutdown bounded at a second.
* The histogram's sum and count (`registry.rs:232-233`), which no property relates to
  anything. A worker whose `ractor_supervisor.rb:152` has marked some of its slots: only
  the monitor, which is the one marking, looks at the marks in `WorkerPool`, and the sample
  it works from there is taken at one instant; `Telemetry` reads it atomic by atomic.
* In `Telemetry` the slot table is fixed (a registration waits for the write lock while a
  report reads), a crashed worker's slot is never reused, and an abort of a live worker's
  slot may answer and clear in any order, which allows more than the code does.
* hyper, flume, tokio, the Ruby VM and its collector are modelled by how `src/` uses them
  (marked external in the map where a definition stands for one).
