------------------------------- MODULE Telemetry -------------------------------
(***************************************************************************)
(* What Kino says about itself: the sensors a worker writes while it       *)
(* admits a request, and others when it has crashed or its slot is handed  *)
(* on (queue.rs, registry.rs, server.rs), the snapshot the control plane   *)
(* and the quarantine monitor read from them on threads of their own       *)
(* (control.rs), the control plane's connections, and the access log with  *)
(* its sink and flusher (access_log.rs, logsink.rs).                       *)
(*                                                                         *)
(* Every sensor is an atomic of its own and nothing locks them together:   *)
(* each access is a step.  They are seen in program order, as on x86-64    *)
(* (README, "Memory order").  The clock is in ticks.  Requests wait in no  *)
(* particular order; SharedQueue has the queue.                            *)
(***************************************************************************)
EXTENDS Naturals, Sequences, FiniteSets

CONSTANTS
  Requests,
  Slots,       \* worker slots, 1 .. n
  Batch,       \* requests a worker takes at once
  Bounds,      \* upper bounds of the queue-wait buckets, ascending
  Timeout,     \* quarantine_timeout
  Probes,      \* connections monitoring clients will open
  ControlCap,  \* CONTROL_MAX_CONNECTIONS
  SinkDepth,   \* lines the log channel holds
  Configs,     \* what is switched on, and the bounds: who arrives, how far the clock goes,
               \* whether it is shut down
  Nobody

ASSUME TelemetryAssumption ==
  /\ IsFiniteSet(Requests) /\ IsFiniteSet(Probes)
  /\ IsFiniteSet(Slots) /\ Slots = 1 .. Cardinality(Slots) /\ Batch \in Nat \ {0}
  /\ Bounds \in Seq(Nat) /\ Timeout \in Nat
  /\ ControlCap \in Nat \ {0} /\ SinkDepth \in Nat \ {0}
  /\ Configs \subseteq [log : BOOLEAN, control : BOOLEAN, quarantine : BOOLEAN,
                        elastic : BOOLEAN, crashes : BOOLEAN,
                        requests : SUBSET Requests, probes : SUBSET Probes, ticks : Nat, stops : BOOLEAN]
  /\ Nobody \notin Probes \cup {"monitor"} /\ "monitor" \notin Probes

VARIABLES
  config,      \* what the server was started with
  clock,
  main,        \* Server#shutdown: up, draining, closed, stopping, down
  front,       \* request -> where its handler stands
  enqueued,    \* request -> when it was sent to the queue
  waiting,     \* requests in the queue
  at,          \* slot -> where its worker stands in take, admit and app, or
               \* what has become of the slot
  hand,        \* slot -> the batch taken since the last checkout
  stint,       \* slot -> when its first request was taken, while it has one
  served, row, started, inFlight,  \* the counters, in all and per slot
  histogram,   \* bucket -> count, the last one being the overflow
  quarantined, \* slots given up as wedged
  scan,        \* the snapshot being read
  torn,        \* history: slots reset between the report's loads of in_flight and stamp
  probe,       \* monitoring connections
  control,     \* the kino-control thread
  lines,       \* the sink's channel
  written, flushed, \* what the flusher has put out
  flusher

frontVars == <<front, enqueued, waiting>>
workVars  == <<at, hand, stint>>
sensors   == <<served, row, started, inFlight, histogram>>
readVars  == <<scan, torn, quarantined>>
logVars   == <<lines, written, flushed, flusher>>
ctlVars   == <<probe, control>>
vars == <<config, clock, main, frontVars, workVars, sensors, readVars, ctlVars, logVars>>

Buckets == 1 .. Len(Bounds) + 1
NoScan == [by |-> Nobody, at |-> "idle", now |-> 0, next |-> 1, seen |-> FALSE,
           busy |-> <<>>, rows |-> 0, served |-> 0, total |-> 0, age |-> <<>>]

Init ==
  /\ config \in Configs /\ clock = 0 /\ main = "up"
  /\ front = [r \in Requests |-> "new"] /\ enqueued = [r \in Requests |-> 0] /\ waiting = {}
  /\ at = [s \in Slots |-> "take"] /\ hand = [s \in Slots |-> <<>>] /\ stint = [s \in Slots |-> 0]
  /\ served = 0 /\ row = [s \in Slots |-> 0] /\ started = [s \in Slots |-> 0]
  /\ inFlight = [s \in Slots |-> 0] /\ histogram = [b \in Buckets |-> 0]
  /\ quarantined = {} /\ scan = NoScan /\ torn = {}
  /\ probe = [p \in Probes |-> "new"]
  /\ control = IF config.control THEN "serving" ELSE "off"
  /\ lines = <<>> /\ written = {} /\ flushed = {}
  /\ flusher = IF config.log THEN "recv" ELSE "off"

Tick ==
  /\ clock < config.ticks /\ clock' = clock + 1
  /\ UNCHANGED <<config, main, frontVars, workVars, sensors, readVars, ctlVars, logVars>>

-----------------------------------------------------------------------------
(* The access log                                                          *)

\* a full channel drops the line
WriteLine(line) ==
  /\ lines' = IF config.log /\ Len(lines) < SinkDepth THEN Append(lines, line) ELSE lines
  /\ UNCHANGED <<written, flushed, flusher>>

Arrow(r) == [of |-> r, kind |-> "arrival"]
Answer(r) == [of |-> r, kind |-> "completion"]

\* The sink goes with the server: the registry holds it until the shutdown
\* is over, and so do handlers, the control thread, whoever reads the
\* sensors, a worker from checkout to app, and who resets a slot.
SinkOpen ==
  \/ main # "down" \/ control # "off" \/ scan.by # Nobody
  \/ \E r \in Requests : front[r] \in {"open", "answered", "refused"}
  \/ \E s \in Slots : at[s] \notin {"app", "crashed", "free", "gone"}

\* mutant: the channel is not looked at again once it is closed
FlushExits ==
  /\ flusher = "recv"
  /\ IF ~SinkOpen THEN flusher' = "gone" /\ flushed' = written /\ UNCHANGED <<lines, written>>
     ELSE /\ lines # <<>>
          /\ written' = written \cup {Head(lines)} /\ lines' = Tail(lines)
          /\ flusher' = "drain" /\ UNCHANGED flushed

\* block for a line; without a sender and without a line, flush and exit
FlushRecv ==
  /\ flusher = "recv"
  /\ IF lines # <<>>
     THEN /\ written' = written \cup {Head(lines)} /\ lines' = Tail(lines)
          /\ flusher' = "drain" /\ UNCHANGED flushed
     ELSE /\ ~SinkOpen /\ flusher' = "gone" /\ flushed' = written
          /\ UNCHANGED <<lines, written>>

\* then whatever else is queued, and one flush
FlushDrain ==
  /\ flusher = "drain"
  /\ IF lines # <<>>
     THEN /\ written' = written \cup {Head(lines)} /\ lines' = Tail(lines)
          /\ UNCHANGED <<flusher, flushed>>
     ELSE /\ flusher' = "recv" /\ flushed' = written
          /\ UNCHANGED <<lines, written>>

Flush ==
  /\ FlushRecv \/ FlushDrain
  /\ UNCHANGED <<config, clock, main, frontVars, workVars, sensors, readVars, ctlVars>>

-----------------------------------------------------------------------------
(* A request's handler                                                     *)

\* the arrival line first, then the queue
Arrive(r) ==
  /\ front[r] = "new" /\ r \in config.requests /\ main \in {"up", "draining"}
  /\ front' = [front EXCEPT ![r] = "open"]
  /\ enqueued' = [enqueued EXCEPT ![r] = clock] /\ waiting' = waiting \cup {r}
  /\ WriteLine(Arrow(r))
  /\ UNCHANGED <<config, clock, main, workVars, sensors, readVars, ctlVars>>

\* or the body is too large, the queue full, or, for a connection kept alive
\* into the drain, closed
Refuse(r) ==
  /\ front[r] = "new" /\ r \in config.requests /\ main \in {"up", "draining", "closed"}
  /\ front' = [front EXCEPT ![r] = "refused"]
  /\ WriteLine(Arrow(r))
  /\ UNCHANGED <<config, clock, main, enqueued, waiting, workVars, sensors, readVars, ctlVars>>

\* the head came from a worker, or there is none to wait for
Complete(r) ==
  /\ front[r] \in {"answered", "refused"}
  /\ front' = [front EXCEPT ![r] = "done"]
  /\ WriteLine(Answer(r))
  /\ UNCHANGED <<config, clock, main, enqueued, waiting, workVars, sensors, readVars, ctlVars>>

\* or the timer fires first; line and answer in the same poll
RequestTimeout(r) ==
  /\ front[r] = "open"
  /\ front' = [front EXCEPT ![r] = "done"]
  /\ WriteLine(Answer(r))
  /\ UNCHANGED <<config, clock, main, enqueued, waiting, workVars, sensors, readVars, ctlVars>>

\* hyper drops the future: an arrow with no answer
Abort(r) ==
  /\ front[r] \in {"open", "answered", "refused"}
  /\ front' = [front EXCEPT ![r] = "done"]
  /\ UNCHANGED <<config, clock, main, enqueued, waiting, workVars, sensors, readVars, ctlVars, logVars>>

-----------------------------------------------------------------------------
(* A worker: checkout, the admission of a batch, the app                   *)

InBatch(s) == {hand[s][i] : i \in DOMAIN hand[s]}

Goes(s, to) == at' = [at EXCEPT ![s] = to]

\* the first request of a batch, popped from the queue
Take(s, r) ==
  /\ at[s] = "take" /\ r \in waiting
  /\ waiting' = waiting \ {r} /\ hand' = [hand EXCEPT ![s] = <<r>>]
  /\ stint' = [stint EXCEPT ![s] = clock] /\ Goes(s, "served")
  /\ UNCHANGED <<config, clock, main, front, enqueued, sensors, readVars, ctlVars, logVars>>

\* mutant: the slot counts the request before its stamp is written
AdmitCountsFirst(s) ==
  \/ /\ at[s] = "served" /\ Goes(s, "row") /\ served' = served + 1
     /\ UNCHANGED <<row, started, inFlight, histogram>>
  \/ /\ at[s] = "row" /\ Goes(s, "stamp") /\ row' = [row EXCEPT ![s] = @ + 1]
     /\ UNCHANGED <<served, started, inFlight, histogram>>
  \/ /\ at[s] = "stamp" /\ Goes(s, "count") /\ inFlight' = [inFlight EXCEPT ![s] = @ + 1]
     /\ UNCHANGED <<served, row, started, histogram>>
  \/ /\ at[s] = "count" /\ Goes(s, "record") /\ started' = [started EXCEPT ![s] = clock]
     /\ UNCHANGED <<served, row, inFlight, histogram>>

\* admit: one atomic after the other
Admit(s) ==
  \/ /\ at[s] = "served" /\ Goes(s, "row") /\ served' = served + 1
     /\ UNCHANGED <<row, started, inFlight, histogram>>
  \/ /\ at[s] = "row" /\ Goes(s, "stamp") /\ row' = [row EXCEPT ![s] = @ + 1]
     /\ UNCHANGED <<served, started, inFlight, histogram>>
  \/ /\ at[s] = "stamp" /\ Goes(s, "count") /\ started' = [started EXCEPT ![s] = clock]
     /\ UNCHANGED <<served, row, inFlight, histogram>>
  \/ /\ at[s] = "count" /\ Goes(s, "record") /\ inFlight' = [inFlight EXCEPT ![s] = @ + 1]
     /\ UNCHANGED <<served, row, started, histogram>>

\* the first bucket whose bound the wait does not exceed, or the overflow
BucketOf(wait) ==
  CHOOSE b \in Buckets : /\ b <= Len(Bounds) => wait <= Bounds[b]
                         /\ \A c \in 1 .. b - 1 : wait > Bounds[c]

\* QueueHistogram::record, for the request admitted last; its sum and its
\* count, which no report relates to anything, are left out
Record(s) ==
  /\ at[s] = "record" /\ Goes(s, "more")
  /\ LET r == hand[s][Len(hand[s])]
     IN  histogram' = [histogram EXCEPT ![BucketOf(clock - enqueued[r])] = @ + 1]
  /\ UNCHANGED <<served, row, started, inFlight>>

AdmitStep(s) ==
  /\ Admit(s) \/ Record(s)
  /\ UNCHANGED <<config, clock, main, frontVars, hand, stint, readVars, ctlVars, logVars>>

\* take_batch: more without waiting, until the batch is full or the queue empty
TakeMore(s, r) ==
  /\ at[s] = "more" /\ Len(hand[s]) < Batch /\ r \in waiting
  /\ waiting' = waiting \ {r} /\ hand' = [hand EXCEPT ![s] = Append(@, r)] /\ Goes(s, "served")
  /\ UNCHANGED <<config, clock, main, front, enqueued, stint, sensors, readVars, ctlVars, logVars>>

StartApp(s) ==
  /\ at[s] = "more" /\ (Len(hand[s]) = Batch \/ waiting = {}) /\ Goes(s, "app")
  /\ UNCHANGED <<config, clock, main, frontVars, hand, stint, sensors, readVars, ctlVars, logVars>>

\* the app answers; one already timed out or aborted it answers into the void
AppAnswers(s, r) ==
  /\ at[s] = "app" /\ r \in InBatch(s) /\ front[r] = "open"
  /\ front' = [front EXCEPT ![r] = "answered"]
  /\ UNCHANGED <<config, clock, main, enqueued, waiting, workVars, sensors, readVars, ctlVars, logVars>>

\* back for more: the slot is idle, unless the server is gone
Checkout(s) ==
  /\ at[s] = "app" /\ \A r \in InBatch(s) : front[r] # "open"
  /\ hand' = [hand EXCEPT ![s] = <<>>] /\ stint' = [stint EXCEPT ![s] = 0]
  /\ IF SinkOpen THEN Goes(s, "take") /\ inFlight' = [inFlight EXCEPT ![s] = 0]
                 ELSE Goes(s, "gone") /\ UNCHANGED inFlight
  /\ UNCHANGED <<config, clock, main, frontVars, served, row, started, histogram, readVars,
                 ctlVars, logVars>>

\* a closed and empty queue answers nil, and so does an empty one to a
\* worker the pool scaler retires
WorkerLeaves(s) ==
  /\ at[s] = "take" /\ waiting = {} /\ (main \notin {"up", "draining"} \/ config.elastic)
  /\ Goes(s, "free")
  /\ UNCHANGED <<config, clock, main, frontVars, hand, stint, sensors, readVars, ctlVars, logVars>>

\* the worker's ractor dies in the app, or is killed at the end of the drain
Crash(s) ==
  /\ at[s] = "app" /\ (config.crashes \/ main = "closed") /\ Goes(s, "crashed")
  /\ UNCHANGED <<config, clock, main, frontVars, hand, stint, sensors, readVars, ctlVars, logVars>>

-----------------------------------------------------------------------------
(* The other writers of a slot's sensors.  They are calls of the main      *)
(* ractor, as worker_stats is, so the monitor's reads fall between them.   *)

MonitorReads == scan.by = "monitor" /\ scan.at # "ready"

\* SlotBank#claim hands the slot to a new worker: WorkerSlot::reset
Reset(s) ==
  \/ /\ at[s] = "free" /\ config.elastic /\ main \in {"up", "draining"} /\ ~MonitorReads
     /\ Goes(s, "reset_flight") /\ row' = [row EXCEPT ![s] = 0]
     /\ UNCHANGED <<inFlight, started, torn>>
  \/ /\ at[s] = "reset_flight" /\ Goes(s, "reset_stamp") /\ inFlight' = [inFlight EXCEPT ![s] = 0]
     /\ UNCHANGED <<row, started, torn>>
  \/ /\ at[s] = "reset_stamp" /\ Goes(s, "take") /\ started' = [started EXCEPT ![s] = 0]
     /\ torn' = IF scan.at = "started" /\ scan.next = s THEN torn \cup {s} ELSE torn
     /\ UNCHANGED <<row, inFlight>>

ResetStep(s) ==
  /\ Reset(s)
  /\ UNCHANGED <<config, clock, main, frontVars, hand, stint, served, histogram, scan, quarantined,
                 ctlVars, logVars>>

\* abort_slot, for a crashed worker's slot, and for every slot when the
\* drain has missed its deadline
Aborting(s) == (at[s] = "crashed" /\ main \in {"up", "draining"}) \/ main = "closed"

\* first its requests are answered
AbortAnswers(s, r) ==
  /\ Aborting(s) /\ r \in InBatch(s) /\ front[r] = "open"
  /\ front' = [front EXCEPT ![r] = "answered"]
  /\ UNCHANGED <<config, clock, main, enqueued, waiting, workVars, sensors, readVars, ctlVars, logVars>>

\* then its counter is cleared, under the hands of a worker that is alive
\* and may have taken more
AbortClears(s) ==
  /\ Aborting(s) /\ ~MonitorReads
  /\ at[s] = "crashed" => \A r \in InBatch(s) : front[r] # "open"
  /\ inFlight' = [inFlight EXCEPT ![s] = 0]
  /\ IF at[s] = "crashed"
     THEN Goes(s, "gone") /\ hand' = [hand EXCEPT ![s] = <<>>] /\ stint' = [stint EXCEPT ![s] = 0]
     ELSE UNCHANGED workVars
  /\ UNCHANGED <<config, clock, main, frontVars, served, row, started, histogram, readVars, ctlVars,
                 logVars>>

-----------------------------------------------------------------------------
(* StatsSnapshot::take and collect_worker_status                           *)

\* Age of a worker's batch: what busy_ms must not exceed.
Age(s) == IF at[s] \in {"take", "free", "reset_flight", "reset_stamp", "gone"} THEN 0
          ELSE clock - stint[s]

\* one "now" for every row; the reads of one reader at a time are followed,
\* since a reader disturbs no other
ScanBegin(reader) ==
  /\ scan.by = Nobody
  /\ scan' = [NoScan EXCEPT !.by = reader, !.at = "row", !.now = clock,
                            !.age = [s \in Slots |-> Age(s)]]
  /\ torn' = {}

ScanQuarantined ==
  /\ scan.at = "row" /\ scan.next \in Slots
  /\ scan' = [scan EXCEPT !.at = "flight", !.seen = scan.next \notin quarantined]

ScanInFlight ==
  /\ scan.at = "flight"
  /\ scan' = [scan EXCEPT !.at = "started", !.seen = @ /\ inFlight[scan.next] # 0]

\* now.saturating_sub(started)
BusyFor(s) == IF scan.seen /\ scan.now > started[s] THEN scan.now - started[s] ELSE 0

ScanStarted ==
  /\ scan.at = "started"
  /\ scan' = [scan EXCEPT !.at = "slotServed", !.busy = Append(@, BusyFor(scan.next))]

ScanSlotServed ==
  /\ scan.at = "slotServed"
  /\ scan' = [scan EXCEPT !.at = "row", !.next = @ + 1, !.rows = @ + row[scan.next]]

\* worker_stats is done after the rows, a snapshot goes on
ScanServed ==
  /\ scan.at = "row" /\ scan.next \notin Slots
  /\ scan' = [scan EXCEPT !.at = IF scan.by = "monitor" THEN "ready" ELSE "histogram",
                          !.next = 1,
                          !.served = IF scan.by = "monitor" THEN 0 ELSE served]

ScanBucket ==
  /\ scan.at = "histogram"
  /\ scan' = [scan EXCEPT !.total = @ + histogram[scan.next], !.next = @ + 1,
                          !.at = IF scan.next = Len(Bounds) + 1 THEN "ready" ELSE @]

Scan ==
  /\ \/ ScanQuarantined \/ ScanInFlight \/ ScanStarted \/ ScanSlotServed \/ ScanServed
     \/ ScanBucket
  /\ UNCHANGED <<config, clock, main, frontVars, workVars, sensors, torn, quarantined, ctlVars,
                 logVars>>

\* the monitor's tick, until the shutdown stops it
MonitorScan ==
  /\ config.quarantine /\ main = "up" /\ ScanBegin("monitor")
  /\ \A s \in Slots : at[s] \notin {"reset_flight", "reset_stamp"}
  /\ UNCHANGED <<config, clock, main, frontVars, workVars, sensors, quarantined, ctlVars, logVars>>

\* every row past the timeout is given up (WorkerPool has the replacement)
MonitorActs ==
  /\ scan.by = "monitor" /\ scan.at = "ready"
  /\ quarantined' = quarantined \cup {s \in Slots : scan.busy[s] > Timeout}
  /\ scan' = NoScan
  /\ UNCHANGED <<config, clock, main, frontVars, workVars, sensors, torn, ctlVars, logVars>>

-----------------------------------------------------------------------------
(* The control plane's connections                                         *)

ProbeGoes(p, to) == probe' = [probe EXCEPT ![p] = to]
Unaffected == UNCHANGED <<config, clock, main, frontVars, workVars, sensors, quarantined, logVars>>
Accepted == {p \in Probes : probe[p] \in {"open", "asked", "replying"}}

\* handle runs to its end on the one thread of the control runtime
ControlFree == scan.by \notin Probes

Connect(p) ==
  /\ probe[p] = "new" /\ p \in config.probes /\ control # "off" /\ ProbeGoes(p, "backlog")
  /\ Unaffected /\ UNCHANGED <<control, scan, torn>>

\* past the cap the connection is dropped
Accept(p) ==
  /\ probe[p] = "backlog" /\ control = "serving" /\ ControlFree
  /\ ProbeGoes(p, IF Cardinality(Accepted) < ControlCap THEN "open" ELSE "closed")
  /\ Unaffected /\ UNCHANGED <<control, scan, torn>>

\* out of descriptors: 100 ms away from the listener
AcceptFails ==
  /\ control = "serving" /\ ControlFree /\ \E p \in Probes : probe[p] = "backlog"
  /\ control' = "backoff"
  /\ Unaffected /\ UNCHANGED <<probe, scan, torn>>

BackoffEnds ==
  /\ control = "backoff" /\ ControlFree /\ control' = "serving"
  /\ Unaffected /\ UNCHANGED <<probe, scan, torn>>

\* the client sends its request, or never does
Ask(p) ==
  /\ probe[p] = "open" /\ ProbeGoes(p, "asked")
  /\ Unaffected /\ UNCHANGED <<control, scan, torn>>

\* Every request takes a snapshot, whatever its path, method or token.
Handle(p) ==
  /\ probe[p] = "asked" /\ ControlFree /\ ScanBegin(p)
  /\ Unaffected /\ UNCHANGED <<probe, control>>

\* the snapshot is rendered and hyper starts to write it
Respond(p) ==
  /\ scan.by = p /\ scan.at = "ready" /\ probe[p] = "asked" /\ ProbeGoes(p, "replying")
  /\ scan' = NoScan
  /\ Unaffected /\ UNCHANGED <<control, torn>>

\* no keep-alive: once the client has read it, the connection closes
Replied(p) ==
  /\ probe[p] = "replying" /\ ControlFree /\ ProbeGoes(p, "closed")
  /\ Unaffected /\ UNCHANGED <<control, scan, torn>>

\* mutant: only a connection whose request has arrived has a deadline
DeadlineFromRequest(p) ==
  /\ probe[p] = "asked" /\ ControlFree /\ ProbeGoes(p, "closed")
  /\ Unaffected /\ UNCHANGED <<control, scan, torn>>

\* CONTROL_DEADLINE, from the accept on
Deadline(p) ==
  /\ p \in Accepted /\ ControlFree /\ ProbeGoes(p, "closed")
  /\ Unaffected /\ UNCHANGED <<control, scan, torn>>

-----------------------------------------------------------------------------
(* Server#shutdown, as far as it concerns the above                        *)

\* the monitors are stopped and joined, then the drain begins
Drain ==
  /\ main = "up" /\ config.stops /\ scan.by # "monitor" /\ main' = "draining"
  /\ UNCHANGED <<config, clock, frontVars, workVars, sensors, readVars, ctlVars, logVars>>

\* close_queue, when the drain is over or has missed its deadline
CloseQueue ==
  /\ main = "draining" /\ main' = "closed"
  /\ UNCHANGED <<config, clock, frontVars, workVars, sensors, readVars, ctlVars, logVars>>

\* shutdown_runtime drops every handler still running
RuntimeDown ==
  /\ main = "closed" /\ main' = "stopping"
  /\ front' = [r \in Requests |-> IF front[r] = "new" THEN "new" ELSE "done"]
  /\ UNCHANGED <<config, clock, enqueued, waiting, workVars, sensors, readVars, ctlVars, logVars>>

\* control_stop joins the thread, which looks up only between two connections
ControlStop ==
  /\ main = "stopping" /\ control # "backoff" /\ ControlFree
  /\ main' = "down" /\ control' = "off"
  /\ probe' = [p \in Probes |-> IF probe[p] = "new" THEN "new" ELSE "closed"]
  /\ UNCHANGED <<config, clock, frontVars, workVars, sensors, readVars, logVars>>

Next ==
  \/ Tick \/ Flush \/ Scan \/ MonitorScan \/ MonitorActs \/ AcceptFails \/ BackoffEnds
  \/ \E r \in Requests : Arrive(r) \/ Refuse(r) \/ Complete(r) \/ RequestTimeout(r) \/ Abort(r)
  \/ \E s \in Slots : \/ AdmitStep(s) \/ StartApp(s) \/ Checkout(s) \/ WorkerLeaves(s)
                       \/ Crash(s) \/ ResetStep(s) \/ AbortClears(s)
  \/ \E s \in Slots, r \in Requests :
       Take(s, r) \/ TakeMore(s, r) \/ AppAnswers(s, r) \/ AbortAnswers(s, r)
  \/ \E p \in Probes : \/ Connect(p) \/ Accept(p) \/ Ask(p) \/ Handle(p) \/ Respond(p)
                        \/ Replied(p) \/ Deadline(p)
  \/ Drain \/ CloseQueue \/ RuntimeDown \/ ControlStop

Report == Scan \/ MonitorActs \/ \E p \in Probes : Respond(p)
Work(s) ==
  \/ AdmitStep(s) \/ StartApp(s) \/ (main \notin {"up", "draining"} /\ WorkerLeaves(s))
  \/ (at[s] # "free" /\ ResetStep(s))
  \/ \E r \in Requests : Take(s, r) \/ TakeMore(s, r)

Safe == Init /\ [][Next]_vars

\* Threads run and timers fire; descriptors run out only now and then.
\* Clients, apps and operators promise nothing.
Spec ==
  /\ Safe
  /\ WF_vars(Flush) /\ WF_vars(Report) /\ WF_vars(BackoffEnds)
  /\ \A s \in Slots : WF_vars(Work(s))
  /\ \A p \in Probes : SF_vars(Accept(p)) /\ SF_vars(Deadline(p))

-----------------------------------------------------------------------------
(* Properties                                                              *)

TypeOK ==
  /\ config \in Configs /\ clock \in 0 .. config.ticks
  /\ main \in {"up", "draining", "closed", "stopping", "down"}
  /\ front \in [Requests -> {"new", "open", "answered", "refused", "done"}]
  /\ enqueued \in [Requests -> 0 .. config.ticks] /\ waiting \subseteq Requests
  /\ at \in [Slots -> {"take", "served", "row", "stamp", "count", "record", "more", "app",
                       "crashed", "free", "reset_flight", "reset_stamp", "gone"}]
  /\ \A s \in Slots : Len(hand[s]) <= Batch /\ InBatch(s) \subseteq Requests \ waiting
  /\ inFlight \in [Slots -> 0 .. Batch] /\ started \in [Slots -> 0 .. config.ticks]
  /\ quarantined \subseteq Slots /\ torn \subseteq Slots /\ Len(lines) <= SinkDepth
  /\ probe \in [Probes -> {"new", "backlog", "open", "asked", "replying", "closed"}]
  /\ Cardinality(Accepted) <= ControlCap
  /\ control \in {"serving", "backoff", "off"} /\ flusher \in {"recv", "drain", "gone", "off"}

\* What a report says is true although it is read one atomic at a time
\* while workers, supervisors and the shutdown write (control.rs,
\* collect_worker_status): no slot looks busier than its batch was old at
\* the report's "now", so the monitor never takes an idle or a fresh worker
\* for a wedged one, and the control plane only a slot that was recycled
\* between its loads of in_flight and last_started_ms (control.rs:37-38,
\* registry.rs:306), whose busy_ms is then the whole uptime; the slots have
\* not served more than the server; and the histogram misses at most the
\* requests being admitted.
ReportTrue ==
  /\ TypeOK
  /\ scan.at = "ready" =>
       /\ \A s \in Slots : scan.busy[s] > scan.age[s] => scan.by \in Probes /\ s \in torn
       /\ scan.by \in Probes => /\ scan.rows <= scan.served
                                /\ scan.served <= scan.total + Cardinality(Slots)

\* Once the server is gone the flusher writes and flushes every line that
\* was queued and exits (logsink.rs, Sink::new).
LogDrains ==
  (config.log /\ main = "down") ~> (flusher = "gone" /\ lines = <<>> /\ flushed = written)

\* A monitoring connection ends, be its client stalled before the request or
\* over the response, the cap reached, accepting failing or the server
\* shutting down (control.rs, serve and spawn_connection).
ProbeEnds ==
  \A p \in Probes :
    (probe[p] \in {"backlog", "open", "asked", "replying"}) ~> (probe[p] = "closed")
=============================================================================
