------------------------------ MODULE WorkerPool ------------------------------
(***************************************************************************)
(* The pool of worker ractors: the supervisor threads and their tables     *)
(* (ractor_supervisor.rb), the bank of dispatch slots (slot_bank.rb), the  *)
(* slots' flags (registry.rs), the quarantine monitor that replaces a      *)
(* wedged worker and the scaler that grows and shrinks the pool, each on a *)
(* thread of its own.                                                      *)
(*                                                                         *)
(* A worker thread is idle, in a request for as long as it takes, or gone; *)
(* what it serves is SharedQueue's business.                               *)
(* What the scaler takes for pressure and for idleness is left open, and   *)
(* shutdown is SharedQueue's and LaneDispatch's: the monitors are stopped  *)
(* before it begins.                                                       *)
(***************************************************************************)
EXTENDS Naturals, Sequences, FiniteSets, Functions

CONSTANTS
  Slots,        \* dispatch slots the native side can register
  Threads,      \* threads per ractor
  Floor,        \* workers, the scaler's floor
  Ceiling,      \* max_workers
  Indexes,      \* worker indexes that can be given out: 0 .. n
  MaxOutstanding, \* quarantine_max
  MaxCrashes,   \* app crashes in all
  Nobody

ASSUME WorkerPoolAssumption ==
  /\ IsFiniteSet(Slots) /\ Threads \in Nat \ {0}
  /\ Floor \in Nat \ {0} /\ Ceiling \in Nat /\ Floor <= Ceiling
  /\ Indexes \subseteq Nat /\ 0 .. Floor - 1 \subseteq Indexes
  /\ MaxOutstanding \in Nat /\ MaxCrashes \in Nat

VARIABLES
  registered,  \* the slots in the native table
  retired,     \* slots whose worker is to leave
  quarantined, \* slots abandoned as wedged
  aborted,     \* slots whose clients the supervisor has answered
  thread,      \* slot -> the thread on it
  bank,        \* SlotBank's free list
  live, retiring, replaced, \* RactorSupervisor's tables, sets of indexes
  workerSlots, \* @worker_slots: index -> slot ids
  slotWorker,  \* @slot_to_worker: slot -> the last worker started on it
  ids,         \* supervisor thread's own worker_ids
  sup,         \* index -> where its supervisor thread stands
  nextIndex,   \* @next_worker_index + 1
  mon,         \* the quarantine monitor: [at, slot, index]
  rows,        \* wedged slots of its worker_stats snapshot it has yet to visit
  outstanding, \* its count of replacements
  scaler,      \* the pool scaler: [at, index, slots]
  crashes

slotVars == <<registered, retired, quarantined, aborted, thread, bank>>
tables   == <<live, retiring, replaced, workerSlots, slotWorker, nextIndex>>
supVars  == <<ids, sup>>
monVars  == <<mon, rows, outstanding>>
vars == <<slotVars, tables, supVars, monVars, scaler, crashes>>

MonIdle == [at |-> "idle", slot |-> Nobody, index |-> Nobody]
ScalerIdle == [at |-> "idle", index |-> Nobody, slots |-> <<>>]

Init ==
  /\ registered = {} /\ retired = {} /\ quarantined = {} /\ aborted = {} /\ bank = {}
  /\ thread = [s \in Slots |-> "off"]
  /\ live = 0 .. Floor - 1 /\ retiring = {} /\ replaced = {}
  /\ workerSlots = [i \in Indexes |-> <<>>] /\ slotWorker = [s \in Slots |-> Nobody]
  /\ ids = [i \in Indexes |-> <<>>]
  /\ sup = [i \in Indexes |-> IF i < Floor THEN "spawn" ELSE "off"]
  /\ nextIndex = Floor
  /\ mon = MonIdle /\ rows = {} /\ outstanding = 0 /\ scaler = ScalerIdle
  /\ crashes = 0

-----------------------------------------------------------------------------
(* A worker thread                                                         *)

SetThread(s, x) ==
  /\ thread' = [thread EXCEPT ![s] = x]
  /\ UNCHANGED <<registered, retired, quarantined, aborted, bank>>

Works(s, x, y) ==
  /\ thread[s] = x /\ SetThread(s, y)
  /\ UNCHANGED <<tables, supVars, monVars, scaler, crashes>>

Serve(s)  == Works(s, "idle", "busy")
Finish(s) == Works(s, "busy", "idle")

\* the take loop of a retired slot ends at an idle tick
Leave(s) == s \in retired /\ Works(s, "idle", "left")

\* an Exception of the app ends the thread
Crash(s) ==
  /\ thread[s] = "busy" /\ crashes < MaxCrashes
  /\ SetThread(s, "dead") /\ crashes' = crashes + 1
  /\ UNCHANGED <<tables, supVars, monVars, scaler>>

-----------------------------------------------------------------------------
(* A supervisor thread                                                     *)

SetSup(i, x) == sup' = [sup EXCEPT ![i] = x]

\* spawn_worker, slot by slot: one that came back, made as new except for a
\* quarantine mark, or else the next of the table
Claim(i, s) ==
  /\ sup[i] = "spawn" /\ Len(ids[i]) < Threads
  /\ IF bank # {} THEN s \in bank
     ELSE s \in Slots \ registered /\ \A t \in Slots \ registered : s <= t
  /\ bank' = bank \ {s} /\ registered' = registered \cup {s}
  /\ retired' = retired \ {s}
  /\ ids' = [ids EXCEPT ![i] = Append(@, s)]
  /\ UNCHANGED <<quarantined, aborted, thread, tables, sup, monVars, scaler, crashes>>

\* the slots are the worker's for all to see, and the ractor starts; a
\* Ractor.new that raises, and ends this thread with the slots, is left out
StartRactor(i) ==
  /\ sup[i] = "spawn" /\ Len(ids[i]) = Threads
  /\ workerSlots' = [workerSlots EXCEPT ![i] = ids[i]]
  /\ slotWorker' = [s \in Slots |-> IF s \in Range(ids[i]) THEN i ELSE slotWorker[s]]
  /\ thread' = [s \in Slots |-> IF s \in Range(ids[i]) THEN "idle" ELSE thread[s]]
  /\ aborted' = aborted \ Range(ids[i])
  /\ SetSup(i, "value")
  /\ UNCHANGED <<registered, retired, quarantined, bank, live, retiring, replaced, nextIndex,
                 ids, monVars, scaler, crashes>>

\* the ractor joins its threads in order; the first dead one it meets ends it
RactorCrashed(i) ==
  \E k \in DOMAIN ids[i] : /\ thread[ids[i][k]] = "dead"
                           /\ \A j \in 1 .. k - 1 : thread[ids[i][j]] = "left"

RactorFinished(i) == \A k \in DOMAIN ids[i] : thread[ids[i][k]] = "left"

\* Ractor#value raises: every thread of the ractor is gone, its clients are
\* answered
AbortAll(i) ==
  /\ sup[i] = "value" /\ RactorCrashed(i)
  /\ thread' = [s \in Slots |-> IF s \in Range(ids[i]) THEN "dead" ELSE thread[s]]
  /\ aborted' = aborted \cup Range(ids[i])
  /\ SetSup(i, "crashed")
  /\ UNCHANGED <<registered, retired, quarantined, bank, tables, ids, monVars, scaler, crashes>>

\* respawn on fresh slots, also a worker that was about to leave
Respawn(i) ==
  /\ sup[i] = "crashed"
  /\ retiring' = retiring \ {i}
  /\ ids' = [ids EXCEPT ![i] = <<>>]
  /\ SetSup(i, "spawn")
  /\ UNCHANGED <<slotVars, live, replaced, workerSlots, slotWorker, nextIndex, monVars, scaler, crashes>>

\* mutant: a retired worker is off the tables before its ractor has ended
ExitedEarly(i) ==
  /\ sup[i] = "value" /\ (i \in retiring \/ RactorFinished(i))
  /\ live' = live \ {i} /\ retiring' = retiring \ {i}
  /\ SetSup(i, IF i \in retiring THEN "release" ELSE "done")
  /\ UNCHANGED <<slotVars, replaced, workerSlots, slotWorker, nextIndex, ids, monVars, scaler, crashes>>

\* a clean exit: off the tables first; only a retired worker's slots go back
Exited(i) ==
  /\ sup[i] = "value" /\ RactorFinished(i)
  /\ live' = live \ {i} /\ retiring' = retiring \ {i}
  /\ SetSup(i, IF i \in retiring THEN "release" ELSE "done")
  /\ UNCHANGED <<slotVars, replaced, workerSlots, slotWorker, nextIndex, ids, monVars, scaler, crashes>>

\* mutant: the slots of a retired worker are forgotten
ReleaseForgets(i) ==
  /\ sup[i] = "release"
  /\ SetSup(i, "done")
  /\ UNCHANGED <<slotVars, tables, ids, monVars, scaler, crashes>>

Release(i) ==
  /\ sup[i] = "release"
  /\ bank' = bank \cup Range(ids[i])
  /\ SetSup(i, "done")
  /\ UNCHANGED <<registered, retired, quarantined, aborted, thread, tables, ids,
                 monVars, scaler, crashes>>

-----------------------------------------------------------------------------
(* What the monitors call                                                  *)

\* mutant: a worker that was told to leave still counts
ActiveWithLeaving == live \ replaced

\* workers that stay
Active == live \ (replaced \cup retiring)

\* workers the scaler may retire
Groups == {i \in Active : workerSlots[i] # <<>>}

\* A new index is live from now on, before its supervisor thread exists; a
\* thread that cannot be had leaves it on the table with nobody behind it.
Supervise(i, started) ==
  /\ i = nextIndex /\ i \in Indexes
  /\ nextIndex' = i + 1 /\ live' = live \cup {i}
  /\ IF started THEN SetSup(i, "spawn") ELSE UNCHANGED sup

-----------------------------------------------------------------------------
(* The quarantine monitor                                                  *)

\* slots worker_stats shows in a request, for longer than the timeout if need be
Wedged == {s \in Slots : thread[s] = "busy" /\ s \notin quarantined}

\* The next row of the snapshot, whatever has become of its slot since, or the
\* first of a new one.  At the cap a row is passed over, and a new snapshot
\* would change nothing.
Scan(s) ==
  /\ mon.at = "idle" /\ (rows = {} => outstanding < MaxOutstanding)
  /\ \E R \in IF rows = {} THEN SUBSET Wedged ELSE {rows} :
       s \in R /\ (\A t \in R : s <= t) /\ rows' = R \ {s}
  /\ mon' = IF outstanding < MaxOutstanding THEN [mon EXCEPT !.at = "claim", !.slot = s] ELSE mon
  /\ UNCHANGED <<slotVars, tables, supVars, outstanding, scaler, crashes>>

\* replace is idempotent per ractor
ReplaceClaim ==
  LET i == slotWorker[mon.slot] IN
  /\ mon.at = "claim"
  /\ IF i \in replaced THEN mon' = MonIdle /\ UNCHANGED replaced
     ELSE replaced' = replaced \cup {i} /\ mon' = [mon EXCEPT !.at = "spawn", !.index = i]
  /\ UNCHANGED <<slotVars, live, retiring, workerSlots, slotWorker, nextIndex, supVars, rows, outstanding,
                 scaler, crashes>>

\* spawn first, quarantine only after success
ReplaceSpawn(i) ==
  /\ mon.at = "spawn" /\ Supervise(i, TRUE)
  /\ mon' = [mon EXCEPT !.at = "quarantine"]
  /\ UNCHANGED <<slotVars, retiring, replaced, workerSlots, slotWorker, ids, rows, outstanding,
                 scaler, crashes>>

\* no thread to be had: the exception ends the scan and the next tick may retry
ReplaceFails(i) ==
  /\ mon.at = "spawn" /\ Supervise(i, FALSE)
  /\ replaced' = replaced \ {mon.index} /\ mon' = MonIdle /\ rows' = {}
  /\ UNCHANGED <<slotVars, retiring, workerSlots, slotWorker, ids, outstanding, scaler, crashes>>

\* the marks, set one by one, are read by the monitor alone: one step here
Quarantine ==
  /\ mon.at = "quarantine"
  /\ quarantined' = quarantined \cup Range(workerSlots[mon.index])
  /\ outstanding' = outstanding + 1 /\ mon' = MonIdle
  /\ UNCHANGED <<registered, retired, aborted, thread, bank, tables, supVars, rows, scaler, crashes>>

-----------------------------------------------------------------------------
(* The scaler                                                              *)

\* observe_idle: a worker none of whose slots is in a request
Observe(i) ==
  /\ scaler.at = "idle"
  /\ i \in Groups /\ \A s \in Range(workerSlots[i]) : thread[s] # "busy"
  /\ scaler' = [scaler EXCEPT !.at = "check", !.index = i]
  /\ UNCHANGED <<slotVars, tables, supVars, monVars, crashes>>

Check ==
  /\ scaler.at = "check"
  /\ scaler' = IF Cardinality(Active) > Floor THEN [scaler EXCEPT !.at = "retire"] ELSE ScalerIdle
  /\ UNCHANGED <<slotVars, tables, supVars, monVars, crashes>>

\* retire: on the tables under the lock, then slot by slot
Retire ==
  LET i == scaler.index IN
  /\ scaler.at = "retire"
  /\ IF i \in live /\ i \notin retiring
     THEN /\ retiring' = retiring \cup {i}
          /\ scaler' = [scaler EXCEPT !.at = "flag", !.slots = workerSlots[i]]
     ELSE scaler' = ScalerIdle /\ UNCHANGED retiring
  /\ UNCHANGED <<slotVars, live, replaced, workerSlots, slotWorker, nextIndex, supVars, monVars, crashes>>

RetireSlot ==
  /\ scaler.at = "flag"
  /\ retired' = retired \cup {Head(scaler.slots)}
  /\ scaler' = IF Len(scaler.slots) = 1 THEN ScalerIdle ELSE [scaler EXCEPT !.slots = Tail(@)]
  /\ UNCHANGED <<registered, quarantined, aborted, thread, bank, tables, supVars,
                 monVars, crashes>>

Pressure ==
  /\ scaler.at = "idle" /\ Cardinality(Active) < Ceiling
  /\ scaler' = [scaler EXCEPT !.at = "grow"]
  /\ UNCHANGED <<slotVars, tables, supVars, monVars, crashes>>

Grow(i) ==
  /\ scaler.at = "grow" /\ \E started \in BOOLEAN : Supervise(i, started)
  /\ scaler' = ScalerIdle
  /\ UNCHANGED <<slotVars, retiring, replaced, workerSlots, slotWorker, ids, monVars, crashes>>

-----------------------------------------------------------------------------

SupNext(i) ==
  \/ \E s \in Slots : Claim(i, s)
  \/ StartRactor(i) \/ AbortAll(i) \/ Respawn(i) \/ Exited(i) \/ Release(i)

MonNext ==
  ReplaceClaim \/ Quarantine \/ \E i \in Indexes : ReplaceSpawn(i) \/ ReplaceFails(i)
ScalerNext == Check \/ Retire \/ RetireSlot \/ \E i \in Indexes : Grow(i)

Next ==
  \/ \E s \in Slots : Serve(s) \/ Finish(s) \/ Leave(s) \/ Crash(s) \/ Scan(s)
  \/ \E i \in Indexes : SupNext(i) \/ Observe(i)
  \/ MonNext \/ ScalerNext \/ Pressure

Spec == Init /\ [][Next]_vars

-----------------------------------------------------------------------------
(* Properties                                                              *)

TypeOK ==
  /\ bank \subseteq registered /\ registered \subseteq Slots
  /\ retired \cup quarantined \cup aborted \subseteq registered
  /\ thread \in [Slots -> {"off", "idle", "busy", "dead", "left"}]
  /\ live \cup retiring \cup replaced \subseteq 0 .. nextIndex - 1
  /\ sup \in [Indexes -> {"off", "spawn", "value", "crashed", "release", "done"}]
  /\ \A i \in Indexes : Len(ids[i]) <= Threads
  /\ mon.at \in {"idle", "claim", "spawn", "quarantine"} /\ rows \subseteq Slots
  /\ scaler.at \in {"idle", "check", "retire", "flag", "grow"}
  /\ outstanding \in 0 .. MaxOutstanding /\ crashes \in 0 .. MaxCrashes

Running == {s \in Slots : thread[s] \in {"idle", "busy"}}

\* the slots a supervisor thread has in its hands
Held(i) == IF sup[i] \in {"spawn", "value", "crashed", "release"} THEN Range(ids[i]) ELSE {}

(* A slot has one owner: the bank, or one supervisor.  A slot that goes     *)
(* back while a thread is still on it, or is given out twice, would let two *)
(* workers take, abort and report under one name (slot_bank.rb:12-29,       *)
(* ractor_supervisor.rb:203-238).                                           *)
SlotOwnedOnce ==
  /\ TypeOK
  /\ \A i, j \in Indexes : i # j => Held(i) \cap Held(j) = {}
  /\ \A i \in Indexes : Held(i) \cap bank = {}
  /\ \A s \in Running : \E i \in Indexes : s \in Held(i)

(* Recycling keeps the table from growing: a registered slot is free, in a  *)
(* supervisor's hands, or given up after a crash and then its clients were  *)
(* answered (slot_bank.rb:5-11, ractor_supervisor.rb:173-196).              *)
NoSlotLost ==
  \A s \in registered :
    s \in bank \/ s \in aborted \/ \E i \in Indexes : s \in Held(i)

(* The scaler never retires past its floor, whatever the quarantine monitor *)
(* and the supervisors do between its look at the count and the retirement  *)
(* (ractor_supervisor.rb:73-82); only between giving a worker up and        *)
(* spawning its replacement the count may be one short.  An index whose     *)
(* thread could not be started counts here as it does in the code.          *)
FloorKept ==
  Cardinality(Active) + (IF mon.at = "spawn" THEN 1 ELSE 0) >= Floor
=============================================================================
