---------------------------- MODULE LaneDispatch ----------------------------
(***************************************************************************)
(* Kino's experimental lane mode (`lanes true`): instead of one shared     *)
(* queue, every worker slot has a private bounded lane.  handle_request    *)
(* scans the lanes (try_dispatch), workers take from their own lane, steal *)
(* from siblings and park (lane_take), and four other threads interfere:   *)
(* the scaler retires a slot or recycles one, the supervisor aborts a      *)
(* crashed worker's slot and respawns on a fresh one, and Server#shutdown  *)
(* closes the lanes and, past its deadline, aborts and interrupts.         *)
(*                                                                         *)
(* One worker is one slot (threads 1).  batch has no effect here: the      *)
(* batch fill reads the shared queue, which lane mode leaves empty.        *)
(***************************************************************************)
EXTENDS Integers, Sequences, FiniteSets, SequencesExt

CONSTANTS
  Requests,    \* requests clients will ever send
  MaxSlots,    \* bound on the slots that can be registered
  BootSlots,   \* workers the pool starts with
  LaneDepth,   \* LANE_DEPTH: capacity of a lane
  MayCrash,    \* slots whose app call may raise a non-StandardError
  MayHang,     \* slots whose app call may never return
  Elastic,     \* TRUE when the pool scaler retires and grows
  ShutsDown    \* TRUE when Server#shutdown is called

Slots == 1..MaxSlots

None == 0

ASSUME LaneAssumption ==
  /\ MaxSlots \in Nat \ {0} /\ BootSlots \in Slots /\ LaneDepth \in Nat \ {0}
  /\ MayCrash \subseteq Slots /\ MayHang \subseteq Slots
  /\ Elastic \in BOOLEAN /\ ShutsDown \in BOOLEAN
  /\ None \notin Requests

VARIABLES
  future,     \* where the request's handle_request future stands
  scan,       \* its progress through try_dispatch
  answered,   \* requests whose responder has been claimed
  n,          \* registered slots: ServerInner::slots is 1..n
  lane,       \* each slot's lane, in order
  open,       \* WorkerSlot::lane_tx still holds the sender
  parked,     \* WorkerSlot::parked
  retired,    \* WorkerSlot::retired
  interrupted,\* WorkerSlot::interrupted
  pc,         \* where the slot's worker stands
  hand,       \* the request it is serving, also the slot's `current` list
  abort,      \* progress of abort_slot on the slot
  pending,    \* workers the supervisor is about to spawn
  free,       \* SlotBank's free list
  phase,      \* where Server#shutdown stands
  toClose     \* slots close_queue still has to visit

frontVars == <<future, scan>>
laneVars  == <<lane, open, parked, retired>>
poolVars  == <<n, pending, free>>
mainVars  == <<phase, toClose>>
vars == <<frontVars, answered, laneVars, interrupted, pc, hand, abort, poolVars, mainVars>>

FutureStates == {"idle", "scan", "sleep", "awaiting", "done", "refused", "lost"}
PcStates == {"unborn", "own", "sweep", "wait", "tick", "serve", "exited", "free",
             "crashed", "dead"}
Phases == {"running", "closing", "closed", "joining", "aborting", "stopped"}

Registered == 1..n
InLane(r) == \E w \in Slots : r \in ToSet(lane[w])

\* no scan, close_queue or abort_all_inflight holds the slot table's read lock
Unlocked == phase \notin {"closing", "aborting"} /\ \A r \in Requests : future[r] # "scan"

NoScan == [pass |-> 0, left |-> <<>>, start |-> 0, aim |-> None, anyOpen |-> FALSE]

-----------------------------------------------------------------------------
(* try_dispatch and dispatch_to_lane                                       *)

\* the slots in the order of a scan whose lane_cursor was `start`
Rotation(start) == [k \in 1..n |-> ((start + k - 1) % n) + 1]

\* An attempt begins: lane_cursor, bumped by every request so far, may
\* stand anywhere.  With no slot registered yet the attempt is a retry.
BeginScan(r) ==
  /\ future[r] \in {"idle", "sleep"} /\ phase # "stopped"
  /\ \/ /\ n = 0
        /\ future' = [future EXCEPT ![r] = "sleep"]
        /\ UNCHANGED scan
     \/ \E start \in 0..(n - 1) :
          /\ future' = [future EXCEPT ![r] = "scan"]
          /\ scan' = [scan EXCEPT ![r] = [pass |-> 1, left |-> Rotation(start), start |-> start,
                                          aim |-> None, anyOpen |-> FALSE]]
  /\ UNCHANGED <<answered, laneVars, interrupted, pc, hand, abort, poolVars, mainVars>>

\* parked with an empty lane: max_by_key picks the one that parked last,
\* any of them here
Hottest == {w \in Registered : parked[w] /\ lane[w] = <<>>}

\* Choose the next lane to try.  Pass 1 skips parked workers, pass 2 is one
\* idle worker, pass 3 is everybody.
Aim(r) ==
  LET s == scan[r] IN
  /\ future[r] = "scan" /\ s.aim = None
  /\ \/ /\ s.pass \in {1, 3} /\ s.left # <<>>
        /\ scan' = [scan EXCEPT ![r].left = Tail(s.left),
                                ![r].aim = IF s.pass = 1 /\ parked[Head(s.left)]
                                           THEN None ELSE Head(s.left)]
        /\ UNCHANGED future
     \/ /\ s.pass = 1 /\ s.left = <<>>
        /\ \E w \in Hottest : scan' = [scan EXCEPT ![r].pass = 2, ![r].aim = w]
        /\ UNCHANGED future
     \/ /\ s.pass = 2 \/ (s.pass = 1 /\ s.left = <<>> /\ Hottest = {})
        /\ scan' = [scan EXCEPT ![r].pass = 3, ![r].left = Rotation(s.start), ![r].start = 0]
        /\ UNCHANGED future
     \/ /\ s.pass = 3 /\ s.left = <<>>
        /\ future' = [future EXCEPT ![r] = IF s.anyOpen THEN "sleep" ELSE "refused"]
        /\ scan' = [scan EXCEPT ![r] = NoScan]
  /\ answered' = IF future'[r] = "refused" THEN answered \cup {r} ELSE answered
  /\ UNCHANGED <<laneVars, interrupted, pc, hand, abort, poolVars, mainVars>>

\* mutant: the retired flag is not looked at
TryLaneRetired(r) ==
  LET w == scan[r].aim IN
  /\ future[r] = "scan" /\ w # None
  /\ IF open[w] /\ Len(lane[w]) < LaneDepth
     THEN /\ lane' = [lane EXCEPT ![w] = Append(@, r)]
          /\ future' = [future EXCEPT ![r] = "awaiting"]
          /\ scan' = [scan EXCEPT ![r] = NoScan]
     ELSE /\ scan' = [scan EXCEPT ![r].aim = None, ![r].anyOpen = @ \/ open[w]]
          /\ UNCHANGED <<lane, future>>
  /\ UNCHANGED <<answered, open, parked, retired, interrupted, pc, hand, abort, poolVars, mainVars>>

\* try_lane, under the lane lock: closed, retired and full all refuse.
TryLane(r) ==
  LET w == scan[r].aim IN
  /\ future[r] = "scan" /\ w # None
  /\ IF open[w] /\ ~retired[w] /\ Len(lane[w]) < LaneDepth
     THEN /\ lane' = [lane EXCEPT ![w] = Append(@, r)]
          /\ future' = [future EXCEPT ![r] = "awaiting"]
          /\ scan' = [scan EXCEPT ![r] = NoScan]
     ELSE /\ scan' = [scan EXCEPT ![r].aim = None, ![r].anyOpen = @ \/ open[w]]
          /\ UNCHANGED <<lane, future>>
  /\ UNCHANGED <<answered, open, parked, retired, interrupted, pc, hand, abort, poolVars, mainVars>>

\* queue_timeout passes while every open lane is full: 503, ctx dropped.
QueueTimeout(r) ==
  /\ future[r] = "sleep"
  /\ future' = [future EXCEPT ![r] = "refused"]
  /\ answered' = answered \cup {r}
  /\ UNCHANGED <<scan, laneVars, interrupted, pc, hand, abort, poolVars, mainVars>>

\* The head oneshot resolves.
HeadArrives(r) ==
  /\ future[r] = "awaiting" /\ r \in answered
  /\ future' = [future EXCEPT ![r] = "done"]
  /\ UNCHANGED <<scan, answered, laneVars, interrupted, pc, hand, abort, poolVars, mainVars>>

\* The client hangs up at an await, or request_timeout answers 504 over the
\* head that does not come; a ctx not handed over yet is dropped.
ClientAbort(r) ==
  /\ future[r] \in {"sleep", "awaiting"}
  /\ future' = [future EXCEPT ![r] = "lost"]
  /\ answered' = IF future[r] = "sleep" THEN answered \cup {r} ELSE answered
  /\ UNCHANGED <<scan, laneVars, interrupted, pc, hand, abort, poolVars, mainVars>>

-----------------------------------------------------------------------------
(* lane_take                                                               *)

\* worker w takes the head of v's lane and leaves the parked state
TakeFrom(w, v) ==
  /\ lane[v] # <<>>
  /\ hand' = [hand EXCEPT ![w] = Head(lane[v])]
  /\ lane' = [lane EXCEPT ![v] = Tail(@)]
  /\ pc' = [pc EXCEPT ![w] = "serve"]

Leave(w) ==
  /\ pc' = [pc EXCEPT ![w] = "exited"]
  /\ UNCHANGED <<hand, lane>>

\* checkout, then the own lane; a server already torn down ends the loop.
TakeOwn(w) ==
  /\ pc[w] = "own"
  /\ \/ phase = "stopped" /\ Leave(w)
     \/ /\ phase # "stopped"
        /\ \/ TakeFrom(w, w)
           \/ lane[w] = <<>> /\ ~open[w] /\ Leave(w)
           \/ /\ lane[w] = <<>> /\ open[w]
              /\ pc' = [pc EXCEPT ![w] = "sweep"]
              /\ UNCHANGED <<hand, lane>>
  /\ interrupted' = IF phase = "stopped" THEN interrupted ELSE [interrupted EXCEPT ![w] = FALSE]
  /\ UNCHANGED <<frontVars, answered, open, parked, retired, abort, poolVars, mainVars>>

\* mutant: siblings are swept once, before parking, and never again
StealOnce(w) ==
  /\ pc[w] = "sweep"
  /\ \E v \in Registered \ {w} : TakeFrom(w, v)
  /\ parked' = [parked EXCEPT ![w] = FALSE]
  /\ UNCHANGED <<frontVars, answered, open, retired, interrupted, abort, poolVars, mainVars>>

\* The steal sweep, which may take from any sibling that has work.
Steal(w) ==
  /\ pc[w] \in {"sweep", "tick"} /\ (pc[w] = "tick" => ~retired[w])
  /\ \E v \in Registered \ {w} : TakeFrom(w, v)
  /\ parked' = [parked EXCEPT ![w] = FALSE]
  /\ UNCHANGED <<frontVars, answered, open, retired, interrupted, abort, poolVars, mainVars>>

\* The sweep visits lanes one by one, so it may find none whatever they hold.
Park(w) ==
  /\ pc[w] = "sweep"
  /\ parked' = [parked EXCEPT ![w] = TRUE]
  /\ pc' = [pc EXCEPT ![w] = "wait"]
  /\ UNCHANGED <<frontVars, answered, lane, open, retired, interrupted, hand, abort, poolVars, mainVars>>

\* One tick of the parked wait: the flag, then the own lane.
Wait(w) ==
  /\ pc[w] = "wait"
  /\ \/ interrupted[w] /\ Leave(w) /\ parked' = [parked EXCEPT ![w] = FALSE]
     \/ ~interrupted[w] /\ TakeFrom(w, w) /\ parked' = [parked EXCEPT ![w] = FALSE]
     \/ /\ ~interrupted[w] /\ lane[w] = <<>> /\ ~open[w]
        /\ Leave(w)
        /\ parked' = [parked EXCEPT ![w] = FALSE]
     \/ /\ ~interrupted[w] /\ lane[w] = <<>> /\ open[w]
        /\ pc' = [pc EXCEPT ![w] = "tick"]
        /\ UNCHANGED <<hand, lane, parked>>
  /\ UNCHANGED <<frontVars, answered, open, retired, interrupted, abort, poolVars, mainVars>>

\* after_timeout: a retired worker empties its lane, one per timeout, and
\* leaves; any other goes round again (Steal is the third way out).
AfterTimeout(w) ==
  /\ pc[w] = "tick"
  /\ \/ retired[w] /\ TakeFrom(w, w) /\ parked' = [parked EXCEPT ![w] = FALSE]
     \/ /\ retired[w] /\ lane[w] = <<>>
        /\ Leave(w)
        /\ parked' = [parked EXCEPT ![w] = FALSE]
     \/ /\ ~retired[w]
        /\ pc' = [pc EXCEPT ![w] = "wait"]
        /\ UNCHANGED <<hand, lane, parked>>
  /\ UNCHANGED <<frontVars, answered, open, retired, interrupted, abort, poolVars, mainVars>>

\* The app returns (or raises a StandardError): answered either way.
Serve(w) ==
  /\ pc[w] = "serve"
  /\ answered' = answered \cup {hand[w]}
  /\ hand' = [hand EXCEPT ![w] = None]
  /\ pc' = [pc EXCEPT ![w] = "own"]
  /\ UNCHANGED <<frontVars, laneVars, interrupted, abort, poolVars, mainVars>>

\* A hard crash.
Crash(w) ==
  /\ w \in MayCrash /\ pc[w] = "serve"
  /\ pc' = [pc EXCEPT ![w] = "crashed"]
  /\ abort' = [abort EXCEPT ![w] = "no"]
  /\ UNCHANGED <<frontVars, answered, laneVars, interrupted, hand, poolVars, mainVars>>

-----------------------------------------------------------------------------
(* abort_slot, by the supervisor of a crashed worker or by shutdown        *)

\* abort_all_inflight is through with w, or leaves it to its supervisor
Aborted(w) == abort[w] = "done" \/ pc[w] = "crashed"

\* shutdown goes through the slot table in order
Aborting(w) ==
  \/ pc[w] = "crashed"
  \/ phase = "aborting" /\ w \in Registered /\ \A v \in 1..(w - 1) : Aborted(v)

\* everything on the slot's list gets a 500
AbortCurrent(w) ==
  /\ Aborting(w) /\ abort[w] = "no"
  /\ answered' = answered \cup ({hand[w]} \ {None})
  /\ abort' = [abort EXCEPT ![w] = "current"]
  /\ UNCHANGED <<frontVars, laneVars, interrupted, pc, hand, poolVars, mainVars>>

\* the lane closes first, so nothing lands behind the drain
AbortClose(w) ==
  /\ Aborting(w) /\ abort[w] = "current"
  /\ open' = [open EXCEPT ![w] = FALSE]
  /\ parked' = [parked EXCEPT ![w] = TRUE]
  /\ abort' = [abort EXCEPT ![w] = "lane"]
  /\ UNCHANGED <<frontVars, answered, lane, retired, interrupted, pc, hand, poolVars, mainVars>>

\* mutant: the queued contexts are dropped without an answer
AbortDrainSilently(w) ==
  /\ Aborting(w) /\ abort[w] = "lane"
  /\ lane' = [lane EXCEPT ![w] = <<>>]
  /\ abort' = [abort EXCEPT ![w] = "done"]
  /\ UNCHANGED <<frontVars, answered, open, parked, retired, interrupted, pc, hand, poolVars, mainVars>>

\* dropping each queued ctx answers it
AbortDrain(w) ==
  /\ Aborting(w) /\ abort[w] = "lane"
  /\ answered' = answered \cup ToSet(lane[w])
  /\ lane' = [lane EXCEPT ![w] = <<>>]
  /\ abort' = [abort EXCEPT ![w] = "done"]
  /\ UNCHANGED <<frontVars, open, parked, retired, interrupted, pc, hand, poolVars, mainVars>>

\* The supervisor's decision: respawn, unless the drain has been flagged.
Decide(w) ==
  /\ pc[w] = "crashed" /\ abort[w] = "done"
  /\ pc' = [pc EXCEPT ![w] = "dead"]
  /\ hand' = [hand EXCEPT ![w] = None]
  /\ pending' = IF phase \in {"running", "closing", "closed"} THEN pending + 1 ELSE pending
  /\ UNCHANGED <<frontVars, answered, laneVars, interrupted, abort, n, free, mainVars>>

-----------------------------------------------------------------------------
(* SlotBank and the pool scaler                                            *)

\* A worker boots on a slot a retired worker handed back (reset), or on a
\* new one; with the server gone, register_worker raises.
ClaimSlot ==
  /\ pending > 0
  /\ pending' = pending - 1
  /\ \/ /\ phase = "stopped"
        /\ UNCHANGED <<n, free, pc, retired, parked, interrupted, hand>>
     \/ /\ phase # "stopped" /\ free # <<>>
        /\ LET w == Last(free)
           IN /\ free' = Front(free)
              /\ pc' = [pc EXCEPT ![w] = "own"]
              /\ retired' = [retired EXCEPT ![w] = FALSE]
              /\ parked' = [parked EXCEPT ![w] = FALSE]
              /\ interrupted' = [interrupted EXCEPT ![w] = FALSE]
              /\ hand' = [hand EXCEPT ![w] = None]
        /\ UNCHANGED n
     \/ /\ phase # "stopped" /\ free = <<>> /\ n < MaxSlots /\ Unlocked
        /\ n' = n + 1
        /\ pc' = [pc EXCEPT ![n + 1] = "own"]
        /\ UNCHANGED <<free, retired, parked, interrupted, hand>>
  /\ UNCHANGED <<frontVars, answered, lane, open, abort, mainVars>>

Live == {w \in Slots : pc[w] \notin {"unborn", "exited", "free", "dead"}}
Active == {w \in Live : ~retired[w]}

\* WorkerSlot::retire, under the lane lock: never below the floor of one.
Retire(w) ==
  /\ Elastic /\ phase = "running"
  /\ w \in Active /\ Active # {w}
  /\ retired' = [retired EXCEPT ![w] = TRUE]
  /\ UNCHANGED <<frontVars, answered, lane, open, parked, interrupted, pc, hand, abort, poolVars, mainVars>>

\* A retired worker's slot goes back to the bank once it has exited.
Release(w) ==
  /\ pc[w] = "exited" /\ retired[w]
  /\ pc' = [pc EXCEPT ![w] = "free"]
  /\ free' = Append(free, w)
  /\ UNCHANGED <<frontVars, answered, laneVars, interrupted, hand, abort, n, pending, mainVars>>

\* The scaler grows the pool (up to MaxSlots live workers).
Grow ==
  /\ Elastic /\ phase = "running"
  /\ pending = 0 /\ (free # <<>> \/ n < MaxSlots)
  /\ pending' = 1
  /\ UNCHANGED <<frontVars, answered, laneVars, interrupted, pc, hand, abort, n, free, mainVars>>

-----------------------------------------------------------------------------
(* Server#shutdown from close_queue on                                     *)

\* Server#start has spawned every worker before anyone can shut it down.
StartClose ==
  /\ ShutsDown /\ phase = "running" /\ n >= BootSlots
  /\ phase' = "closing"
  /\ toClose' = Registered
  /\ UNCHANGED <<frontVars, answered, laneVars, interrupted, pc, hand, abort, poolVars>>

\* close_queue drops the lanes' senders one by one, in order.
CloseNext ==
  /\ phase = "closing"
  /\ \/ \E w \in toClose :
          /\ \A v \in toClose : w <= v
          /\ open' = [open EXCEPT ![w] = FALSE]
          /\ toClose' = toClose \ {w}
          /\ UNCHANGED phase
     \/ /\ toClose = {}
        /\ phase' = "closed"
        /\ UNCHANGED <<open, toClose>>
  /\ UNCHANGED <<frontVars, answered, lane, parked, retired, interrupted, pc, hand, abort, poolVars>>

\* join_workers raises the supervisor's draining flag.
FlagDrain ==
  /\ phase = "closed"
  /\ phase' = "joining"
  /\ UNCHANGED <<frontVars, answered, laneVars, interrupted, pc, hand, abort, poolVars, toClose>>

Done == pending = 0 /\ Live = {}

\* Everyone gone, or the deadline: free the clients, then the workers.
JoinWorkers ==
  /\ phase = "joining"
  /\ phase' \in IF Done THEN {"stopped"} ELSE {"aborting"}
  /\ UNCHANGED <<frontVars, answered, laneVars, interrupted, pc, hand, abort, poolVars, toClose>>

\* abort_all_inflight has been everywhere (a worker that crashed since then
\* is its supervisor's): interrupt_all_workers, then the teardown begins.
InterruptAll ==
  /\ phase = "aborting" /\ \A w \in Registered : Aborted(w)
  /\ interrupted' = [w \in Slots |-> interrupted[w] \/ w \in Registered]
  /\ phase' = "stopped"
  /\ UNCHANGED <<frontVars, answered, laneVars, pc, hand, abort, poolVars, toClose>>

\* The runtime's teardown drops the futures that are still there.
Teardown(r) ==
  /\ phase = "stopped" /\ future[r] \in {"sleep", "awaiting"}
  /\ future' = [future EXCEPT ![r] = "lost"]
  /\ answered' = IF future[r] = "sleep" THEN answered \cup {r} ELSE answered
  /\ UNCHANGED <<scan, laneVars, interrupted, pc, hand, abort, poolVars, mainVars>>

-----------------------------------------------------------------------------
Init ==
  /\ future = [r \in Requests |-> "idle"] /\ scan = [r \in Requests |-> NoScan]
  /\ answered = {}
  /\ n = 0 /\ pending = BootSlots /\ free = <<>>
  /\ lane = [w \in Slots |-> <<>>] /\ open = [w \in Slots |-> TRUE]
  /\ parked = [w \in Slots |-> FALSE] /\ retired = [w \in Slots |-> FALSE]
  /\ interrupted = [w \in Slots |-> FALSE]
  /\ pc = [w \in Slots |-> "unborn"] /\ hand = [w \in Slots |-> None]
  /\ abort = [w \in Slots |-> "no"]
  /\ phase = "running" /\ toClose = {}

Dispatch(r) ==
  BeginScan(r) \/ Aim(r) \/ TryLane(r) \/ HeadArrives(r) \/ Teardown(r)

Take(w) == TakeOwn(w) \/ Steal(w) \/ Park(w) \/ Wait(w) \/ AfterTimeout(w)

Supervise(w) == AbortCurrent(w) \/ AbortClose(w) \/ AbortDrain(w) \/ Decide(w) \/ Release(w)

Main == CloseNext \/ FlagDrain \/ JoinWorkers \/ InterruptAll

Next ==
  \/ \E r \in Requests : Dispatch(r) \/ QueueTimeout(r) \/ ClientAbort(r)
  \/ \E w \in Slots : Take(w) \/ Serve(w) \/ Crash(w) \/ Supervise(w) \/ Retire(w)
  \/ ClaimSlot \/ Grow \/ StartClose \/ Main

Spec == Init /\ [][Next]_vars

-----------------------------------------------------------------------------
(* Fairness: tokio polls the futures, the VM schedules workers that are    *)
(* not inside a hanging app call, supervisors, the main thread in shutdown *)
(* and the spawner, whose write lock on the slot table is not starved by   *)
(* the scans that read it (parking_lot's RwLock holds new readers back     *)
(* once a writer waits).  A steal sweep that keeps coming by a lane with   *)
(* work finds it.                                                          *)

LiveSpec ==
  /\ Spec
  /\ \A r \in Requests : WF_vars(Dispatch(r))
  /\ \A w \in Slots : /\ WF_vars(Take(w)) /\ SF_vars(Steal(w)) /\ WF_vars(Supervise(w))
                      /\ w \notin MayHang => WF_vars(Serve(w))
  /\ SF_vars(ClaimSlot) /\ WF_vars(Main)

-----------------------------------------------------------------------------
(* Properties                                                              *)

\* Every variable keeps its shape, and no lane exceeds LANE_DEPTH.
TypeOK ==
  /\ future \in [Requests -> FutureStates]
  /\ \A r \in Requests : /\ scan[r].pass \in 0..3 /\ scan[r].left \in Seq(Slots)
                         /\ scan[r].aim \in Slots \cup {None} /\ scan[r].anyOpen \in BOOLEAN
  /\ answered \subseteq Requests
  /\ n \in 0..MaxSlots /\ pending \in Nat /\ free \in Seq(Slots)
  /\ lane \in [Slots -> Seq(Requests)] /\ \A w \in Slots : Len(lane[w]) <= LaneDepth
  /\ {open, parked, retired, interrupted} \subseteq [Slots -> BOOLEAN]
  /\ pc \in [Slots -> PcStates] /\ hand \in [Slots -> Requests \cup {None}]
  /\ abort \in [Slots -> {"no", "current", "lane", "done"}]
  /\ phase \in Phases /\ toClose \subseteq Slots

\* registry.rs:282-286 and queue.rs:30-35: nobody leaves work behind.  The
\* lane of a slot without a worker is empty, whatever order a dispatch, a
\* retirement, an abort and a close came in.
NoOrphanedLane ==
  phase # "stopped" =>
    \A w \in Slots : pc[w] \in {"unborn", "exited", "free", "dead"} => lane[w] = <<>>

\* the lane positions a context is at, position 0 being the worker's hand
Places(r) ==
  {p \in Slots \X (0..LaneDepth) :
     IF p[2] = 0 THEN hand[p[1]] = r ELSE p[2] <= Len(lane[p[1]]) /\ lane[p[1]][p[2]] = r}

\* A context is never in two lanes or hands, and while its client waits
\* unanswered it is in exactly one.
OnePlace ==
  /\ TypeOK
  /\ \A r \in Requests : Cardinality(Places(r)) \in
       IF future[r] = "awaiting" /\ r \notin answered THEN {1} ELSE {0, 1}

\* queue.rs:112-113: a backlog behind a sibling that never returns is
\* stolen as long as another worker comes by, and one behind a worker that
\* crashes is stolen or aborted.
BacklogStolen == \A r \in Requests : InLane(r) ~> ~InLane(r)
=============================================================================
