------------------------- MODULE LaneDispatchProofs -------------------------
(***************************************************************************)
(* Lane mode, for any requests, slots and lane depth: no slot without a    *)
(* worker keeps a backlog, and a request context is in one place.          *)
(***************************************************************************)
EXTENDS LaneDispatch, SequenceTheorems, FiniteSetTheorems, TLAPS

-----------------------------------------------------------------------------
(* The inductive invariant                                                 *)

\* TypeOK without the parts that Scans and Tables say more of
Types ==
  /\ future \in [Requests -> FutureStates] /\ answered \subseteq Requests
  /\ n \in 0..MaxSlots /\ pending \in Nat
  /\ lane \in [Slots -> Seq(Requests)] /\ \A w \in Slots : Len(lane[w]) <= LaneDepth
  /\ pc \in [Slots -> PcStates] /\ hand \in [Slots -> Requests \cup {None}]
  /\ abort \in [Slots -> {"no", "current", "lane", "done"}]
  /\ phase \in Phases /\ toClose \subseteq Slots

Flags ==
  /\ open \in [Slots -> BOOLEAN] /\ parked \in [Slots -> BOOLEAN]
  /\ retired \in [Slots -> BOOLEAN] /\ interrupted \in [Slots -> BOOLEAN]

\* a scan whose lanes are among the first m slots
ScanRecs(m) ==
  [pass : 0..3, left : Seq(1..m), start : Nat, aim : 0..m, anyOpen : BOOLEAN]

\* Dispatch looks at registered slots only, and a future that is not scanning
\* keeps nothing of its last scan.
Scans ==
  /\ scan \in [Requests -> ScanRecs(n)]
  /\ \A r \in Requests : future[r] # "scan" => scan[r] = NoScan

\* The slots beyond n were never used; those in the bank were.
Tables ==
  /\ \A w \in Slots : pc[w] = "unborn" <=> w > n
  /\ free \in Seq(1..n)
  /\ \A i \in 1..Len(free) : pc[free[i]] = "free"
  /\ \A i, j \in 1..Len(free) : free[i] = free[j] => i = j

\* A worker holds a request exactly while it serves, or after it crashed.
Hands == \A w \in Slots : IF pc[w] \in {"serve", "crashed"} THEN hand[w] \in Requests
                                                            ELSE hand[w] = None

\* A worker gone for good left a lane that takes nothing, retired or closed,
\* and an abort closes a lane before it drains it.
Shut ==
  /\ \A w \in Slots : interrupted[w] => phase = "stopped"
  /\ \A w \in Slots : pc[w] = "crashed" /\ abort[w] \in {"lane", "done"} => ~open[w]
  /\ \A w \in Slots : pc[w] = "crashed" /\ abort[w] = "done" => lane[w] = <<>>
  /\ phase # "stopped" =>
       \A w \in Slots : pc[w] \in {"exited", "free", "dead"} => retired[w] \/ ~open[w]

Core == Types /\ Flags /\ Scans /\ Tables /\ Hands /\ Shut /\ NoOrphanedLane

\* what the aborts answered
Freed ==
  \A w \in Slots : pc[w] = "crashed" /\ abort[w] # "no" => hand[w] \in answered

\* No context is twice in the lanes, or in a lane and a hand, or in two hands.
Once ==
  /\ \A w, v \in Slots : \A i \in 1..Len(lane[w]), j \in 1..Len(lane[v]) :
       lane[w][i] = lane[v][j] => w = v /\ i = j
  /\ \A w, v \in Slots : \A i \in 1..Len(lane[w]) : lane[w][i] # hand[v]
  /\ \A w, v \in Slots : hand[w] = hand[v] /\ hand[w] # None => w = v

InHand(r) == \E w \in Slots : hand[w] = r

Queued(r) == \E w \in Slots : \E i \in 1..Len(lane[w]) : lane[w][i] = r

Undispatched == {"idle", "scan", "sleep"}

\* A context that try_lane has yet to hand over is nowhere on the workers' side.
NotYet == \A r \in Requests : future[r] \in Undispatched => ~InHand(r) /\ ~Queued(r)

\* A client that waits unanswered has its context in a lane or a hand.
Kept ==
  \A r \in Requests : future[r] = "awaiting" /\ r \notin answered => InHand(r) \/ Queued(r)

Ownership == Core /\ Freed /\ Once /\ NotYet /\ Kept

-----------------------------------------------------------------------------
(* Sequences                                                               *)

\* What Append does to length and elements.
LEMMA Appended ==
  ASSUME NEW S, NEW s \in Seq(S), NEW e \in S
  PROVE  /\ Append(s, e) \in Seq(S)
         /\ Len(Append(s, e)) = Len(s) + 1 /\ Len(s) \in Nat
         /\ \A i \in 1..Len(s) : Append(s, e)[i] = s[i]
         /\ Append(s, e)[Len(s) + 1] = e
  OBVIOUS

\* What Head and Tail do to them.
LEMMA HeadTail ==
  ASSUME NEW S, NEW s \in Seq(S), s # <<>>
  PROVE  /\ Tail(s) \in Seq(S) /\ Head(s) \in S /\ Head(s) = s[1]
         /\ Len(s) \in Nat \ {0} /\ Len(Tail(s)) = Len(s) - 1
         /\ \A i \in 1..Len(Tail(s)) : Tail(s)[i] = s[i + 1]
  BY HeadTailProperties

\* What the bank's pop leaves.
LEMMA FrontLast ==
  ASSUME NEW S, NEW s \in Seq(S), s # <<>>
  PROVE  /\ Front(s) \in Seq(S) /\ Last(s) \in S /\ Last(s) = s[Len(s)]
         /\ Len(s) \in Nat \ {0} /\ Len(Front(s)) = Len(s) - 1
         /\ \A i \in 1..Len(Front(s)) : Front(s)[i] = s[i]
  BY DEF Front, Last

\* A sequence over fewer slots is one over more.
LEMMA SeqMore ==
  ASSUME NEW m \in Nat, NEW s \in Seq(1..m)
  PROVE  s \in Seq(1..(m + 1))
  OBVIOUS

\* A scan's order consists of registered slots.
LEMMA Rotations ==
  ASSUME n \in Nat, NEW start \in Nat
  PROVE  Rotation(start) \in Seq(1..n)
<1>1. ASSUME NEW k \in 1..n PROVE ((start + k - 1) % n) + 1 \in 1..n
  <2>1. n > 0 /\ n \in Nat /\ start + k - 1 \in Int
    BY <1>1
  <2>2. (start + k - 1) % n \in 0..(n - 1)
    BY <2>1
  <2>3. QED
    BY <2>1, <2>2
<1>2. QED
  BY <1>1 DEF Rotation

\* The constants of a scan that is over.
LEMMA NoScanFits ==
  ASSUME NEW m \in Nat
  PROVE  NoScan \in ScanRecs(m)
  BY DEF NoScan, ScanRecs, None

-----------------------------------------------------------------------------
(* Types                                                                   *)

\* The registered slots are slots.
LEMMA SlotTable ==
  ASSUME Types
  PROVE  /\ n \in Nat /\ MaxSlots \in Nat /\ Registered \subseteq Slots
         /\ \A w \in 1..n : w \in Slots
         /\ n < MaxSlots => n + 1 \in Slots /\ n + 1 \in 0..MaxSlots
  BY LaneAssumption DEF Types, Slots, Registered

\* The lane a scan aims at is a registered slot's.
LEMMA AimedAt ==
  ASSUME Types, Scans, NEW r \in Requests, scan[r].aim # None
  PROVE  scan[r].aim \in 1..n /\ scan[r].aim \in Slots
<1>1. scan[r].aim \in 0..n
  BY DEF Scans, ScanRecs
<1>2. QED
  BY <1>1, SlotTable DEF None

\* The slot the bank hands out is a registered one.
LEMMA FreeSlot ==
  ASSUME Types, Tables, free # <<>>
  PROVE  Last(free) \in 1..n /\ Last(free) \in Slots
<1>1. Last(free) \in 1..n
  BY FrontLast DEF Tables
<1>2. QED
  BY <1>1, SlotTable

\* A take keeps lanes, hands and program counters in shape.
LEMMA TakeFromTypes ==
  ASSUME Types, NEW w \in Slots, NEW v \in Slots, TakeFrom(w, v)
  PROVE  /\ lane' \in [Slots -> Seq(Requests)] /\ \A u \in Slots : Len(lane'[u]) <= LaneDepth
         /\ hand' \in [Slots -> Requests \cup {None}] /\ pc' \in [Slots -> PcStates]
         /\ hand'[w] \in Requests
<1>1. /\ Tail(lane[v]) \in Seq(Requests) /\ Head(lane[v]) \in Requests
      /\ Len(lane[v]) \in Nat \ {0} /\ Len(Tail(lane[v])) = Len(lane[v]) - 1
  BY HeadTail DEF Types, TakeFrom
<1>2. /\ lane' = [lane EXCEPT ![v] = Tail(lane[v])]
      /\ hand' = [hand EXCEPT ![w] = Head(lane[v])] /\ pc' = [pc EXCEPT ![w] = "serve"]
  BY DEF TakeFrom
<1>3. \A u \in Slots : Len(lane'[u]) <= LaneDepth
  BY <1>1, <1>2, LaneAssumption DEF Types
<1>4. QED
  BY <1>1, <1>2, <1>3 DEF Types, PcStates

\* A step keeps the types.
LEMMA TypesStep ==
  ASSUME Types, Scans, Tables, Hands, [Next]_vars
  PROVE  Types'
<1> USE DEF Types, FutureStates, PcStates, Phases, frontVars, laneVars, poolVars, mainVars
<1>1. ASSUME NEW r \in Requests, BeginScan(r) PROVE Types'
  BY <1>1 DEF BeginScan
<1>2. ASSUME NEW r \in Requests, Aim(r) PROVE Types'
  <2>1. future'[r] \in FutureStates /\ future' \in [Requests -> FutureStates]
    BY <1>2 DEF Aim
  <2>2. QED
    BY <1>2, <2>1 DEF Aim
<1>3. ASSUME NEW r \in Requests, TryLane(r) PROVE Types'
  <2>0. Types
    OBVIOUS
  <2>1. scan[r].aim \in Slots
    BY <1>3, <2>0, AimedAt DEF TryLane
  <2>2. /\ Append(lane[scan[r].aim], r) \in Seq(Requests)
        /\ Len(Append(lane[scan[r].aim], r)) = Len(lane[scan[r].aim]) + 1
        /\ Len(lane[scan[r].aim]) \in Nat
    BY <2>1, Appended
  <2>3. QED
    <3>1. CASE lane' = [lane EXCEPT ![scan[r].aim] = Append(@, r)]
               /\ Len(lane[scan[r].aim]) < LaneDepth
      <4>1. \A w \in Slots : Len(lane'[w]) <= LaneDepth
        BY <2>1, <2>2, <3>1, LaneAssumption
      <4>2. QED
        BY <1>3, <2>1, <2>2, <3>1, <4>1 DEF TryLane
    <3>2. CASE UNCHANGED <<lane, future>>
      BY <1>3, <3>2 DEF TryLane
    <3>3. QED
      BY <1>3, <3>1, <3>2 DEF TryLane
<1>4. ASSUME NEW r \in Requests, HeadArrives(r) PROVE Types'
  BY <1>4 DEF HeadArrives
<1>5. ASSUME NEW r \in Requests, Teardown(r) PROVE Types'
  BY <1>5 DEF Teardown
<1>6. ASSUME NEW r \in Requests, QueueTimeout(r) PROVE Types'
  BY <1>6 DEF QueueTimeout
<1>7. ASSUME NEW r \in Requests, ClientAbort(r) PROVE Types'
  BY <1>7 DEF ClientAbort
<1>8. ASSUME NEW w \in Slots, TakeOwn(w) PROVE Types'
  <2>1. Types
    OBVIOUS
  <2>2. QED
    BY <1>8, <2>1, TakeFromTypes, SlotTable DEF TakeOwn, Leave
<1>9. ASSUME NEW w \in Slots, Steal(w) PROVE Types'
  <2>1. Types
    OBVIOUS
  <2>2. QED
    BY <1>9, <2>1, TakeFromTypes, SlotTable DEF Steal, Leave
<1>10. ASSUME NEW w \in Slots, Park(w) PROVE Types'
  BY <1>10 DEF Park
<1>11. ASSUME NEW w \in Slots, Wait(w) PROVE Types'
  <2>1. Types
    OBVIOUS
  <2>2. QED
    BY <1>11, <2>1, TakeFromTypes, SlotTable DEF Wait, Leave
<1>12. ASSUME NEW w \in Slots, AfterTimeout(w) PROVE Types'
  <2>1. Types
    OBVIOUS
  <2>2. QED
    BY <1>12, <2>1, TakeFromTypes, SlotTable DEF AfterTimeout, Leave
<1>13. ASSUME NEW w \in Slots, Serve(w) PROVE Types'
  BY <1>13 DEF Serve, Hands
<1>14. ASSUME NEW w \in Slots, Crash(w) PROVE Types'
  BY <1>14 DEF Crash
<1>15. ASSUME NEW w \in Slots, AbortCurrent(w) PROVE Types'
  BY <1>15 DEF AbortCurrent
<1>16. ASSUME NEW w \in Slots, AbortClose(w) PROVE Types'
  BY <1>16 DEF AbortClose
<1>17. ASSUME NEW w \in Slots, AbortDrain(w) PROVE Types'
  <2>1. ToSet(lane[w]) \subseteq Requests
    BY DEF ToSet
  <2>2. <<>> \in Seq(Requests) /\ Len(<<>>) = 0
    OBVIOUS
  <2>3. QED
    BY <1>17, <2>1, <2>2, LaneAssumption DEF AbortDrain
<1>18. ASSUME NEW w \in Slots, Decide(w) PROVE Types'
  BY <1>18 DEF Decide
<1>19. ASSUME NEW w \in Slots, Release(w) PROVE Types'
  BY <1>19 DEF Release
<1>20. ASSUME NEW w \in Slots, Retire(w) PROVE Types'
  BY <1>20 DEF Retire
<1>21. CASE ClaimSlot
  <2>0. Types
    OBVIOUS
  <2>1. free # <<>> => Last(free) \in Slots
    BY <2>0, FreeSlot
  <2>2. n < MaxSlots => n + 1 \in Slots /\ n + 1 \in 0..MaxSlots
    BY <2>0, SlotTable
  <2>3. pending' \in Nat /\ n' \in 0..MaxSlots
    BY <1>21, <2>2 DEF ClaimSlot
  <2>4. pc' \in [Slots -> PcStates] /\ hand' \in [Slots -> Requests \cup {None}]
    BY <1>21, <2>1, <2>2 DEF ClaimSlot
  <2>5. QED
    BY <1>21, <2>3, <2>4 DEF ClaimSlot
<1>22. CASE Grow
  BY <1>22 DEF Grow
<1>23. CASE StartClose
  BY <1>23, LaneAssumption DEF StartClose, Registered, Slots
<1>24. CASE CloseNext
  BY <1>24 DEF CloseNext
<1>25. CASE FlagDrain
  BY <1>25 DEF FlagDrain
<1>26. CASE JoinWorkers
  BY <1>26 DEF JoinWorkers
<1>27. CASE InterruptAll
  BY <1>27 DEF InterruptAll
<1>28. CASE UNCHANGED vars
  BY <1>28 DEF vars
<1>29. QED
  BY <1>1, <1>2, <1>3, <1>4, <1>5, <1>6, <1>7, <1>8, <1>9, <1>10, <1>11, <1>12, <1>13,
     <1>14, <1>15, <1>16, <1>17, <1>18, <1>19, <1>20, <1>21, <1>22, <1>23, <1>24, <1>25,
     <1>26, <1>27, <1>28
  DEF Next, Dispatch, Take, Supervise, Main

\* A step keeps the slots' flags Boolean.
LEMMA FlagsStep ==
  ASSUME Types, Flags, Tables, [Next]_vars
  PROVE  Flags'
<1> USE DEF Flags, frontVars, laneVars, poolVars, mainVars
<1>1. ASSUME NEW r \in Requests, BeginScan(r) PROVE Flags'
  BY <1>1 DEF BeginScan
<1>2. ASSUME NEW r \in Requests, Aim(r) PROVE Flags'
  BY <1>2 DEF Aim
<1>3. ASSUME NEW r \in Requests, TryLane(r) PROVE Flags'
  BY <1>3 DEF TryLane
<1>4. ASSUME NEW r \in Requests, HeadArrives(r) PROVE Flags'
  BY <1>4 DEF HeadArrives
<1>5. ASSUME NEW r \in Requests, Teardown(r) PROVE Flags'
  BY <1>5 DEF Teardown
<1>6. ASSUME NEW r \in Requests, QueueTimeout(r) PROVE Flags'
  BY <1>6 DEF QueueTimeout
<1>7. ASSUME NEW r \in Requests, ClientAbort(r) PROVE Flags'
  BY <1>7 DEF ClientAbort
<1>8. ASSUME NEW w \in Slots, TakeOwn(w) PROVE Flags'
  BY <1>8 DEF TakeOwn, TakeFrom, Leave
<1>9. ASSUME NEW w \in Slots, Steal(w) PROVE Flags'
  BY <1>9 DEF Steal, TakeFrom
<1>10. ASSUME NEW w \in Slots, Park(w) PROVE Flags'
  BY <1>10 DEF Park
<1>11. ASSUME NEW w \in Slots, Wait(w) PROVE Flags'
  BY <1>11 DEF Wait, TakeFrom, Leave
<1>12. ASSUME NEW w \in Slots, AfterTimeout(w) PROVE Flags'
  BY <1>12 DEF AfterTimeout, TakeFrom, Leave
<1>13. ASSUME NEW w \in Slots, Serve(w) PROVE Flags'
  BY <1>13 DEF Serve
<1>14. ASSUME NEW w \in Slots, Crash(w) PROVE Flags'
  BY <1>14 DEF Crash
<1>15. ASSUME NEW w \in Slots, AbortCurrent(w) PROVE Flags'
  BY <1>15 DEF AbortCurrent
<1>16. ASSUME NEW w \in Slots, AbortClose(w) PROVE Flags'
  BY <1>16 DEF AbortClose
<1>17. ASSUME NEW w \in Slots, AbortDrain(w) PROVE Flags'
  BY <1>17 DEF AbortDrain
<1>18. ASSUME NEW w \in Slots, Decide(w) PROVE Flags'
  BY <1>18 DEF Decide
<1>19. ASSUME NEW w \in Slots, Release(w) PROVE Flags'
  BY <1>19 DEF Release
<1>20. ASSUME NEW w \in Slots, Retire(w) PROVE Flags'
  BY <1>20 DEF Retire
<1>21. CASE ClaimSlot
  <2>1. free # <<>> => Last(free) \in Slots
    BY FreeSlot
  <2>2. QED
    BY <1>21, <2>1 DEF ClaimSlot
<1>22. CASE Grow
  BY <1>22 DEF Grow
<1>23. CASE StartClose
  BY <1>23 DEF StartClose
<1>24. CASE CloseNext
  BY <1>24 DEF CloseNext
<1>25. CASE FlagDrain
  BY <1>25 DEF FlagDrain
<1>26. CASE JoinWorkers
  BY <1>26 DEF JoinWorkers
<1>27. CASE InterruptAll
  BY <1>27 DEF InterruptAll
<1>28. CASE UNCHANGED vars
  BY <1>28 DEF vars
<1>29. QED
  BY <1>1, <1>2, <1>3, <1>4, <1>5, <1>6, <1>7, <1>8, <1>9, <1>10, <1>11, <1>12, <1>13,
     <1>14, <1>15, <1>16, <1>17, <1>18, <1>19, <1>20, <1>21, <1>22, <1>23, <1>24, <1>25,
     <1>26, <1>27, <1>28
  DEF Next, Dispatch, Take, Supervise, Main

-----------------------------------------------------------------------------
(* Scans, tables and hands                                                 *)

\* Workers and supervisors touch no scan.
LEMMA WorkersLeaveScans ==
  ASSUME NEW w \in Slots, Take(w) \/ Serve(w) \/ Crash(w) \/ Supervise(w) \/ Retire(w)
  PROVE  UNCHANGED <<future, scan, n>>
  BY DEF Take, TakeOwn, Steal, Park, Wait, AfterTimeout, Serve, Crash, Supervise, AbortCurrent,
         AbortClose, AbortDrain, Decide, Release, Retire, frontVars, poolVars

\* A step keeps the scans on registered slots.
LEMMA ScansStep ==
  ASSUME Types, Flags, Scans, [Next]_vars
  PROVE  Scans'
<1>0. n \in Nat /\ NoScan \in ScanRecs(n) /\ \A r \in Requests : scan[r] \in ScanRecs(n)
  BY SlotTable, NoScanFits DEF Scans
<1>1. ASSUME NEW r \in Requests, BeginScan(r) PROVE Scans'
  <2>1. ASSUME NEW start \in 0..(n - 1)
        PROVE  [pass |-> 1, left |-> Rotation(start), start |-> start, aim |-> None,
                anyOpen |-> FALSE] \in ScanRecs(n)
    <3>1. Rotation(start) \in Seq(1..n) /\ start \in Nat
      BY <1>0, Rotations
    <3>2. QED
      BY <1>0, <3>1 DEF ScanRecs, None
  <2>2. n' = n /\ future' \in [Requests -> FutureStates]
    BY <1>1 DEF BeginScan, poolVars, Types, FutureStates
  <2>3. scan' \in [Requests -> ScanRecs(n)]
    BY <1>0, <1>1, <2>1 DEF BeginScan, Scans
  <2>4. \A q \in Requests : future'[q] # "scan" => scan'[q] = NoScan
    BY <1>1 DEF BeginScan, Scans, Types
  <2>5. QED
    BY <2>2, <2>3, <2>4 DEF Scans
<1>2. ASSUME NEW r \in Requests, Aim(r) PROVE Scans'
  <2> DEFINE s == scan[r]
  <2>1. n' = n /\ future[r] = "scan" /\ s \in ScanRecs(n)
    BY <1>0, <1>2 DEF Aim, poolVars
  <2>2. CASE s.pass \in {1, 3} /\ s.left # <<>> /\ UNCHANGED future
             /\ scan' = [scan EXCEPT ![r].left = Tail(s.left),
                                     ![r].aim = IF s.pass = 1 /\ parked[Head(s.left)]
                                                THEN None ELSE Head(s.left)]
    <3>1. Tail(s.left) \in Seq(1..n) /\ Head(s.left) \in 0..n /\ None \in 0..n
      <4>1. s.left \in Seq(1..n)
        BY <2>1 DEF ScanRecs
      <4>2. Tail(s.left) \in Seq(1..n) /\ Head(s.left) \in 1..n
        BY <2>2, <4>1, HeadTail
      <4>3. QED
        BY <1>0, <4>2 DEF None
    <3>2. scan'[r] \in ScanRecs(n)
      BY <2>1, <2>2, <3>1 DEF ScanRecs, Scans
    <3>3. QED
      BY <2>1, <2>2, <3>2 DEF Scans
  <2>3. CASE UNCHANGED future
             /\ \E w \in Hottest : scan' = [scan EXCEPT ![r].pass = 2, ![r].aim = w]
    <3>1. PICK w \in Hottest : scan' = [scan EXCEPT ![r].pass = 2, ![r].aim = w]
      BY <2>3
    <3>2. w \in 0..n /\ 2 \in 0..3
      BY <1>0 DEF Hottest, Registered
    <3>3. scan'[r] = [s EXCEPT !.pass = 2, !.aim = w]
      BY <3>1 DEF Scans
    <3>4. scan'[r] \in ScanRecs(n)
      BY <2>1, <3>2, <3>3 DEF ScanRecs
    <3>5. QED
      BY <2>1, <2>3, <3>1, <3>4 DEF Scans
  <2>4. CASE UNCHANGED future
             /\ scan' = [scan EXCEPT ![r].pass = 3, ![r].left = Rotation(s.start), ![r].start = 0]
    <3>1. Rotation(s.start) \in Seq(1..n) /\ 3 \in 0..3 /\ 0 \in Nat
      <4>1. s.start \in Nat
        BY <2>1 DEF ScanRecs
      <4>2. QED
        BY <1>0, <4>1, Rotations
    <3>2. scan'[r] = [s EXCEPT !.pass = 3, !.left = Rotation(s.start), !.start = 0]
      BY <2>4 DEF Scans
    <3>3. scan'[r] \in ScanRecs(n)
      BY <2>1, <3>1, <3>2 DEF ScanRecs
    <3>4. QED
      BY <2>1, <2>4, <3>3 DEF Scans
  <2>5. CASE scan' = [scan EXCEPT ![r] = NoScan]
             /\ future' = [future EXCEPT ![r] = IF s.anyOpen THEN "sleep" ELSE "refused"]
    BY <1>0, <2>1, <2>5 DEF Scans, Types
  <2>6. QED
    BY <1>2, <2>2, <2>3, <2>4, <2>5 DEF Aim
<1>3. ASSUME NEW r \in Requests, TryLane(r) PROVE Scans'
  <2>1. n' = n /\ future[r] = "scan" /\ scan[r].aim \in Slots
    BY <1>3, AimedAt DEF TryLane, poolVars
  <2>2. CASE scan' = [scan EXCEPT ![r] = NoScan] /\ future' = [future EXCEPT ![r] = "awaiting"]
    BY <1>0, <2>1, <2>2 DEF Scans, Types
  <2>3. CASE UNCHANGED future
             /\ scan' = [scan EXCEPT ![r].aim = None, ![r].anyOpen = @ \/ open[scan[r].aim]]
    <3>1. (scan[r].anyOpen \/ open[scan[r].aim]) \in BOOLEAN /\ None \in 0..n
      BY <1>0 DEF None
    <3>2. scan'[r] \in ScanRecs(n)
      BY <1>0, <2>3, <3>1 DEF ScanRecs, Scans
    <3>3. QED
      BY <2>1, <2>3, <3>2 DEF Scans
  <2>4. QED
    BY <1>3, <2>2, <2>3 DEF TryLane
<1>4. ASSUME NEW r \in Requests,
             HeadArrives(r) \/ Teardown(r) \/ QueueTimeout(r) \/ ClientAbort(r)
      PROVE  Scans'
  BY <1>4 DEF HeadArrives, Teardown, QueueTimeout, ClientAbort, poolVars, Scans, Types
<1>5. CASE ClaimSlot
  <2>1. CASE UNCHANGED <<future, scan, n>>
    BY <2>1 DEF Scans
  <2>2. CASE n' = n + 1 /\ Unlocked /\ UNCHANGED <<future, scan>>
    <3>1. \A r \in Requests : scan[r] = NoScan
      BY <2>2 DEF Unlocked, Scans
    <3>2. NoScan \in ScanRecs(n + 1)
      BY <1>0, NoScanFits
    <3>3. QED
      BY <2>2, <3>1, <3>2 DEF Scans
  <2>3. QED
    BY <1>5, <2>1, <2>2 DEF ClaimSlot, frontVars
<1>6. CASE UNCHANGED <<future, scan, n>>
  BY <1>6 DEF Scans
<1>7. ASSUME Grow \/ StartClose \/ Main \/ UNCHANGED vars PROVE UNCHANGED <<future, scan, n>>
  BY <1>7 DEF Grow, StartClose, Main, CloseNext, FlagDrain, JoinWorkers, InterruptAll, vars,
              frontVars, poolVars
<1>8. QED
  BY <1>1, <1>2, <1>3, <1>4, <1>5, <1>6, <1>7, WorkersLeaveScans DEF Next, Dispatch

\* A step that moves one worker that is neither unborn nor in the bank, and
\* leaves it so, keeps the tables.
LEMMA TablesKept ==
  ASSUME Types, Tables, UNCHANGED <<n, free>>, NEW w \in Slots, pc[w] \notin {"unborn", "free"},
         NEW q \in PcStates \ {"unborn", "free"}, pc' = [pc EXCEPT ![w] = q]
  PROVE  Tables'
  BY SlotTable DEF Tables, Types

\* A step keeps the slot table and the bank.
LEMMA TablesStep ==
  ASSUME Types, Tables, [Next]_vars
  PROVE  Tables'
<1>1. ASSUME NEW w \in Slots, Take(w) \/ Serve(w) \/ Crash(w) \/ Decide(w) PROVE Tables'
  <2>1. UNCHANGED <<n, free>> /\ pc[w] \notin {"unborn", "free"}
    BY <1>1 DEF Take, TakeOwn, Steal, Park, Wait, AfterTimeout, Serve, Crash, Decide, poolVars
  <2>2. \E q \in PcStates \ {"unborn", "free"} : pc' = [pc EXCEPT ![w] = q]
    BY <1>1 DEF Take, TakeOwn, Steal, Park, Wait, AfterTimeout, Serve, Crash, Decide,
                TakeFrom, Leave, PcStates
  <2>3. QED
    BY <2>1, <2>2, TablesKept
<1>2. ASSUME NEW w \in Slots, Release(w) PROVE Tables'
  <2>1. /\ pc[w] = "exited" /\ pc' = [pc EXCEPT ![w] = "free"] /\ free' = Append(free, w) /\ n' = n
    BY <1>2 DEF Release
  <2>2. w \in 1..n
    BY <2>1, SlotTable DEF Tables, Slots
  <2>3. /\ Len(free') = Len(free) + 1 /\ Len(free) \in Nat /\ free'[Len(free) + 1] = w
        /\ \A i \in 1..Len(free) : free'[i] = free[i]
        /\ free' \in Seq(1..n)
    BY <2>1, <2>2, Appended DEF Tables
  <2>4. \A i \in 1..Len(free') : i \in 1..Len(free) \/ i = Len(free) + 1
    BY <2>3
  <2>5. \A i \in 1..Len(free) : free[i] # w /\ free[i] \in Slots
    BY <2>1, SlotTable DEF Tables
  <2>6. \A i \in 1..Len(free') : pc'[free'[i]] = "free"
    BY <2>1, <2>3, <2>4, <2>5 DEF Tables, Types
  <2>7. \A i, j \in 1..Len(free') : free'[i] = free'[j] => i = j
    BY <2>3, <2>4, <2>5 DEF Tables
  <2>8. QED
    BY <2>1, <2>2, <2>3, <2>6, <2>7, SlotTable DEF Tables, Types
<1>3. CASE ClaimSlot
  <2>1. CASE UNCHANGED <<n, free, pc>>
    BY <2>1 DEF Tables
  <2>2. CASE free # <<>> /\ n' = n /\ free' = Front(free) /\ pc' = [pc EXCEPT ![Last(free)] = "own"]
    <3>1. /\ Front(free) \in Seq(1..n) /\ Last(free) = free[Len(free)]
          /\ Len(free) \in Nat \ {0} /\ Len(Front(free)) = Len(free) - 1
          /\ \A i \in 1..Len(Front(free)) : Front(free)[i] = free[i]
      BY <2>2, FrontLast DEF Tables
    <3>2. \A i \in 1..Len(Front(free)) : i \in 1..Len(free) /\ free[i] # Last(free) /\ free[i] \in Slots
      BY <3>1, SlotTable DEF Tables
    <3>3. Last(free) \in Slots /\ Last(free) \in 1..n
      BY <2>2, FreeSlot
    <3>4. \A i \in 1..Len(free') : pc'[free'[i]] = "free"
      BY <2>2, <3>1, <3>2 DEF Tables, Types
    <3>5. \A i, j \in 1..Len(free') : free'[i] = free'[j] => i = j
      BY <2>2, <3>1, <3>2 DEF Tables
    <3>6. \A w \in Slots : pc'[w] = "unborn" <=> w > n
      BY <2>2, <3>3, SlotTable DEF Tables, Types, Slots
    <3>7. QED
      BY <2>2, <3>1, <3>4, <3>5, <3>6 DEF Tables
  <2>3. CASE free = <<>> /\ n < MaxSlots /\ n' = n + 1 /\ pc' = [pc EXCEPT ![n + 1] = "own"]
             /\ UNCHANGED free
    <3>1. n + 1 \in Slots /\ n \in Nat
      BY <2>3, SlotTable
    <3>2. \A w \in Slots : pc'[w] = "unborn" <=> w > n + 1
      BY <2>3, <3>1 DEF Tables, Types, Slots
    <3>3. free' \in Seq(1..(n + 1)) /\ Len(free') = 0
      BY <2>3
    <3>4. QED
      BY <2>3, <3>2, <3>3 DEF Tables
  <2>4. QED
    BY <1>3, <2>1, <2>2, <2>3 DEF ClaimSlot
<1>4. ASSUME NEW w \in Slots, AbortCurrent(w) \/ AbortClose(w) \/ AbortDrain(w) \/ Retire(w)
      PROVE  UNCHANGED <<n, free, pc>>
  BY <1>4 DEF AbortCurrent, AbortClose, AbortDrain, Retire, poolVars
<1>5. ASSUME NEW r \in Requests, Dispatch(r) \/ QueueTimeout(r) \/ ClientAbort(r)
      PROVE  UNCHANGED <<n, free, pc>>
  BY <1>5 DEF Dispatch, BeginScan, Aim, TryLane, HeadArrives, Teardown, QueueTimeout, ClientAbort,
              poolVars
<1>6. ASSUME Grow \/ StartClose \/ Main \/ UNCHANGED vars PROVE UNCHANGED <<n, free, pc>>
  BY <1>6 DEF Grow, StartClose, Main, CloseNext, FlagDrain, JoinWorkers, InterruptAll, vars, poolVars
<1>7. CASE UNCHANGED <<n, free, pc>>
  BY <1>7 DEF Tables
<1>8. QED
  BY <1>1, <1>2, <1>3, <1>4, <1>5, <1>6, <1>7 DEF Next, Supervise

\* A step leaves a request in a hand exactly where a worker serves or crashed.
LEMMA HandsStep ==
  ASSUME Types, Tables, Hands, [Next]_vars
  PROVE  Hands'
<1> USE DEF Hands, frontVars, laneVars, poolVars, mainVars
<1>1. ASSUME NEW r \in Requests, BeginScan(r) PROVE Hands'
  BY <1>1 DEF BeginScan
<1>2. ASSUME NEW r \in Requests, Aim(r) PROVE Hands'
  BY <1>2 DEF Aim
<1>3. ASSUME NEW r \in Requests, TryLane(r) PROVE Hands'
  BY <1>3 DEF TryLane
<1>4. ASSUME NEW r \in Requests, HeadArrives(r) PROVE Hands'
  BY <1>4 DEF HeadArrives
<1>5. ASSUME NEW r \in Requests, Teardown(r) PROVE Hands'
  BY <1>5 DEF Teardown
<1>6. ASSUME NEW r \in Requests, QueueTimeout(r) PROVE Hands'
  BY <1>6 DEF QueueTimeout
<1>7. ASSUME NEW r \in Requests, ClientAbort(r) PROVE Hands'
  BY <1>7 DEF ClientAbort
<1>8. ASSUME NEW w \in Slots, TakeOwn(w) PROVE Hands'
  <2>1. ASSUME NEW v \in Slots, TakeFrom(w, v) PROVE Hands'
    BY <2>1, TakeFromTypes DEF TakeFrom, Types
  <2>2. QED
    BY <1>8, <2>1, SlotTable DEF TakeOwn, Leave, Types
<1>9. ASSUME NEW w \in Slots, Steal(w) PROVE Hands'
  <2>1. ASSUME NEW v \in Slots, TakeFrom(w, v) PROVE Hands'
    BY <2>1, TakeFromTypes DEF TakeFrom, Types
  <2>2. QED
    BY <1>9, <2>1, SlotTable DEF Steal, Leave, Types
<1>10. ASSUME NEW w \in Slots, Park(w) PROVE Hands'
  BY <1>10 DEF Park, Types
<1>11. ASSUME NEW w \in Slots, Wait(w) PROVE Hands'
  <2>1. ASSUME NEW v \in Slots, TakeFrom(w, v) PROVE Hands'
    BY <2>1, TakeFromTypes DEF TakeFrom, Types
  <2>2. QED
    BY <1>11, <2>1, SlotTable DEF Wait, Leave, Types
<1>12. ASSUME NEW w \in Slots, AfterTimeout(w) PROVE Hands'
  <2>1. ASSUME NEW v \in Slots, TakeFrom(w, v) PROVE Hands'
    BY <2>1, TakeFromTypes DEF TakeFrom, Types
  <2>2. QED
    BY <1>12, <2>1, SlotTable DEF AfterTimeout, Leave, Types
<1>13. ASSUME NEW w \in Slots, Serve(w) PROVE Hands'
  BY <1>13 DEF Serve, Types
<1>14. ASSUME NEW w \in Slots, Crash(w) PROVE Hands'
  BY <1>14 DEF Crash, Types
<1>15. ASSUME NEW w \in Slots, AbortCurrent(w) PROVE Hands'
  BY <1>15 DEF AbortCurrent
<1>16. ASSUME NEW w \in Slots, AbortClose(w) PROVE Hands'
  BY <1>16 DEF AbortClose
<1>17. ASSUME NEW w \in Slots, AbortDrain(w) PROVE Hands'
  BY <1>17 DEF AbortDrain
<1>18. ASSUME NEW w \in Slots, Decide(w) PROVE Hands'
  BY <1>18 DEF Decide, Types
<1>19. ASSUME NEW w \in Slots, Release(w) PROVE Hands'
  BY <1>19 DEF Release, Types
<1>20. ASSUME NEW w \in Slots, Retire(w) PROVE Hands'
  BY <1>20 DEF Retire
<1>21. CASE ClaimSlot
  <2>1. free # <<>> => Last(free) \in Slots
    BY FreeSlot
  <2>2. n < MaxSlots => n + 1 \in Slots /\ pc[n + 1] = "unborn"
    BY SlotTable DEF Tables
  <2>3. QED
    BY <1>21, <2>1, <2>2 DEF ClaimSlot, Types
<1>22. CASE Grow
  BY <1>22 DEF Grow
<1>23. CASE StartClose
  BY <1>23 DEF StartClose
<1>24. CASE CloseNext
  BY <1>24 DEF CloseNext
<1>25. CASE FlagDrain
  BY <1>25 DEF FlagDrain
<1>26. CASE JoinWorkers
  BY <1>26 DEF JoinWorkers
<1>27. CASE InterruptAll
  BY <1>27 DEF InterruptAll
<1>28. CASE UNCHANGED vars
  BY <1>28 DEF vars
<1>29. QED
  BY <1>1, <1>2, <1>3, <1>4, <1>5, <1>6, <1>7, <1>8, <1>9, <1>10, <1>11, <1>12, <1>13,
     <1>14, <1>15, <1>16, <1>17, <1>18, <1>19, <1>20, <1>21, <1>22, <1>23, <1>24, <1>25,
     <1>26, <1>27, <1>28
  DEF Next, Dispatch, Take, Supervise, Main

-----------------------------------------------------------------------------
(* Lanes without a worker                                                  *)

\* A take shortens a lane, and makes nobody a worker that is gone.
LEMMA TakeKeepsEmpty ==
  ASSUME Types, NEW w \in Slots, NEW v \in Slots, TakeFrom(w, v)
  PROVE  /\ \A u \in Slots : lane[u] = <<>> => lane'[u] = <<>>
         /\ pc' = [pc EXCEPT ![w] = "serve"]
  BY DEF TakeFrom, Types

\* A step keeps closed or retired what a worker left behind.
LEMMA ShutStep ==
  ASSUME Types, Flags, Scans, Tables, Shut, [Next]_vars
  PROVE  Shut'
<1> USE DEF Shut, Types, Flags, frontVars, laneVars, poolVars, mainVars
<1>1. ASSUME NEW r \in Requests, BeginScan(r) PROVE Shut'
  BY <1>1 DEF BeginScan
<1>2. ASSUME NEW r \in Requests, Aim(r) PROVE Shut'
  BY <1>2 DEF Aim
<1>3. ASSUME NEW r \in Requests, TryLane(r) PROVE Shut'
  <2>0. Types
    OBVIOUS
  <2>1. scan[r].aim \in Slots
    BY <1>3, <2>0, AimedAt DEF TryLane
  <2>2. QED
    BY <1>3, <2>1 DEF TryLane
<1>4. ASSUME NEW r \in Requests, HeadArrives(r) PROVE Shut'
  BY <1>4 DEF HeadArrives
<1>5. ASSUME NEW r \in Requests, Teardown(r) PROVE Shut'
  BY <1>5 DEF Teardown
<1>6. ASSUME NEW r \in Requests, QueueTimeout(r) PROVE Shut'
  BY <1>6 DEF QueueTimeout
<1>7. ASSUME NEW r \in Requests, ClientAbort(r) PROVE Shut'
  BY <1>7 DEF ClientAbort
<1>8. ASSUME NEW w \in Slots, TakeOwn(w) PROVE Shut'
  <2>0. Types
    OBVIOUS
  <2>1. CASE \E v \in Slots : TakeFrom(w, v)
    BY <1>8, <2>0, <2>1, TakeKeepsEmpty DEF TakeOwn
  <2>2. CASE ~\E v \in Slots : TakeFrom(w, v)
    BY <1>8, <2>0, <2>2, SlotTable DEF TakeOwn, Leave
  <2>3. QED
    BY <2>1, <2>2
<1>9. ASSUME NEW w \in Slots, Steal(w) PROVE Shut'
  <2>0. Types
    OBVIOUS
  <2>1. CASE \E v \in Slots : TakeFrom(w, v)
    BY <1>9, <2>0, <2>1, TakeKeepsEmpty DEF Steal
  <2>2. CASE ~\E v \in Slots : TakeFrom(w, v)
    BY <1>9, <2>0, <2>2, SlotTable DEF Steal, Leave
  <2>3. QED
    BY <2>1, <2>2
<1>10. ASSUME NEW w \in Slots, Park(w) PROVE Shut'
  BY <1>10 DEF Park
<1>11. ASSUME NEW w \in Slots, Wait(w) PROVE Shut'
  <2>0. Types
    OBVIOUS
  <2>1. CASE \E v \in Slots : TakeFrom(w, v)
    BY <1>11, <2>0, <2>1, TakeKeepsEmpty DEF Wait
  <2>2. CASE ~\E v \in Slots : TakeFrom(w, v)
    BY <1>11, <2>0, <2>2, SlotTable DEF Wait, Leave
  <2>3. QED
    BY <2>1, <2>2
<1>12. ASSUME NEW w \in Slots, AfterTimeout(w) PROVE Shut'
  <2>0. Types
    OBVIOUS
  <2>1. CASE \E v \in Slots : TakeFrom(w, v)
    BY <1>12, <2>0, <2>1, TakeKeepsEmpty DEF AfterTimeout
  <2>2. CASE ~\E v \in Slots : TakeFrom(w, v)
    BY <1>12, <2>0, <2>2, SlotTable DEF AfterTimeout, Leave
  <2>3. QED
    BY <2>1, <2>2
<1>13. ASSUME NEW w \in Slots, Serve(w) PROVE Shut'
  BY <1>13 DEF Serve
<1>14. ASSUME NEW w \in Slots, Crash(w) PROVE Shut'
  BY <1>14 DEF Crash
<1>15. ASSUME NEW w \in Slots, AbortCurrent(w) PROVE Shut'
  BY <1>15 DEF AbortCurrent
<1>16. ASSUME NEW w \in Slots, AbortClose(w) PROVE Shut'
  BY <1>16 DEF AbortClose
<1>17. ASSUME NEW w \in Slots, AbortDrain(w) PROVE Shut'
  BY <1>17 DEF AbortDrain
<1>18. ASSUME NEW w \in Slots, Decide(w) PROVE Shut'
  BY <1>18 DEF Decide
<1>19. ASSUME NEW w \in Slots, Release(w) PROVE Shut'
  BY <1>19 DEF Release
<1>20. ASSUME NEW w \in Slots, Retire(w) PROVE Shut'
  BY <1>20 DEF Retire
<1>21. CASE ClaimSlot
  <2>0. Types
    OBVIOUS
  <2>1. free # <<>> => Last(free) \in Slots
    BY <2>0, FreeSlot
  <2>2. n < MaxSlots => n + 1 \in Slots
    BY <2>0, SlotTable
  <2>3. UNCHANGED <<lane, open, abort, phase>>
    BY <1>21 DEF ClaimSlot
  <2>4. CASE UNCHANGED <<pc, retired, interrupted>>
    BY <2>3, <2>4
  <2>5. CASE /\ free # <<>> /\ pc' = [pc EXCEPT ![Last(free)] = "own"]
             /\ retired' = [retired EXCEPT ![Last(free)] = FALSE]
             /\ interrupted' = [interrupted EXCEPT ![Last(free)] = FALSE]
    <3>1. \A w \in Slots : w # Last(free) => pc'[w] = pc[w] /\ retired'[w] = retired[w]
                                             /\ interrupted'[w] = interrupted[w]
      BY <2>1, <2>5
    <3>2. Last(free) \in Slots /\ pc'[Last(free)] = "own" /\ ~interrupted'[Last(free)]
      BY <2>1, <2>5
    <3>3. QED
      BY <2>3, <3>1, <3>2
  <2>6. CASE n < MaxSlots /\ pc' = [pc EXCEPT ![n + 1] = "own"] /\ UNCHANGED <<retired, interrupted>>
    BY <2>2, <2>3, <2>6
  <2>7. QED
    BY <1>21, <2>4, <2>5, <2>6 DEF ClaimSlot
<1>22. CASE Grow
  BY <1>22 DEF Grow
<1>23. CASE StartClose
  BY <1>23 DEF StartClose
<1>24. CASE CloseNext
  BY <1>24 DEF CloseNext
<1>25. CASE FlagDrain
  BY <1>25 DEF FlagDrain
<1>26. CASE JoinWorkers
  BY <1>26 DEF JoinWorkers
<1>27. CASE InterruptAll
  BY <1>27 DEF InterruptAll
<1>28. CASE UNCHANGED vars
  BY <1>28 DEF vars
<1>29. QED
  BY <1>1, <1>2, <1>3, <1>4, <1>5, <1>6, <1>7, <1>8, <1>9, <1>10, <1>11, <1>12, <1>13,
     <1>14, <1>15, <1>16, <1>17, <1>18, <1>19, <1>20, <1>21, <1>22, <1>23, <1>24, <1>25,
     <1>26, <1>27, <1>28
  DEF Next, Dispatch, Take, Supervise, Main

\* A step leaves no backlog in a lane without a worker.
LEMMA OrphanStep ==
  ASSUME Types, Flags, Scans, Tables, Shut, NoOrphanedLane, [Next]_vars
  PROVE  NoOrphanedLane'
<1> USE DEF NoOrphanedLane, Shut, Types, frontVars, laneVars, poolVars, mainVars
<1>1. ASSUME NEW r \in Requests, BeginScan(r) PROVE NoOrphanedLane'
  BY <1>1 DEF BeginScan
<1>2. ASSUME NEW r \in Requests, Aim(r) PROVE NoOrphanedLane'
  BY <1>2 DEF Aim
<1>3. ASSUME NEW r \in Requests, TryLane(r) PROVE NoOrphanedLane'
  <2>0. Types
    OBVIOUS
  <2>1. scan[r].aim \in Slots /\ pc[scan[r].aim] # "unborn"
    BY <1>3, <2>0, AimedAt, SlotTable DEF TryLane, Tables
  <2>2. QED
    BY <1>3, <2>1 DEF TryLane
<1>4. ASSUME NEW r \in Requests, HeadArrives(r) PROVE NoOrphanedLane'
  BY <1>4 DEF HeadArrives
<1>5. ASSUME NEW r \in Requests, Teardown(r) PROVE NoOrphanedLane'
  BY <1>5 DEF Teardown
<1>6. ASSUME NEW r \in Requests, QueueTimeout(r) PROVE NoOrphanedLane'
  BY <1>6 DEF QueueTimeout
<1>7. ASSUME NEW r \in Requests, ClientAbort(r) PROVE NoOrphanedLane'
  BY <1>7 DEF ClientAbort
<1>8. ASSUME NEW w \in Slots, TakeOwn(w) PROVE NoOrphanedLane'
  <2>0. Types
    OBVIOUS
  <2>1. CASE \E v \in Slots : TakeFrom(w, v)
    BY <1>8, <2>0, <2>1, TakeKeepsEmpty DEF TakeOwn
  <2>2. CASE ~\E v \in Slots : TakeFrom(w, v)
    BY <1>8, <2>0, <2>2, SlotTable DEF TakeOwn, Leave
  <2>3. QED
    BY <2>1, <2>2
<1>9. ASSUME NEW w \in Slots, Steal(w) PROVE NoOrphanedLane'
  <2>0. Types
    OBVIOUS
  <2>1. CASE \E v \in Slots : TakeFrom(w, v)
    BY <1>9, <2>0, <2>1, TakeKeepsEmpty DEF Steal
  <2>2. CASE ~\E v \in Slots : TakeFrom(w, v)
    BY <1>9, <2>0, <2>2, SlotTable DEF Steal, Leave
  <2>3. QED
    BY <2>1, <2>2
<1>10. ASSUME NEW w \in Slots, Park(w) PROVE NoOrphanedLane'
  BY <1>10 DEF Park
<1>11. ASSUME NEW w \in Slots, Wait(w) PROVE NoOrphanedLane'
  <2>0. Types
    OBVIOUS
  <2>1. CASE \E v \in Slots : TakeFrom(w, v)
    BY <1>11, <2>0, <2>1, TakeKeepsEmpty DEF Wait
  <2>2. CASE ~\E v \in Slots : TakeFrom(w, v)
    BY <1>11, <2>0, <2>2, SlotTable DEF Wait, Leave
  <2>3. QED
    BY <2>1, <2>2
<1>12. ASSUME NEW w \in Slots, AfterTimeout(w) PROVE NoOrphanedLane'
  <2>0. Types
    OBVIOUS
  <2>1. CASE \E v \in Slots : TakeFrom(w, v)
    BY <1>12, <2>0, <2>1, TakeKeepsEmpty DEF AfterTimeout
  <2>2. CASE ~\E v \in Slots : TakeFrom(w, v)
    BY <1>12, <2>0, <2>2, SlotTable DEF AfterTimeout, Leave
  <2>3. QED
    BY <2>1, <2>2
<1>13. ASSUME NEW w \in Slots, Serve(w) PROVE NoOrphanedLane'
  BY <1>13 DEF Serve
<1>14. ASSUME NEW w \in Slots, Crash(w) PROVE NoOrphanedLane'
  BY <1>14 DEF Crash
<1>15. ASSUME NEW w \in Slots, AbortCurrent(w) PROVE NoOrphanedLane'
  BY <1>15 DEF AbortCurrent
<1>16. ASSUME NEW w \in Slots, AbortClose(w) PROVE NoOrphanedLane'
  BY <1>16 DEF AbortClose
<1>17. ASSUME NEW w \in Slots, AbortDrain(w) PROVE NoOrphanedLane'
  BY <1>17 DEF AbortDrain
<1>18. ASSUME NEW w \in Slots, Decide(w) PROVE NoOrphanedLane'
  BY <1>18 DEF Decide
<1>19. ASSUME NEW w \in Slots, Release(w) PROVE NoOrphanedLane'
  BY <1>19 DEF Release
<1>20. ASSUME NEW w \in Slots, Retire(w) PROVE NoOrphanedLane'
  BY <1>20 DEF Retire
<1>21. CASE ClaimSlot
  <2>0. Types
    OBVIOUS
  <2>1. free # <<>> => Last(free) \in Slots
    BY <2>0, FreeSlot
  <2>2. n < MaxSlots => n + 1 \in Slots
    BY <2>0, SlotTable
  <2>3. QED
    BY <1>21, <2>1, <2>2 DEF ClaimSlot
<1>22. CASE Grow
  BY <1>22 DEF Grow
<1>23. CASE StartClose
  BY <1>23 DEF StartClose
<1>24. CASE CloseNext
  BY <1>24 DEF CloseNext
<1>25. CASE FlagDrain
  BY <1>25 DEF FlagDrain
<1>26. CASE JoinWorkers
  BY <1>26 DEF JoinWorkers
<1>27. CASE InterruptAll
  BY <1>27 DEF InterruptAll
<1>28. CASE UNCHANGED vars
  BY <1>28 DEF vars
<1>29. QED
  BY <1>1, <1>2, <1>3, <1>4, <1>5, <1>6, <1>7, <1>8, <1>9, <1>10, <1>11, <1>12, <1>13,
     <1>14, <1>15, <1>16, <1>17, <1>18, <1>19, <1>20, <1>21, <1>22, <1>23, <1>24, <1>25,
     <1>26, <1>27, <1>28
  DEF Next, Dispatch, Take, Supervise, Main

\* The part of the invariant about shapes and lanes is inductive.
LEMMA CoreStep ==
  ASSUME Core, [Next]_vars
  PROVE  Core'
  BY TypesStep, FlagsStep, ScansStep, TablesStep, HandsStep, ShutStep, OrphanStep DEF Core

\* It holds at boot.
LEMMA CoreInit ==
  ASSUME Init
  PROVE  Core
<1>1. Types
  BY LaneAssumption DEF Init, Types, FutureStates, PcStates, Phases, Slots
<1>2. Flags
  BY DEF Init, Flags
<1>3. Scans
  BY NoScanFits DEF Init, Scans
<1>4. Tables
  BY LaneAssumption DEF Init, Tables, Slots
<1>5. Hands /\ Shut /\ NoOrphanedLane
  BY DEF Init, Hands, Shut, NoOrphanedLane
<1>6. QED
  BY <1>1, <1>2, <1>3, <1>4, <1>5 DEF Core

\* For any requests, slots, lane depth and faults, the lane of a slot without
\* a worker is empty (registry.rs:282-286, queue.rs:30-35): NoOrphanedLane.
THEOREM NobodyLeftBehind == Spec => []NoOrphanedLane
<1>1. Init => Core
  BY CoreInit
<1>2. Core /\ [Next]_vars => Core'
  BY CoreStep
<1>3. Core => NoOrphanedLane
  BY DEF Core
<1>4. QED
  BY <1>1, <1>2, <1>3, PTL DEF Spec

-----------------------------------------------------------------------------
(* One place per context                                                   *)

\* Nothing moves, and nobody is dispatched or undone.
Still ==
  /\ UNCHANGED <<lane, hand>>
  /\ \A r \in Requests : /\ future'[r] \in Undispatched => future[r] \in Undispatched
                         /\ future'[r] = "awaiting" => future[r] = "awaiting"

\* try_lane hands r over to w's lane.
Enters(r, w) ==
  /\ future[r] = "scan" /\ future' = [future EXCEPT ![r] = "awaiting"]
  /\ lane' = [lane EXCEPT ![w] = Append(@, r)] /\ UNCHANGED hand

\* An empty-handed w takes the head of v's lane.
Takes(w, v) == hand[w] = None /\ TakeFrom(w, v) /\ UNCHANGED future

\* w lets go of a request that has its answer.
LetsGo(w) ==
  /\ hand' = [hand EXCEPT ![w] = None] /\ hand[w] \in answered'
  /\ UNCHANGED <<lane, future>>

\* w's lane is emptied, and what was in it answered.
Drains(w) ==
  /\ lane' = [lane EXCEPT ![w] = <<>>] /\ ToSet(lane[w]) \subseteq answered'
  /\ UNCHANGED <<hand, future>>

\* Every step does one of these five things.
Moves ==
  \/ Still
  \/ \E r \in Requests, w \in Slots : Enters(r, w)
  \/ \E w, v \in Slots : Takes(w, v)
  \/ \E w \in Slots : LetsGo(w) \/ Drains(w)

\* Every step of the specification is one of the moves.
LEMMA MovesOnly ==
  ASSUME Core, Freed, [Next]_vars
  PROVE  Moves
<1>0. Types /\ Scans /\ Tables /\ Hands
  BY DEF Core
<1>1. CASE UNCHANGED <<lane, hand, future>>
  BY <1>1 DEF Moves, Still
<1>2. ASSUME NEW r \in Requests, Dispatch(r) \/ QueueTimeout(r) \/ ClientAbort(r) PROVE Moves
  <2>1. CASE TryLane(r)
    <3>1. scan[r].aim \in Slots
      BY <1>0, <2>1, AimedAt DEF TryLane
    <3>2. Enters(r, scan[r].aim) \/ UNCHANGED <<lane, hand, future>>
      BY <2>1 DEF TryLane, Enters
    <3>3. QED
      BY <1>1, <3>1, <3>2 DEF Moves
  <2>2. CASE BeginScan(r) \/ Aim(r) \/ HeadArrives(r) \/ Teardown(r) \/ QueueTimeout(r) \/ ClientAbort(r)
    <3>1. UNCHANGED <<lane, hand>>
      BY <2>2 DEF BeginScan, Aim, HeadArrives, Teardown, QueueTimeout, ClientAbort, laneVars
    <3>2. \E q \in FutureStates :
            /\ future' = [future EXCEPT ![r] = q] \/ UNCHANGED future
            /\ q # "awaiting" /\ (q \in Undispatched => future[r] \in Undispatched)
      BY <2>2 DEF BeginScan, Aim, HeadArrives, Teardown, QueueTimeout, ClientAbort, Undispatched,
                  FutureStates
    <3>3. Still
      BY <1>0, <3>1, <3>2 DEF Still, Types
    <3>4. QED
      BY <3>3 DEF Moves
  <2>3. QED
    BY <1>2, <2>1, <2>2 DEF Dispatch
<1>3. ASSUME NEW w \in Slots, Take(w) PROVE Moves
  <2>1. UNCHANGED future /\ hand[w] = None
    BY <1>0, <1>3 DEF Take, TakeOwn, Steal, Park, Wait, AfterTimeout, frontVars, Hands
  <2>2. (\E v \in Slots : TakeFrom(w, v)) \/ UNCHANGED <<lane, hand>>
    BY <1>0, <1>3, SlotTable DEF Take, TakeOwn, Steal, Park, Wait, AfterTimeout, Leave
  <2>3. QED
    BY <1>1, <2>1, <2>2 DEF Moves, Takes
<1>4. ASSUME NEW w \in Slots, Serve(w) \/ Decide(w) PROVE Moves
  <2>1. LetsGo(w)
    BY <1>4 DEF Serve, Decide, LetsGo, Freed, frontVars, laneVars
  <2>2. QED
    BY <2>1 DEF Moves
<1>5. ASSUME NEW w \in Slots, AbortDrain(w) PROVE Moves
  <2>1. Drains(w)
    BY <1>5 DEF AbortDrain, Drains, frontVars
  <2>2. QED
    BY <2>1 DEF Moves
<1>6. ASSUME NEW w \in Slots,
             Crash(w) \/ AbortCurrent(w) \/ AbortClose(w) \/ Release(w) \/ Retire(w)
      PROVE  UNCHANGED <<lane, hand, future>>
  BY <1>6 DEF Crash, AbortCurrent, AbortClose, Release, Retire, frontVars, laneVars
<1>7. CASE ClaimSlot
  <2>1. free # <<>> => Last(free) \in Slots /\ hand[Last(free)] = None
    <3>1. ASSUME free # <<>> PROVE pc[Last(free)] = "free"
      <4>1. Last(free) = free[Len(free)] /\ Len(free) \in Nat \ {0}
        BY <1>0, <3>1, FrontLast DEF Tables
      <4>2. Len(free) \in 1..Len(free)
        BY <4>1
      <4>3. QED
        BY <1>0, <4>1, <4>2 DEF Tables
    <3>2. QED
      BY <1>0, <3>1, FreeSlot DEF Hands
  <2>2. UNCHANGED hand
    BY <1>0, <1>7, <2>1 DEF ClaimSlot, Types
  <2>3. QED
    BY <1>1, <1>7, <2>2 DEF ClaimSlot, frontVars
<1>8. ASSUME Grow \/ StartClose \/ Main \/ UNCHANGED vars PROVE UNCHANGED <<lane, hand, future>>
  BY <1>8 DEF Grow, StartClose, Main, CloseNext, FlagDrain, JoinWorkers, InterruptAll, vars,
              frontVars, laneVars
<1>9. QED
  BY <1>1, <1>2, <1>3, <1>4, <1>5, <1>6, <1>7, <1>8 DEF Next, Supervise

\* An answer is never taken back.
LEMMA AnswersStay ==
  ASSUME [Next]_vars
  PROVE  answered \subseteq answered'
<1> USE DEF frontVars, laneVars, poolVars, mainVars
<1>1. ASSUME NEW r \in Requests, BeginScan(r) PROVE answered \subseteq answered'
  BY <1>1 DEF BeginScan
<1>2. ASSUME NEW r \in Requests, Aim(r) PROVE answered \subseteq answered'
  BY <1>2 DEF Aim
<1>3. ASSUME NEW r \in Requests, TryLane(r) PROVE answered \subseteq answered'
  BY <1>3 DEF TryLane
<1>4. ASSUME NEW r \in Requests, HeadArrives(r) PROVE answered \subseteq answered'
  BY <1>4 DEF HeadArrives
<1>5. ASSUME NEW r \in Requests, Teardown(r) PROVE answered \subseteq answered'
  BY <1>5 DEF Teardown
<1>6. ASSUME NEW r \in Requests, QueueTimeout(r) PROVE answered \subseteq answered'
  BY <1>6 DEF QueueTimeout
<1>7. ASSUME NEW r \in Requests, ClientAbort(r) PROVE answered \subseteq answered'
  BY <1>7 DEF ClientAbort
<1>8. ASSUME NEW w \in Slots, TakeOwn(w) PROVE answered \subseteq answered'
  BY <1>8 DEF TakeOwn, TakeFrom, Leave
<1>9. ASSUME NEW w \in Slots, Steal(w) PROVE answered \subseteq answered'
  BY <1>9 DEF Steal, TakeFrom
<1>10. ASSUME NEW w \in Slots, Park(w) PROVE answered \subseteq answered'
  BY <1>10 DEF Park
<1>11. ASSUME NEW w \in Slots, Wait(w) PROVE answered \subseteq answered'
  BY <1>11 DEF Wait, TakeFrom, Leave
<1>12. ASSUME NEW w \in Slots, AfterTimeout(w) PROVE answered \subseteq answered'
  BY <1>12 DEF AfterTimeout, TakeFrom, Leave
<1>13. ASSUME NEW w \in Slots, Serve(w) PROVE answered \subseteq answered'
  BY <1>13 DEF Serve
<1>14. ASSUME NEW w \in Slots, Crash(w) PROVE answered \subseteq answered'
  BY <1>14 DEF Crash
<1>15. ASSUME NEW w \in Slots, AbortCurrent(w) PROVE answered \subseteq answered'
  BY <1>15 DEF AbortCurrent
<1>16. ASSUME NEW w \in Slots, AbortClose(w) PROVE answered \subseteq answered'
  BY <1>16 DEF AbortClose
<1>17. ASSUME NEW w \in Slots, AbortDrain(w) PROVE answered \subseteq answered'
  BY <1>17 DEF AbortDrain
<1>18. ASSUME NEW w \in Slots, Decide(w) PROVE answered \subseteq answered'
  BY <1>18 DEF Decide
<1>19. ASSUME NEW w \in Slots, Release(w) PROVE answered \subseteq answered'
  BY <1>19 DEF Release
<1>20. ASSUME NEW w \in Slots, Retire(w) PROVE answered \subseteq answered'
  BY <1>20 DEF Retire
<1>21. CASE ClaimSlot
  BY <1>21 DEF ClaimSlot
<1>22. CASE Grow
  BY <1>22 DEF Grow
<1>23. CASE StartClose
  BY <1>23 DEF StartClose
<1>24. CASE CloseNext
  BY <1>24 DEF CloseNext
<1>25. CASE FlagDrain
  BY <1>25 DEF FlagDrain
<1>26. CASE JoinWorkers
  BY <1>26 DEF JoinWorkers
<1>27. CASE InterruptAll
  BY <1>27 DEF InterruptAll
<1>28. CASE UNCHANGED vars
  BY <1>28 DEF vars
<1>29. QED
  BY <1>1, <1>2, <1>3, <1>4, <1>5, <1>6, <1>7, <1>8, <1>9, <1>10, <1>11, <1>12, <1>13,
     <1>14, <1>15, <1>16, <1>17, <1>18, <1>19, <1>20, <1>21, <1>22, <1>23, <1>24, <1>25,
     <1>26, <1>27, <1>28
  DEF Next, Dispatch, Take, Supervise, Main

\* abort_slot answers a crashed worker's request before anything else.
LEMMA FreedStep ==
  ASSUME Core, Freed, [Next]_vars
  PROVE  Freed'
<1>0. Types /\ Tables /\ Hands /\ Scans /\ answered \subseteq answered'
  BY AnswersStay DEF Core
<1> USE DEF Freed, frontVars, laneVars, poolVars, mainVars
<1>1. ASSUME NEW r \in Requests, BeginScan(r) PROVE Freed'
  BY <1>1, <1>0 DEF BeginScan
<1>2. ASSUME NEW r \in Requests, Aim(r) PROVE Freed'
  BY <1>2, <1>0 DEF Aim
<1>3. ASSUME NEW r \in Requests, TryLane(r) PROVE Freed'
  BY <1>3, <1>0 DEF TryLane
<1>4. ASSUME NEW r \in Requests, HeadArrives(r) PROVE Freed'
  BY <1>4, <1>0 DEF HeadArrives
<1>5. ASSUME NEW r \in Requests, Teardown(r) PROVE Freed'
  BY <1>5, <1>0 DEF Teardown
<1>6. ASSUME NEW r \in Requests, QueueTimeout(r) PROVE Freed'
  BY <1>6, <1>0 DEF QueueTimeout
<1>7. ASSUME NEW r \in Requests, ClientAbort(r) PROVE Freed'
  BY <1>7, <1>0 DEF ClientAbort
<1>8. ASSUME NEW w \in Slots, TakeOwn(w) PROVE Freed'
  <2>1. ASSUME NEW v \in Slots, TakeFrom(w, v) PROVE Freed'
    BY <1>0, <1>8, <2>1 DEF TakeOwn, TakeFrom, Types
  <2>2. QED
    BY <1>0, <1>8, <2>1, SlotTable DEF TakeOwn, Leave, Types
<1>9. ASSUME NEW w \in Slots, Steal(w) PROVE Freed'
  <2>1. ASSUME NEW v \in Slots, TakeFrom(w, v) PROVE Freed'
    BY <1>0, <1>9, <2>1 DEF Steal, TakeFrom, Types
  <2>2. QED
    BY <1>0, <1>9, <2>1, SlotTable DEF Steal, Leave, Types
<1>10. ASSUME NEW w \in Slots, Park(w) PROVE Freed'
  BY <1>0, <1>10 DEF Park, Types
<1>11. ASSUME NEW w \in Slots, Wait(w) PROVE Freed'
  <2>1. ASSUME NEW v \in Slots, TakeFrom(w, v) PROVE Freed'
    BY <1>0, <1>11, <2>1 DEF Wait, TakeFrom, Types
  <2>2. QED
    BY <1>0, <1>11, <2>1, SlotTable DEF Wait, Leave, Types
<1>12. ASSUME NEW w \in Slots, AfterTimeout(w) PROVE Freed'
  <2>1. ASSUME NEW v \in Slots, TakeFrom(w, v) PROVE Freed'
    BY <1>0, <1>12, <2>1 DEF AfterTimeout, TakeFrom, Types
  <2>2. QED
    BY <1>0, <1>12, <2>1, SlotTable DEF AfterTimeout, Leave, Types
<1>13. ASSUME NEW w \in Slots, Serve(w) PROVE Freed'
  BY <1>0, <1>13 DEF Serve, Types
<1>14. ASSUME NEW w \in Slots, Crash(w) PROVE Freed'
  BY <1>0, <1>14 DEF Crash, Types
<1>15. ASSUME NEW w \in Slots, AbortCurrent(w) PROVE Freed'
  <2>1. pc[w] = "crashed" => hand[w] \in answered'
    BY <1>0, <1>15, LaneAssumption DEF AbortCurrent, Hands
  <2>2. QED
    BY <1>0, <1>15, <2>1 DEF AbortCurrent, Types
<1>16. ASSUME NEW w \in Slots, AbortClose(w) PROVE Freed'
  BY <1>0, <1>16 DEF AbortClose, Types
<1>17. ASSUME NEW w \in Slots, AbortDrain(w) PROVE Freed'
  BY <1>0, <1>17 DEF AbortDrain, Types
<1>18. ASSUME NEW w \in Slots, Decide(w) PROVE Freed'
  BY <1>0, <1>18 DEF Decide, Types
<1>19. ASSUME NEW w \in Slots, Release(w) PROVE Freed'
  BY <1>0, <1>19 DEF Release, Types
<1>20. ASSUME NEW w \in Slots, Retire(w) PROVE Freed'
  BY <1>20, <1>0 DEF Retire
<1>21. CASE ClaimSlot
  <2>1. free # <<>> => Last(free) \in Slots
    BY <1>0, FreeSlot
  <2>2. n < MaxSlots => n + 1 \in Slots
    BY <1>0, SlotTable
  <2>3. UNCHANGED <<abort, answered>>
    BY <1>21 DEF ClaimSlot
  <2>4. CASE UNCHANGED <<pc, hand>>
    BY <2>3, <2>4
  <2>5. CASE free # <<>> /\ pc' = [pc EXCEPT ![Last(free)] = "own"]
             /\ hand' = [hand EXCEPT ![Last(free)] = None]
    BY <1>0, <2>1, <2>3, <2>5 DEF Types
  <2>6. CASE n < MaxSlots /\ pc' = [pc EXCEPT ![n + 1] = "own"] /\ UNCHANGED hand
    BY <1>0, <2>2, <2>3, <2>6 DEF Types
  <2>7. QED
    BY <1>21, <2>4, <2>5, <2>6 DEF ClaimSlot
<1>22. CASE Grow
  BY <1>22, <1>0 DEF Grow
<1>23. CASE StartClose
  BY <1>23, <1>0 DEF StartClose
<1>24. CASE CloseNext
  BY <1>24, <1>0 DEF CloseNext
<1>25. CASE FlagDrain
  BY <1>25, <1>0 DEF FlagDrain
<1>26. CASE JoinWorkers
  BY <1>26, <1>0 DEF JoinWorkers
<1>27. CASE InterruptAll
  BY <1>27, <1>0 DEF InterruptAll
<1>28. CASE UNCHANGED vars
  BY <1>28, <1>0 DEF vars
<1>29. QED
  BY <1>1, <1>2, <1>3, <1>4, <1>5, <1>6, <1>7, <1>8, <1>9, <1>10, <1>11, <1>12, <1>13,
     <1>14, <1>15, <1>16, <1>17, <1>18, <1>19, <1>20, <1>21, <1>22, <1>23, <1>24, <1>25,
     <1>26, <1>27, <1>28
  DEF Next, Dispatch, Take, Supervise, Main

\* What a take does to the lanes, by position.
LEMMA TakenFrom ==
  ASSUME Types, NEW w \in Slots, NEW v \in Slots, TakeFrom(w, v)
  PROVE  /\ Len(lane[v]) \in Nat \ {0} /\ lane[v][1] \in Requests
         /\ hand' = [hand EXCEPT ![w] = lane[v][1]]
         /\ Len(lane'[v]) = Len(lane[v]) - 1
         /\ \A i \in 1..Len(lane'[v]) : lane'[v][i] = lane[v][i + 1]
         /\ \A u \in Slots : u # v => lane'[u] = lane[u]
<1>1. /\ Head(lane[v]) = lane[v][1] /\ Head(lane[v]) \in Requests
      /\ Len(lane[v]) \in Nat \ {0} /\ Len(Tail(lane[v])) = Len(lane[v]) - 1
      /\ \A i \in 1..Len(Tail(lane[v])) : Tail(lane[v])[i] = lane[v][i + 1]
  BY HeadTail DEF Types, TakeFrom
<1>2. /\ hand' = [hand EXCEPT ![w] = Head(lane[v])] /\ lane'[v] = Tail(lane[v])
      /\ \A u \in Slots : u # v => lane'[u] = lane[u]
  BY DEF TakeFrom, Types
<1>3. QED
  BY <1>1, <1>2

\* Handing over a context that is nowhere leaves every context once.
LEMMA OnceEnters ==
  ASSUME Types, Once, NotYet, NEW r \in Requests, NEW w \in Slots, Enters(r, w)
  PROVE  Once'
<1>1. /\ \A u \in Slots : hand[u] # r
      /\ \A u \in Slots : \A i \in 1..Len(lane[u]) : lane[u][i] # r
  BY DEF NotYet, InHand, Queued, Enters, Undispatched
<1>2. /\ Len(lane'[w]) = Len(lane[w]) + 1 /\ Len(lane[w]) \in Nat
      /\ \A i \in 1..Len(lane[w]) : lane'[w][i] = lane[w][i]
      /\ lane'[w][Len(lane[w]) + 1] = r
  BY Appended DEF Enters, Types
<1>3. hand' = hand /\ \A u \in Slots : u # w => lane'[u] = lane[u]
  BY DEF Enters, Types
<1>4. ASSUME NEW u \in Slots, NEW i \in 1..Len(lane'[u])
      PROVE  \/ i \in 1..Len(lane[u]) /\ lane'[u][i] = lane[u][i]
             \/ u = w /\ i = Len(lane[w]) + 1 /\ lane'[u][i] = r
  BY <1>2, <1>3
<1>5. ASSUME NEW u \in Slots, NEW v \in Slots, NEW i \in 1..Len(lane'[u]),
             NEW j \in 1..Len(lane'[v]), lane'[u][i] = lane'[v][j]
      PROVE  u = v /\ i = j
  <2>1. CASE i \in 1..Len(lane[u]) /\ lane'[u][i] = lane[u][i]
    <3>1. j \in 1..Len(lane[v]) /\ lane'[v][j] = lane[v][j]
      BY <1>1, <1>4, <1>5, <2>1
    <3>2. lane[u][i] = lane[v][j]
      BY <1>5, <2>1, <3>1
    <3>3. QED
      BY <2>1, <3>1, <3>2 DEF Once
  <2>2. CASE u = w /\ i = Len(lane[w]) + 1 /\ lane'[u][i] = r
    <3>1. v = w /\ j = Len(lane[w]) + 1
      BY <1>1, <1>4, <1>5, <2>2
    <3>2. QED
      BY <2>2, <3>1
  <2>3. QED
    BY <1>4, <2>1, <2>2
<1>6. ASSUME NEW u \in Slots, NEW v \in Slots, NEW i \in 1..Len(lane'[u])
      PROVE  lane'[u][i] # hand'[v]
  BY <1>1, <1>3, <1>4 DEF Once
<1>7. \A u, v \in Slots : hand'[u] = hand'[v] /\ hand'[u] # None => u = v
  BY <1>3 DEF Once
<1>8. QED
  BY <1>5, <1>6, <1>7 DEF Once

\* So does taking one from the head of a lane into an empty hand.
LEMMA OnceTakes ==
  ASSUME Types, Once, NEW w \in Slots, NEW v \in Slots, Takes(w, v)
  PROVE  Once'
<1>1. /\ Len(lane[v]) \in Nat \ {0} /\ lane[v][1] \in Requests
      /\ hand' = [hand EXCEPT ![w] = lane[v][1]]
      /\ Len(lane'[v]) = Len(lane[v]) - 1
      /\ \A i \in 1..Len(lane'[v]) : lane'[v][i] = lane[v][i + 1]
      /\ \A u \in Slots : u # v => lane'[u] = lane[u]
  BY TakenFrom DEF Takes
<1> DEFINE Was(u, i) == IF u = v THEN i + 1 ELSE i
<1>2. ASSUME NEW u \in Slots, NEW i \in 1..Len(lane'[u])
      PROVE  /\ Was(u, i) \in 1..Len(lane[u]) /\ lane'[u][i] = lane[u][Was(u, i)]
             /\ i \in Int /\ (u = v => Was(u, i) # 1)
  BY <1>1
<1>3. 1 \in 1..Len(lane[v])
  BY <1>1
<1>4. /\ hand'[w] = lane[v][1] /\ \A u \in Slots : u # w => hand'[u] = hand[u]
  BY <1>1 DEF Types
<1>5. ASSUME NEW u \in Slots, NEW x \in Slots, NEW i \in 1..Len(lane'[u]),
             NEW j \in 1..Len(lane'[x]), lane'[u][i] = lane'[x][j]
      PROVE  u = x /\ i = j
  <2>1. u = x /\ Was(u, i) = Was(x, j)
    <3> HIDE DEF Was
    <3>1. lane[u][Was(u, i)] = lane[x][Was(x, j)]
      BY <1>2, <1>5
    <3>2. Was(u, i) \in 1..Len(lane[u]) /\ Was(x, j) \in 1..Len(lane[x])
      BY <1>2
    <3>3. QED
      BY <3>1, <3>2 DEF Once
  <2>2. QED
    BY <1>2, <2>1
<1>6. ASSUME NEW u \in Slots, NEW x \in Slots, NEW i \in 1..Len(lane'[u])
      PROVE  lane'[u][i] # hand'[x]
  <2>1. CASE x = w
    <3>1. lane[u][Was(u, i)] = lane[v][1] => u = v /\ Was(u, i) = 1
      BY <1>2, <1>3 DEF Once
    <3>2. QED
      BY <1>2, <1>4, <2>1, <3>1
  <2>2. CASE x # w
    <3>1. lane[u][Was(u, i)] # hand[x]
      BY <1>2 DEF Once
    <3>2. QED
      BY <1>2, <1>4, <2>2, <3>1
  <2>3. QED
    BY <2>1, <2>2
<1>7. ASSUME NEW u \in Slots, NEW x \in Slots, hand'[u] = hand'[x], hand'[u] # None
      PROVE  u = x
  BY <1>3, <1>4, <1>7 DEF Once
<1>8. QED
  BY <1>5, <1>6, <1>7 DEF Once

\* Every step leaves every context once.
LEMMA OnceStep ==
  ASSUME Types, Once, NotYet, Moves
  PROVE  Once'
<1>1. CASE Still
  BY <1>1 DEF Still, Once
<1>2. ASSUME NEW r \in Requests, NEW w \in Slots, Enters(r, w) PROVE Once'
  BY <1>2, OnceEnters
<1>3. ASSUME NEW w \in Slots, NEW v \in Slots, Takes(w, v) PROVE Once'
  BY <1>3, OnceTakes
<1>4. ASSUME NEW w \in Slots, LetsGo(w) PROVE Once'
  <2>1. lane' = lane /\ hand'[w] = None /\ \A u \in Slots : u # w => hand'[u] = hand[u]
    BY <1>4 DEF LetsGo, Types
  <2>2. \A u \in Slots : \A i \in 1..Len(lane[u]) : lane[u][i] # None
    BY LaneAssumption DEF Types
  <2>3. \A u, v \in Slots : \A i \in 1..Len(lane'[u]) : lane'[u][i] # hand'[v]
    BY <2>1, <2>2 DEF Once
  <2>4. \A u, v \in Slots : hand'[u] = hand'[v] /\ hand'[u] # None => u = v
    BY <2>1 DEF Once
  <2>5. QED
    BY <2>1, <2>3, <2>4 DEF Once
<1>5. ASSUME NEW w \in Slots, Drains(w) PROVE Once'
  <2>1. hand' = hand /\ Len(lane'[w]) = 0 /\ \A u \in Slots : u # w => lane'[u] = lane[u]
    BY <1>5 DEF Drains, Types
  <2>2. ASSUME NEW u \in Slots, NEW i \in 1..Len(lane'[u])
        PROVE  u # w /\ lane'[u] = lane[u]
    BY <2>1
  <2>3. QED
    BY <2>1, <2>2 DEF Once
<1>6. QED
  BY <1>1, <1>2, <1>3, <1>4, <1>5 DEF Moves

\* A step puts nothing on the workers' side but what it dispatches.
LEMMA NotYetStep ==
  ASSUME Types, NotYet, Moves
  PROVE  NotYet'
<1>1. CASE Still
  BY <1>1 DEF Still, NotYet, InHand, Queued
<1>2. ASSUME NEW r \in Requests, NEW w \in Slots, Enters(r, w) PROVE NotYet'
  <2>1. /\ Len(lane'[w]) = Len(lane[w]) + 1 /\ Len(lane[w]) \in Nat
        /\ \A i \in 1..Len(lane[w]) : lane'[w][i] = lane[w][i]
        /\ lane'[w][Len(lane[w]) + 1] = r
    BY <1>2, Appended DEF Enters, Types
  <2>2. hand' = hand /\ \A u \in Slots : u # w => lane'[u] = lane[u]
    BY <1>2 DEF Enters, Types
  <2>3. ASSUME NEW u \in Slots, NEW i \in 1..Len(lane'[u])
        PROVE  lane'[u][i] = r \/ \E j \in 1..Len(lane[u]) : lane'[u][i] = lane[u][j]
    BY <2>1, <2>2
  <2>4. ASSUME NEW q \in Requests, future'[q] \in Undispatched
        PROVE  q # r /\ future[q] \in Undispatched
    BY <1>2, <2>4 DEF Enters, Types, Undispatched
  <2>5. QED
    BY <2>2, <2>3, <2>4 DEF NotYet, InHand, Queued
<1>3. ASSUME NEW w \in Slots, NEW v \in Slots, Takes(w, v) PROVE NotYet'
  <2>1. /\ Len(lane[v]) \in Nat \ {0} /\ hand' = [hand EXCEPT ![w] = lane[v][1]]
        /\ Len(lane'[v]) = Len(lane[v]) - 1
        /\ \A i \in 1..Len(lane'[v]) : lane'[v][i] = lane[v][i + 1]
        /\ \A u \in Slots : u # v => lane'[u] = lane[u]
    BY <1>3, TakenFrom DEF Takes
  <2>2. ASSUME NEW u \in Slots, NEW i \in 1..Len(lane'[u])
        PROVE  \E j \in 1..Len(lane[u]) : lane'[u][i] = lane[u][j]
    <3>1. CASE u = v
      <4>1. i + 1 \in 1..Len(lane[u]) /\ lane'[u][i] = lane[u][i + 1]
        BY <2>1, <3>1
      <4>2. QED
        BY <4>1
    <3>2. CASE u # v
      BY <2>1, <3>2
    <3>3. QED
      BY <3>1, <3>2
  <2>3. 1 \in 1..Len(lane[v])
    BY <2>1
  <2>4. \A u \in Slots : hand'[u] = hand[u] \/ hand'[u] = lane[v][1]
    BY <2>1 DEF Types
  <2>5. future' = future
    BY <1>3 DEF Takes
  <2>6. QED
    BY <2>2, <2>3, <2>4, <2>5 DEF NotYet, InHand, Queued
<1>4. ASSUME NEW w \in Slots, LetsGo(w) PROVE NotYet'
  <2>1. lane' = lane /\ future' = future /\ \A u \in Slots : hand'[u] \in {hand[u], None}
    BY <1>4 DEF LetsGo, Types
  <2>2. QED
    BY <2>1, LaneAssumption DEF NotYet, InHand, Queued
<1>5. ASSUME NEW w \in Slots, Drains(w) PROVE NotYet'
  <2>1. hand' = hand /\ future' = future /\ Len(lane'[w]) = 0
        /\ \A u \in Slots : u # w => lane'[u] = lane[u]
    BY <1>5 DEF Drains, Types
  <2>2. \A u \in Slots : \A i \in 1..Len(lane'[u]) : i \in 1..Len(lane[u]) /\ lane'[u][i] = lane[u][i]
    BY <2>1
  <2>3. QED
    BY <2>1, <2>2 DEF NotYet, InHand, Queued
<1>6. QED
  BY <1>1, <1>2, <1>3, <1>4, <1>5 DEF Moves

\* A step takes a waiting context from its place only to another, or with an
\* answer.
LEMMA KeptStep ==
  ASSUME Types, Hands, Kept, Moves, answered \subseteq answered'
  PROVE  Kept'
<1>1. CASE Still
  BY <1>1 DEF Still, Kept, InHand, Queued
<1>2. ASSUME NEW r \in Requests, NEW w \in Slots, Enters(r, w) PROVE Kept'
  <2>1. /\ Len(lane'[w]) = Len(lane[w]) + 1 /\ Len(lane[w]) \in Nat
        /\ \A i \in 1..Len(lane[w]) : lane'[w][i] = lane[w][i]
        /\ lane'[w][Len(lane[w]) + 1] = r
    BY <1>2, Appended DEF Enters, Types
  <2>2. hand' = hand /\ \A u \in Slots : u # w => lane'[u] = lane[u]
    BY <1>2 DEF Enters, Types
  <2>3. Len(lane[w]) + 1 \in 1..Len(lane'[w])
    BY <2>1
  <2>4. \A u \in Slots : \A i \in 1..Len(lane[u]) : i \in 1..Len(lane'[u]) /\ lane'[u][i] = lane[u][i]
    BY <2>1, <2>2
  <2>5. \A q \in Requests : q # r => future'[q] = future[q]
    BY <1>2 DEF Enters, Types
  <2>6. QED
    BY <2>1, <2>2, <2>3, <2>4, <2>5 DEF Kept, InHand, Queued
<1>3. ASSUME NEW w \in Slots, NEW v \in Slots, Takes(w, v) PROVE Kept'
  <2>1. /\ Len(lane[v]) \in Nat \ {0} /\ hand' = [hand EXCEPT ![w] = lane[v][1]]
        /\ Len(lane'[v]) = Len(lane[v]) - 1
        /\ \A i \in 1..Len(lane'[v]) : lane'[v][i] = lane[v][i + 1]
        /\ \A u \in Slots : u # v => lane'[u] = lane[u]
    BY <1>3, TakenFrom DEF Takes
  <2>2. /\ hand'[w] = lane[v][1] /\ hand[w] = None /\ future' = future
        /\ \A u \in Slots : u # w => hand'[u] = hand[u]
    BY <1>3, <2>1 DEF Takes, Types
  <2>3. ASSUME NEW q \in Requests, InHand(q) PROVE InHand(q)'
    BY <2>2, <2>3, LaneAssumption DEF InHand
  <2>4. ASSUME NEW u \in Slots, NEW i \in 1..Len(lane[u])
        PROVE  (\E x \in Slots : hand'[x] = lane[u][i])
               \/ \E j \in 1..Len(lane'[u]) : lane'[u][j] = lane[u][i]
    <3>1. CASE u = v /\ i = 1
      BY <2>2, <3>1
    <3>2. CASE u = v /\ i # 1
      <4>1. i - 1 \in 1..Len(lane'[u]) /\ (i - 1) + 1 = i
        BY <2>1, <3>2
      <4>2. lane'[u][i - 1] = lane[u][i]
        BY <2>1, <3>2, <4>1
      <4>3. QED
        BY <4>1, <4>2
    <3>3. CASE u # v
      BY <2>1, <3>3
    <3>4. QED
      BY <3>1, <3>2, <3>3
  <2>5. ASSUME NEW q \in Requests, Queued(q) PROVE InHand(q)' \/ Queued(q)'
    BY <2>4, <2>5 DEF InHand, Queued
  <2>6. QED
    BY <2>2, <2>3, <2>5 DEF Kept
<1>4. ASSUME NEW w \in Slots, LetsGo(w) PROVE Kept'
  <2>1. /\ lane' = lane /\ future' = future /\ hand[w] \in answered'
        /\ \A u \in Slots : u # w => hand'[u] = hand[u]
    BY <1>4 DEF LetsGo, Types
  <2>2. QED
    BY <2>1 DEF Kept, InHand, Queued
<1>5. ASSUME NEW w \in Slots, Drains(w) PROVE Kept'
  <2>1. hand' = hand /\ future' = future /\ \A u \in Slots : u # w => lane'[u] = lane[u]
    BY <1>5 DEF Drains, Types
  <2>2. \A i \in 1..Len(lane[w]) : lane[w][i] \in answered'
    BY <1>5 DEF Drains, ToSet, Types
  <2>3. QED
    BY <2>1, <2>2 DEF Kept, InHand, Queued
<1>6. QED
  BY <1>1, <1>2, <1>3, <1>4, <1>5 DEF Moves

\* The invariant is inductive.
LEMMA OwnershipStep ==
  ASSUME Ownership, [Next]_vars
  PROVE  Ownership'
<1>1. Core /\ Freed /\ Once /\ NotYet /\ Kept /\ Types /\ Hands
  BY DEF Ownership, Core
<1>2. Moves /\ answered \subseteq answered'
  BY <1>1, MovesOnly, AnswersStay
<1>3. Core' /\ Freed'
  BY <1>1, CoreStep, FreedStep
<1>4. Once' /\ NotYet' /\ Kept'
  BY <1>1, <1>2, OnceStep, NotYetStep, KeptStep
<1>5. QED
  BY <1>3, <1>4 DEF Ownership

\* It holds at boot, where every lane and hand is empty.
LEMMA OwnershipInit ==
  ASSUME Init
  PROVE  Ownership
<1>1. Core
  BY CoreInit
<1>2. Freed /\ Once /\ NotYet /\ Kept
  BY LaneAssumption DEF Init, Freed, Once, NotYet, Kept, InHand, Queued
<1>3. QED
  BY <1>1, <1>2 DEF Ownership

\* A set whose elements are all the same has one or none.
LEMMA AtMostOne ==
  ASSUME NEW S, \A x, y \in S : x = y
  PROVE  Cardinality(S) \in {0, 1} /\ (S # {} => Cardinality(S) = 1)
<1>1. CASE S = {}
  BY <1>1, FS_EmptySet
<1>2. CASE S # {}
  <2>1. PICK x : S = {x}
    BY <1>2
  <2>2. QED
    BY <2>1, FS_Singleton
<1>3. QED
  BY <1>1, <1>2

\* The invariant's types are the module's.
LEMMA CoreTypes ==
  ASSUME Core
  PROVE  TypeOK
<1>1. n \in Nat /\ \A w \in 1..n : w \in Slots
  BY SlotTable DEF Core
<1>2. ASSUME NEW s \in Seq(1..n) PROVE s \in Seq(Slots)
  BY <1>1
<1>3. ASSUME NEW r \in Requests
      PROVE  /\ scan[r].pass \in 0..3 /\ scan[r].left \in Seq(Slots)
             /\ scan[r].aim \in Slots \cup {None} /\ scan[r].anyOpen \in BOOLEAN
  <2>1. /\ scan[r].pass \in 0..3 /\ scan[r].left \in Seq(1..n) /\ scan[r].aim \in 0..n
        /\ scan[r].anyOpen \in BOOLEAN
    BY DEF Core, Scans, ScanRecs
  <2>2. QED
    BY <1>1, <1>2, <2>1 DEF None
<1>4. free \in Seq(Slots)
  BY <1>2 DEF Core, Tables
<1>5. {open, parked, retired, interrupted} \subseteq [Slots -> BOOLEAN]
  BY Zenon DEF Core, Flags
<1>6. QED
  BY <1>3, <1>4, <1>5 DEF Core, Types, TypeOK

\* For any requests, slots, lane depth and faults: a context is in one lane or
\* hand at most, and in one while its client waits unanswered, through steals,
\* retirements, crashes and aborts.
THEOREM OneLaneOrHand == Spec => []OnePlace
<1>1. Init => Ownership
  BY OwnershipInit
<1>2. Ownership /\ [Next]_vars => Ownership'
  BY OwnershipStep
<1>3. Ownership => OnePlace
  <2>1. SUFFICES ASSUME Ownership, NEW r \in Requests
                 PROVE  /\ Cardinality(Places(r)) \in {0, 1}
                        /\ future[r] = "awaiting" /\ r \notin answered => Cardinality(Places(r)) = 1
    BY CoreTypes DEF OnePlace, Ownership
  <2>2. Types /\ Once /\ Kept /\ r # None /\ LaneDepth \in Nat
    BY <2>1, LaneAssumption DEF Ownership, Core
  <2>3. ASSUME NEW p \in Places(r), NEW q \in Places(r) PROVE p = q
    <3>1. /\ p = <<p[1], p[2]>> /\ p[1] \in Slots /\ p[2] \in 0..LaneDepth
          /\ q = <<q[1], q[2]>> /\ q[1] \in Slots /\ q[2] \in 0..LaneDepth
      BY DEF Places
    <3>2. /\ IF p[2] = 0 THEN hand[p[1]] = r
                         ELSE p[2] <= Len(lane[p[1]]) /\ lane[p[1]][p[2]] = r
          /\ IF q[2] = 0 THEN hand[q[1]] = r
                         ELSE q[2] <= Len(lane[q[1]]) /\ lane[q[1]][q[2]] = r
      BY DEF Places
    <3>3. /\ p[2] # 0 => p[2] \in 1..Len(lane[p[1]])
          /\ q[2] # 0 => q[2] \in 1..Len(lane[q[1]])
      BY <2>2, <3>1, <3>2 DEF Types
    <3>4. p[1] = q[1] /\ p[2] = q[2]
      BY <2>2, <3>1, <3>2, <3>3 DEF Once
    <3>5. QED
      BY <3>1, <3>4
  <2>4. future[r] = "awaiting" /\ r \notin answered => Places(r) # {}
    <3>1. ASSUME NEW w \in Slots, hand[w] = r PROVE Places(r) # {}
      <4>1. <<w, 0>> \in Places(r)
        BY <2>2, <3>1 DEF Places
      <4>2. QED
        BY <4>1
    <3>2. ASSUME NEW w \in Slots, NEW i \in 1..Len(lane[w]), lane[w][i] = r PROVE Places(r) # {}
      <4>1. i \in 0..LaneDepth /\ i # 0 /\ i <= Len(lane[w])
        BY <2>2, <3>2 DEF Types
      <4>2. <<w, i>> \in Places(r)
        BY <3>2, <4>1 DEF Places
      <4>3. QED
        BY <4>2
    <3>3. QED
      BY <2>2, <3>1, <3>2 DEF Kept, InHand, Queued
  <2>5. QED
    BY <2>3, <2>4, AtMostOne
<1>4. QED
  BY <1>1, <1>2, <1>3, PTL DEF Spec
=============================================================================
