--------------------------- MODULE TelemetryProofs ---------------------------
(***************************************************************************)
(* A report is true, for any requests, slots, batch, buckets and readers:  *)
(* although it is read one atomic at a time while the slots are written,   *)
(* it calls no worker busier than it was, unless it is the control plane's *)
(* and the slot was recycled between two of its loads, and its sums fit.   *)
(***************************************************************************)
EXTENDS Telemetry, Integers, SequenceTheorems, FiniteSetTheorems, WellFoundedInduction, TLAPS

-----------------------------------------------------------------------------
(* Sums                                                                    *)

\* t[i] is the sum of the first i values of f
Sums(t, f, n) ==
  t \in [0..n -> Nat] /\ t[0] = 0 /\ \A i \in 1..n : t[i] = t[i - 1] + f[i]

\* g is f with one more at s; u is t with one more from s on
Grows(f, g, n, s) == g[s] = f[s] + 1 /\ \A i \in 1..n : i # s => g[i] = f[i]
GrowsFrom(u, t, n, s) == \A i \in 0..n : u[i] = IF s <= i THEN t[i] + 1 ELSE t[i]

\* Adding one to the last term adds one to the sum.
LEMMA OneMore ==
  ASSUME NEW a \in Nat, NEW b \in Nat
  PROVE  (a + b) + 1 = a + (b + 1) /\ (a + b) + 1 = (a + 1) + b
OBVIOUS

\* One value grows by one, and so does every sum it is in.
LEMMA SumsGrow ==
  ASSUME NEW n \in Nat, NEW f \in [1..n -> Nat], NEW t, Sums(t, f, n), NEW s \in 1..n, NEW g,
         Grows(f, g, n, s)
  PROVE  \E u : Sums(u, g, n) /\ GrowsFrom(u, t, n, s)
<1>0. g[s] = f[s] + 1 /\ \A i \in 1..n : i # s => g[i] = f[i]
  BY DEF Grows
<1> DEFINE u == [i \in 0..n |-> IF s <= i THEN t[i] + 1 ELSE t[i]]
<1>1. t \in [0..n -> Nat] /\ t[0] = 0 /\ \A i \in 1..n : t[i] = t[i - 1] + f[i]
  BY DEF Sums
<1>2. u \in [0..n -> Nat]
  BY <1>1
<1>3. \A i \in 0..n : u[i] = IF s <= i THEN t[i] + 1 ELSE t[i]
  OBVIOUS
<1> HIDE DEF u
<1>4. u[0] = 0
  BY <1>1, <1>3
<1>5. ASSUME NEW i \in 1..n PROVE u[i] = u[i - 1] + g[i]
  <2>1. /\ i \in 0..n /\ i - 1 \in 0..n /\ t[i] = t[i - 1] + f[i]
        /\ t[i] \in Nat /\ t[i - 1] \in Nat /\ f[i] \in Nat
    BY <1>1, <1>5
  <2>2. u[i] = (IF s <= i THEN t[i] + 1 ELSE t[i]) /\ u[i - 1] = (IF s <= i - 1 THEN t[i - 1] + 1 ELSE t[i - 1])
    BY <1>3, <2>1
  <2>3. CASE i = s
    <3>1. s <= i /\ ~(s <= i - 1)
      BY <2>3
    <3>2. u[i] = t[i] + 1 /\ u[i - 1] = t[i - 1]
      BY <2>2, <3>1
    <3>3. g[i] = f[i] + 1
      BY <1>0, <2>3
    <3>4. (t[i - 1] + f[i]) + 1 = t[i - 1] + (f[i] + 1)
      BY ONLY OneMore, <2>1
    <3>5. u[i] = (t[i - 1] + f[i]) + 1
      BY ONLY <2>1, <3>2
    <3>6. u[i - 1] + g[i] = t[i - 1] + (f[i] + 1)
      BY ONLY <3>2, <3>3
    <3>7. QED
      BY ONLY <3>4, <3>5, <3>6
  <2>4. CASE i # s /\ s <= i
    <3>1. s <= i - 1 /\ g[i] = f[i]
      BY <1>0, <1>5, <2>4
    <3>2. u[i] = t[i] + 1 /\ u[i - 1] = t[i - 1] + 1
      BY <2>2, <2>4, <3>1
    <3>3. (t[i - 1] + f[i]) + 1 = (t[i - 1] + 1) + f[i]
      BY ONLY OneMore, <2>1
    <3>4. u[i] = (t[i - 1] + f[i]) + 1
      BY ONLY <2>1, <3>2
    <3>5. u[i - 1] + g[i] = (t[i - 1] + 1) + f[i]
      BY ONLY <3>1, <3>2
    <3>6. QED
      BY ONLY <3>3, <3>4, <3>5
  <2>5. CASE ~(s <= i)
    BY <1>0, <1>5, <2>1, <2>2, <2>5
  <2>6. QED
    BY <2>3, <2>4, <2>5
<1>6. Sums(u, g, n)
  BY <1>2, <1>4, <1>5 DEF Sums
<1>7. QED
  BY <1>3, <1>6 DEF GrowsFrom

-----------------------------------------------------------------------------
(* The inductive invariant                                                 *)

N == Cardinality(Slots)
M == Len(Bounds) + 1

Places == {"take", "served", "row", "stamp", "count", "record", "more", "app", "crashed", "free",
           "reset_flight", "reset_stamp", "gone"}
Resetting(s) == at[s] \in {"reset_flight", "reset_stamp"}
Lines == [of : Requests, kind : {"arrival", "completion"}]
Scans == [by : Probes \cup {"monitor", Nobody},
          at : {"idle", "row", "flight", "started", "slotServed", "histogram", "ready"},
          now : Nat, next : Nat, seen : BOOLEAN, busy : Seq(Nat), rows : Nat, served : Nat, total : Nat,
          age : [Slots -> Nat] \cup {<<>>}]

\* the types that TypeOK leaves out
Shape ==
  /\ TypeOK
  /\ served \in Nat /\ row \in [Slots -> Nat] /\ histogram \in [Buckets -> Nat]
  /\ stint \in [Slots -> Nat] /\ hand \in [Slots -> Seq(Requests)]
  /\ lines \in Seq(Lines) /\ scan \in Scans

\* A request that has been queued has a handler, or had one.
Known ==
  \A r \in Requests : (r \in waiting \/ \E s \in Slots : r \in InBatch(s)) => front[r] # "new"

Idle(s) == at[s] \in {"take", "free", "reset_flight", "reset_stamp", "gone"}

\* A slot's sensors and its batch: no more is counted than was admitted (less
\* when a live worker's slot was aborted), and stamped since the first was
\* taken.  Only a worker that came back to no server leaves a count behind.
Batches == \A s \in Slots :
  /\ started[s] <= clock
  /\ at[s] \in {"take", "free", "reset_flight", "reset_stamp"} => inFlight[s] = 0
  /\ at[s] = "gone" /\ inFlight[s] # 0 => main = "down"
  /\ Idle(s) => hand[s] = <<>>
  /\ ~Idle(s) =>
       /\ hand[s] # <<>> /\ stint[s] <= clock
       /\ (IF at[s] \in {"served", "row", "stamp", "count"} THEN inFlight[s] + 1
           ELSE inFlight[s]) <= Len(hand[s])
       /\ at[s] = "count" \/ inFlight[s] # 0 => stint[s] <= started[s]

\* Who reads, and that nobody does when the server is gone.
Quiet ==
  /\ main # "up" => scan.by # "monitor"
  /\ main = "down" => /\ control = "off" /\ scan.by = Nobody
                      /\ \A p \in Probes : probe[p] \in {"new", "closed"}
  /\ scan.at = "idle" <=> scan.by = Nobody

\* The monitor reads between the resets, so none tears its report.
Alone ==
  scan.by = "monitor" => torn = {} /\ (scan.at # "ready" => \A s \in Slots : ~Resetting(s))

\* a slot's stamp, once there is one, is not older than the report allows
Young(s) == scan.now <= started[s] + scan.age[s]

\* How far a report has come, and that its busy times are true so far.
Scanning ==
  /\ scan.at # "idle" =>
     /\ scan.age \in [Slots -> Nat] /\ scan.now <= clock
     /\ \A s \in Slots : at[s] = "count" \/ inFlight[s] # 0 => Young(s)
     /\ \A i \in 1..Len(scan.busy) : scan.busy[i] <= scan.age[i] \/ i \in torn
  /\ scan.at \in {"row", "flight", "started"} => Len(scan.busy) = scan.next - 1 /\ scan.next \in 1..(N + 1)
  /\ scan.at = "slotServed" => Len(scan.busy) = scan.next
  /\ scan.at \in {"row", "flight", "started", "slotServed"} => scan.total = 0
  /\ scan.at \in {"flight", "started", "slotServed"} => scan.next \in Slots
  /\ scan.at = "started" /\ scan.seen => Young(scan.next) \/ scan.next \in torn
  /\ scan.at = "histogram" => scan.next \in Buckets /\ scan.by # "monitor"
  /\ scan.at \in {"histogram", "ready"} => Len(scan.busy) = N

\* what the slots have counted, and the server already counts for them
Bumps == [s \in Slots |-> IF at[s] = "row" THEN row[s] + 1 ELSE row[s]]

\* f is what every slot has counted under all its workers, which is not less
\* than what it shows since its last reset.  The server's count is the sum
\* of these; the rows read so far are no more than their slots have counted
\* by now.
RowsFit(t, f) ==
  /\ f \in [Slots -> Nat] /\ \A s \in Slots : Bumps[s] <= f[s]
  /\ Sums(t, f, N) /\ t[N] = served
  /\ scan.at \in {"row", "flight", "started", "slotServed"} => scan.rows <= t[scan.next - 1]

\* the slots between the server's count and the histogram
Admitting == {s \in Slots : at[s] \in {"row", "stamp", "count", "record"}}

\* The histogram lags behind the server's count by the requests being
\* admitted; what a report still has to read makes up for what it has not.
WaitsFit(t) ==
  /\ Sums(t, histogram, M) /\ t[M] + Cardinality(Admitting) = served
  /\ scan.at = "histogram" => scan.served + t[scan.next - 1] <= scan.total + t[M] + N

\* A report that is ready.
Fits ==
  scan.by # "monitor" =>
    /\ scan.at \in {"histogram", "ready"} => scan.rows <= scan.served
    /\ scan.at = "ready" => scan.served <= scan.total + N

Counts == (\E t, f : RowsFit(t, f)) /\ (\E t : WaitsFit(t)) /\ Fits

Inv == Shape /\ Known /\ Batches /\ Quiet /\ Alone /\ Scanning /\ Counts

\* Slots and buckets are numbered from one.
LEMMA Numbers ==
  /\ N \in Nat /\ Slots = 1..N /\ IsFiniteSet(Slots)
  /\ M \in Nat /\ M > 0 /\ Buckets = 1..M /\ Bounds \in Seq(Nat) /\ Len(Bounds) \in Nat
  BY TelemetryAssumption, FS_CardinalityType, LenProperties DEF N, M, Buckets

-----------------------------------------------------------------------------
(* The kinds of step                                                       *)

Works(s) ==
  \/ AdmitStep(s) \/ StartApp(s) \/ Checkout(s) \/ WorkerLeaves(s)
  \/ Crash(s) \/ ResetStep(s) \/ AbortClears(s)
  \/ \E r \in Requests : Take(s, r) \/ TakeMore(s, r)

Reads ==
  \/ MonitorScan \/ MonitorActs \/ Scan
  \/ \E p \in Probes : Handle(p) \/ Respond(p)

Handles == \E r \in Requests :
  \/ Arrive(r) \/ Refuse(r) \/ Complete(r) \/ RequestTimeout(r) \/ Abort(r)
  \/ \E s \in Slots : AppAnswers(s, r) \/ AbortAnswers(s, r)

Connects == \E p \in Probes : Connect(p) \/ Accept(p) \/ Ask(p) \/ Replied(p) \/ Deadline(p)

\* A slot's step, a reader's, a handler's, a connection's, or one of the rest.
LEMMA NextCases ==
  ASSUME [Next]_vars
  PROVE  \/ Tick \/ Flush \/ AcceptFails \/ BackoffEnds \/ Drain \/ CloseQueue \/ RuntimeDown \/ ControlStop
         \/ (\E s \in Slots : Works(s)) \/ Reads \/ Handles \/ Connects \/ UNCHANGED vars
  BY DEF Next, Works, Reads, Handles, Connects

\* a slot nobody touches
Same(s) ==
  /\ at'[s] = at[s] /\ hand'[s] = hand[s] /\ stint'[s] = stint[s]
  /\ row'[s] = row[s] /\ started'[s] = started[s] /\ inFlight'[s] = inFlight[s]

From(s, a, b) == at[s] = a /\ at'[s] = b

\* One step at a slot, by what becomes of it.
Moved(s) ==
  \/ /\ From(s, "take", "served") /\ stint'[s] = clock
     /\ \E r \in waiting : hand'[s] = <<r>> /\ waiting' = waiting \ {r}
     /\ row'[s] = row[s] /\ started'[s] = started[s] /\ inFlight'[s] = inFlight[s]
     /\ UNCHANGED <<served, histogram>>
  \/ /\ From(s, "more", "served") /\ stint'[s] = stint[s] /\ Len(hand[s]) < Batch
     /\ \E r \in waiting : hand'[s] = Append(hand[s], r) /\ waiting' = waiting \ {r}
     /\ row'[s] = row[s] /\ started'[s] = started[s] /\ inFlight'[s] = inFlight[s]
     /\ UNCHANGED <<served, histogram>>
  \/ /\ From(s, "served", "row") /\ served' = served + 1
     /\ stint'[s] = stint[s] /\ hand'[s] = hand[s] /\ UNCHANGED <<waiting, histogram>>
     /\ row'[s] = row[s] /\ started'[s] = started[s] /\ inFlight'[s] = inFlight[s]
  \/ /\ From(s, "row", "stamp") /\ row'[s] = row[s] + 1
     /\ stint'[s] = stint[s] /\ hand'[s] = hand[s] /\ UNCHANGED <<waiting, served, histogram>>
     /\ started'[s] = started[s] /\ inFlight'[s] = inFlight[s]
  \/ /\ From(s, "stamp", "count") /\ started'[s] = clock
     /\ stint'[s] = stint[s] /\ hand'[s] = hand[s] /\ UNCHANGED <<waiting, served, histogram>>
     /\ row'[s] = row[s] /\ inFlight'[s] = inFlight[s]
  \/ /\ From(s, "count", "record") /\ inFlight'[s] = inFlight[s] + 1
     /\ stint'[s] = stint[s] /\ hand'[s] = hand[s] /\ UNCHANGED <<waiting, served, histogram>>
     /\ row'[s] = row[s] /\ started'[s] = started[s]
  \/ /\ From(s, "record", "more")
     /\ \E b \in Buckets : histogram' = [histogram EXCEPT ![b] = @ + 1]
     /\ stint'[s] = stint[s] /\ hand'[s] = hand[s] /\ UNCHANGED <<waiting, served>>
     /\ row'[s] = row[s] /\ started'[s] = started[s] /\ inFlight'[s] = inFlight[s]
  \/ /\ From(s, "more", "app")
     /\ stint'[s] = stint[s] /\ hand'[s] = hand[s] /\ UNCHANGED <<waiting, served, histogram>>
     /\ row'[s] = row[s] /\ started'[s] = started[s] /\ inFlight'[s] = inFlight[s]
  \/ /\ at[s] = "app" /\ hand'[s] = <<>> /\ stint'[s] = 0
     /\ \/ at'[s] = "take" /\ inFlight'[s] = 0
        \/ at'[s] = "gone" /\ inFlight'[s] = inFlight[s] /\ main = "down"
     /\ row'[s] = row[s] /\ started'[s] = started[s] /\ UNCHANGED <<waiting, served, histogram>>
  \/ /\ From(s, "take", "free") \/ From(s, "app", "crashed")
     /\ stint'[s] = stint[s] /\ hand'[s] = hand[s] /\ UNCHANGED <<waiting, served, histogram>>
     /\ row'[s] = row[s] /\ started'[s] = started[s] /\ inFlight'[s] = inFlight[s]
  \/ /\ From(s, "free", "reset_flight") /\ row'[s] = 0 /\ ~MonitorReads
     /\ stint'[s] = stint[s] /\ hand'[s] = hand[s] /\ UNCHANGED <<waiting, served, histogram>>
     /\ started'[s] = started[s] /\ inFlight'[s] = inFlight[s]
  \/ /\ From(s, "reset_stamp", "take") /\ started'[s] = 0
     /\ stint'[s] = stint[s] /\ hand'[s] = hand[s] /\ UNCHANGED <<waiting, served, histogram>>
     /\ row'[s] = row[s] /\ inFlight'[s] = inFlight[s]
  \/ /\ From(s, "reset_flight", "reset_stamp") \/ at'[s] = at[s]
     /\ stint'[s] = stint[s] /\ hand'[s] = hand[s] /\ UNCHANGED <<waiting, served, histogram>>
     /\ row'[s] = row[s] /\ started'[s] = started[s] /\ inFlight'[s] = 0
  \/ /\ From(s, "crashed", "gone") /\ hand'[s] = <<>> /\ stint'[s] = 0 /\ inFlight'[s] = 0
     /\ row'[s] = row[s] /\ started'[s] = started[s] /\ UNCHANGED <<waiting, served, histogram>>

\* whether a slot's stamp is zeroed before a report that has seen its count
\* gets to it
Tears(s) == From(s, "reset_stamp", "take") /\ scan.at = "started" /\ scan.next = s

\* one value per slot
Table(f) == f = [u \in Slots |-> f[u]]

\* A step at a slot: that slot and nothing else.
Worked(s) ==
  /\ Moved(s) /\ \A u \in Slots : u # s => Same(u)
  /\ Table(at') /\ Table(hand') /\ Table(stint') /\ Table(row') /\ Table(started') /\ Table(inFlight')
  /\ UNCHANGED <<config, clock, main, front, enqueued, scan, quarantined, ctlVars, logVars>>
  /\ torn' = IF Tears(s) THEN torn \cup {s} ELSE torn

\* Every set of naturals has a least one.
LEMMA LeastNatural ==
  ASSUME NEW T, T \subseteq Nat, T # {}
  PROVE  \E x \in T : \A y \in T : x <= y
<1> DEFINE R == {ss \in Nat \X Nat : ss[1] < ss[2]}
<1>1. IsWellFoundedOn(R, Nat)
  BY NatLessThanWellFounded DEF OpToRel
<1>2. \A x, y \in Nat : y < x => <<y, x>> \in R
  OBVIOUS
<1> HIDE DEF R
<1>3. PICK x \in T : \A y \in T : ~(<<y, x>> \in R)
  BY <1>1, WFMin
<1>4. \A y \in T : ~(y < x)
  BY <1>2, <1>3
<1>5. \A y \in T : x <= y
  BY <1>4
<1>6. QED
  BY <1>5

\* Every wait has a bucket.
LEMMA BucketFacts ==
  ASSUME NEW wait \in Int
  PROVE  BucketOf(wait) \in Buckets
<1> DEFINE T == {b \in Buckets : b <= Len(Bounds) => wait <= Bounds[b]}
<1>1. T \subseteq Nat /\ M \in T
  BY Numbers DEF M
<1>2. PICK b \in T : \A c \in T : b <= c
  <2> HIDE DEF T
  <2>1. T # {}
    BY <1>1
  <2>2. QED
    BY <1>1, <2>1, LeastNatural
<1>3. b \in Buckets /\ b \in 1..M /\ (b <= Len(Bounds) => wait <= Bounds[b])
  BY <1>2, Numbers
<1>4. ASSUME NEW c \in 1..(b - 1) PROVE wait > Bounds[c]
  <2>1. c \in Buckets /\ c <= Len(Bounds) /\ c < b /\ c \in 1..Len(Bounds)
    BY <1>3, <1>4, Numbers DEF M
  <2>2. Bounds[c] \in Nat
    BY <2>1, Numbers, ElementOfSeq
  <2>3. ~(wait <= Bounds[c])
    BY <1>2, <1>3, <2>1
  <2>4. QED
    BY <2>2, <2>3
<1>5. QED
  BY <1>3, <1>4 DEF BucketOf

\* What a worker's step does to its slot, and that it leaves the others alone.
LEMMA SlotStep ==
  ASSUME Inv, NEW s \in Slots, Works(s)
  PROVE  Worked(s)
<1>0. /\ at \in [Slots -> Places] /\ hand \in [Slots -> Seq(Requests)] /\ stint \in [Slots -> Nat]
      /\ row \in [Slots -> Nat] /\ started \in [Slots -> 0 .. config.ticks]
      /\ inFlight \in [Slots -> 0 .. Batch] /\ clock \in Nat /\ enqueued \in [Requests -> 0 .. config.ticks]
      /\ waiting \subseteq Requests /\ config.ticks \in Nat
  <2>1. config.ticks \in Nat
    BY TelemetryAssumption DEF Inv, Shape, TypeOK
  <2>2. QED
    BY <2>1 DEF Inv, Shape, TypeOK, Places
<1>1. ASSUME NEW r \in Requests, Take(s, r)
      PROVE  Worked(s)
  BY <1>0, <1>1 DEF Take, Worked, Table, Goes, From, Moved, Same, Tears, Places, readVars, sensors, workVars, frontVars
<1>2. ASSUME NEW r \in Requests, TakeMore(s, r)
      PROVE  Worked(s)
  BY <1>0, <1>2 DEF TakeMore, Worked, Table, Goes, From, Moved, Same, Tears, Places, readVars, sensors, workVars, frontVars
<1>3. ASSUME AdmitStep(s), Admit(s)
      PROVE  Worked(s)
  BY <1>0, <1>3 DEF AdmitStep, Admit, Worked, Table, Goes, From, Moved, Same, Tears, Places, readVars, sensors, workVars, frontVars
<1>4. ASSUME AdmitStep(s), Record(s)
      PROVE  Worked(s)
  <2>1. PICK r : r = hand[s][Len(hand[s])]
    OBVIOUS
  <2>2. r \in Requests
    <3>1. hand[s] # <<>> /\ hand[s] \in Seq(Requests)
      BY <1>0, <1>4 DEF Inv, Batches, Idle, Record
    <3>2. Len(hand[s]) \in 1..Len(hand[s])
      BY <3>1, EmptySeq, LenProperties
    <3>3. QED
      BY <2>1, <3>1, <3>2, ElementOfSeq
  <2>3. clock - enqueued[r] \in Int
    BY <1>0, <2>2
  <2>4. PICK b \in Buckets : b = BucketOf(clock - enqueued[r])
    BY <2>3, BucketFacts
  <2>5. histogram' = [histogram EXCEPT ![b] = @ + 1]
    BY <1>4, <2>1, <2>4 DEF Record
  <2>6. QED
    BY <1>0, <1>4, <2>4, <2>5 DEF AdmitStep, Record, Worked, Table, Goes, From, Moved, Same, Tears, Places, readVars, sensors,
                               workVars, frontVars
<1>5. ASSUME StartApp(s)
      PROVE  Worked(s)
  BY <1>0, <1>5 DEF StartApp, Worked, Table, Goes, From, Moved, Same, Tears, Places, readVars, sensors, workVars, frontVars
<1>6. ASSUME WorkerLeaves(s)
      PROVE  Worked(s)
  BY <1>0, <1>6 DEF WorkerLeaves, Worked, Table, Goes, From, Moved, Same, Tears, Places, readVars, sensors, workVars, frontVars
<1>7. ASSUME Checkout(s)
      PROVE  Worked(s)
  BY <1>0, <1>7 DEF Checkout, SinkOpen, Worked, Table, Goes, From, Moved, Same, Tears, Places, readVars, sensors, workVars, frontVars
<1>8. ASSUME Crash(s)
      PROVE  Worked(s)
  BY <1>0, <1>8 DEF Crash, Worked, Table, Goes, From, Moved, Same, Tears, Places, readVars, sensors, workVars, frontVars
<1>9. ASSUME ResetStep(s)
      PROVE  Worked(s)
  BY <1>0, <1>9 DEF ResetStep, Reset, Worked, Table, Goes, From, Moved, Same, Tears, Places, readVars, sensors, workVars, frontVars
<1>10. ASSUME AbortClears(s)
      PROVE  Worked(s)
  BY <1>0, <1>10 DEF AbortClears, Worked, Table, Goes, From, Moved, Same, Tears, Places, readVars, sensors, workVars, frontVars
<1>11. QED
  BY <1>1, <1>2, <1>3, <1>4, <1>5, <1>6, <1>7, <1>8, <1>9, <1>10 DEF Works, AdmitStep

Outside ==
  \/ Tick \/ Flush \/ AcceptFails \/ BackoffEnds \/ Drain \/ CloseQueue \/ RuntimeDown \/ ControlStop
  \/ Handles \/ Connects \/ UNCHANGED vars

\* No other step concerns workers, sensors or reports, but for the clock.
LEMMA OutsideStep ==
  ASSUME Outside
  PROVE  /\ UNCHANGED <<config, at, hand, stint, served, row, started, inFlight, histogram, scan, torn, quarantined>>
         /\ clock' = clock \/ (clock < config.ticks /\ clock' = clock + 1)
         /\ main = "down" => main' = "down"
  BY DEF Outside, Tick, Flush, AcceptFails, BackoffEnds, Drain, CloseQueue, RuntimeDown, ControlStop, Handles,
         Connects, Arrive, Refuse, Complete, RequestTimeout, Abort, AppAnswers, AbortAnswers, Connect, Accept, Ask, Replied, Deadline,
         Unaffected, vars, workVars, sensors, readVars

\* A report's step reads the sensors, and nothing more.
LEMMA ReadsStep ==
  ASSUME Reads
  PROVE  /\ UNCHANGED <<config, clock, main, front, enqueued, waiting, at, hand, stint, served, row,
                        started, inFlight, histogram, control, lines, written, flushed, flusher>>
         /\ UNCHANGED probe \/ \E p \in Probes : ProbeGoes(p, "replying") /\ scan.by = p /\ probe[p] = "asked"
         /\ torn' = torn \/ (scan.by = Nobody /\ torn' = {})
  BY DEF Reads, MonitorScan, MonitorActs, Scan, Handle, Respond, ScanBegin, Unaffected, workVars,
         sensors, frontVars, ctlVars, logVars

\* What every step's proof starts from.
LEMMA Typed ==
  ASSUME Inv
  PROVE  /\ at \in [Slots -> Places] /\ hand \in [Slots -> Seq(Requests)] /\ stint \in [Slots -> Nat]
         /\ row \in [Slots -> Nat] /\ inFlight \in [Slots -> 0..Batch] /\ started \in [Slots -> Nat]
         /\ \A s \in Slots : /\ inFlight[s] \in Nat /\ started[s] \in Nat /\ Len(hand[s]) \in Nat
                             /\ Len(hand[s]) <= Batch /\ (hand[s] = <<>> <=> Len(hand[s]) = 0)
         /\ served \in Nat /\ histogram \in [Buckets -> Nat] /\ scan \in Scans
         /\ config \in Configs /\ config.ticks \in Nat /\ clock \in Nat /\ Batch \in Nat \ {0}
         /\ waiting \subseteq Requests
<1>1. config.ticks \in Nat /\ Batch \in Nat \ {0}
  BY TelemetryAssumption DEF Inv, Shape, TypeOK
<1>2. hand \in [Slots -> Seq(Requests)]
  BY DEF Inv, Shape
<1>3. \A s \in Slots : Len(hand[s]) \in Nat /\ (hand[s] = <<>> <=> Len(hand[s]) = 0)
  BY <1>2, LenProperties, EmptySeq
<1>4. QED
  BY <1>1, <1>2, <1>3 DEF Inv, Shape, TypeOK, Places

\* A slot's sensors keep up with its batch.
LEMMA BatchesStep ==
  ASSUME Inv, [Next]_vars
  PROVE  Batches'
<1>0. Batches /\ clock \in Nat
  BY Typed DEF Inv
<1>1. CASE Outside
  <2>1. \A s \in Slots : started[s] \in Nat /\ stint[s] \in Nat
    BY Typed
  <2>2. clock' \in Nat /\ clock <= clock'
    BY <1>0, <1>1, OutsideStep
  <2>3. QED
    BY <1>0, <1>1, <2>1, <2>2, OutsideStep DEF Batches, Idle
<1>2. CASE Reads
  BY <1>0, <1>2, ReadsStep DEF Batches, Idle
<1>3. ASSUME NEW s \in Slots, Works(s) PROVE Batches'
  <2>1. Worked(s)
    BY <1>3, SlotStep
  <2>2. clock' = clock /\ main' = main /\ \A u \in Slots : u # s => Same(u)
    BY <2>1 DEF Worked
  <2>3. /\ inFlight[s] \in Nat /\ started[s] \in Nat /\ Len(hand[s]) \in Nat
        /\ (hand[s] = <<>> <=> Len(hand[s]) = 0) /\ hand[s] \in Seq(Requests) /\ waiting \subseteq Requests
        /\ stint[s] \in Nat
    BY Typed
  <2>4. \A r \in waiting : /\ Len(<<r>>) = 1 /\ <<r>> # <<>>
                           /\ Len(Append(hand[s], r)) = Len(hand[s]) + 1 /\ Append(hand[s], r) # <<>>
    <3> SUFFICES ASSUME NEW r \in waiting
                 PROVE  /\ Len(<<r>>) = 1 /\ <<r>> # <<>>
                        /\ Len(Append(hand[s], r)) = Len(hand[s]) + 1 /\ Append(hand[s], r) # <<>>
      OBVIOUS
    <3>1. r \in Requests
      BY <2>3
    <3>2. Append(hand[s], r) \in Seq(Requests) /\ Len(Append(hand[s], r)) = Len(hand[s]) + 1
      BY <2>3, <3>1, AppendProperties
    <3>3. Append(hand[s], r) # <<>>
      BY <2>3, <3>2, EmptySeq
    <3>4. QED
      BY <3>2, <3>3
  <2>5. Moved(s)
    BY <2>1 DEF Worked
  <2> DEFINE B(u) ==
        /\ started[u] <= clock
        /\ at[u] \in {"take", "free", "reset_flight", "reset_stamp"} => inFlight[u] = 0
        /\ at[u] = "gone" /\ inFlight[u] # 0 => main = "down"
        /\ Idle(u) => hand[u] = <<>>
        /\ ~Idle(u) =>
             /\ hand[u] # <<>> /\ stint[u] <= clock
             /\ (IF at[u] \in {"served", "row", "stamp", "count"} THEN inFlight[u] + 1
                 ELSE inFlight[u]) <= Len(hand[u])
             /\ at[u] = "count" \/ inFlight[u] # 0 => stint[u] <= started[u]
  <2>6. B(s)
    BY <1>0 DEF Batches
  <2>7. B(s)'
    <3>1. CASE From(s, "take", "served")
      <4>1. inFlight[s] = 0 /\ hand[s] = <<>> /\ started[s] <= clock
        BY <2>6, <3>1 DEF Idle, From
      <4>2. /\ started'[s] = started[s] /\ inFlight'[s] = inFlight[s] /\ stint'[s] = clock
            /\ \E r \in waiting : hand'[s] = <<r>>
        BY <2>5, <3>1 DEF Moved, From
      <4>3. hand'[s] # <<>> /\ Len(hand'[s]) = 1
        BY <2>4, <4>2
      <4>4. /\ hand'[s] # <<>> /\ Len(hand'[s]) = 1 /\ inFlight'[s] = 0 /\ started'[s] <= clock'
            /\ stint'[s] = clock' /\ at'[s] = "served"
        BY <2>2, <3>1, <4>1, <4>2, <4>3 DEF From
      <4>5. QED
        BY <1>0, <2>2, <4>4 DEF Idle
    <3>2. CASE Idle(s) /\ ~From(s, "take", "served")
      <4>1. /\ hand'[s] = hand[s] /\ inFlight'[s] \in {inFlight[s], 0} /\ started'[s] \in {started[s], 0}
            /\ at'[s] \in {at[s], "free", "reset_flight", "reset_stamp", "take"}
            /\ at[s] = "gone" => at'[s] = "gone"
        BY <2>5, <3>2 DEF Moved, From, Idle
      <4>2. hand'[s] = <<>> /\ started'[s] <= clock' /\ Idle(s)'
        BY <1>0, <2>2, <2>3, <2>6, <3>2, <4>1 DEF Idle
      <4>3. /\ at'[s] # "gone" => inFlight'[s] = 0
            /\ at'[s] = "gone" /\ inFlight'[s] # 0 => main' = "down"
        BY <2>2, <2>6, <3>2, <4>1 DEF Idle
      <4>4. QED
        BY <4>2, <4>3
    <3>3. CASE ~Idle(s) /\ at'[s] = at[s]
      <4>1. /\ hand'[s] = hand[s] /\ inFlight'[s] = 0 /\ started'[s] = started[s] /\ stint'[s] = stint[s]
        BY <2>5, <3>3 DEF Moved, From
      <4>2. hand[s] # <<>> /\ stint[s] <= clock /\ 1 <= Len(hand[s]) /\ started[s] <= clock
        BY <2>3, <2>6, <3>3
      <4>3. at[s] = "count" => stint[s] <= started[s]
        BY <2>6, <3>3
      <4>4. QED
        BY <2>2, <2>3, <3>3, <4>1, <4>2, <4>3 DEF Idle
    <3>4. CASE at[s] = "served" /\ at'[s] # at[s]
      BY <1>0, <2>2, <2>3, <2>4, <2>5, <2>6, <3>4 DEF Moved, From, Idle
    <3>5. CASE at[s] = "row" /\ at'[s] # at[s]
      BY <1>0, <2>2, <2>3, <2>4, <2>5, <2>6, <3>5 DEF Moved, From, Idle
    <3>6. CASE at[s] = "stamp" /\ at'[s] # at[s]
      BY <1>0, <2>2, <2>3, <2>4, <2>5, <2>6, <3>6 DEF Moved, From, Idle
    <3>7. CASE at[s] = "count" /\ at'[s] # at[s]
      BY <1>0, <2>2, <2>3, <2>4, <2>5, <2>6, <3>7 DEF Moved, From, Idle
    <3>8. CASE at[s] = "record" /\ at'[s] # at[s]
      BY <1>0, <2>2, <2>3, <2>4, <2>5, <2>6, <3>8 DEF Moved, From, Idle
    <3>9. CASE at[s] = "more" /\ at'[s] # at[s]
      BY <1>0, <2>2, <2>3, <2>4, <2>5, <2>6, <3>9 DEF Moved, From, Idle
    <3>10. CASE at[s] = "app" /\ at'[s] # at[s]
      BY <1>0, <2>2, <2>3, <2>4, <2>5, <2>6, <3>10 DEF Moved, From, Idle
    <3>11. CASE at[s] = "crashed" /\ at'[s] # at[s]
      BY <1>0, <2>2, <2>3, <2>4, <2>5, <2>6, <3>11 DEF Moved, From, Idle
    <3>12. QED
      <4>1. at[s] \in Places
        BY Typed
      <4>2. QED
        BY <3>1, <3>2, <3>3, <3>4, <3>5, <3>6, <3>7, <3>8, <3>9, <3>10, <3>11, <4>1 DEF Idle, Places
  <2>8. ASSUME NEW u \in Slots, u # s PROVE B(u)'
    BY <1>0, <2>2, <2>8 DEF Batches, Same, Idle
  <2>9. QED
    BY <2>7, <2>8 DEF Batches
<1>4. QED
  BY <1>1, <1>2, <1>3, NextCases DEF Outside

\* A report's next step, field by field.
Begun(reader) ==
  /\ scan.by = Nobody /\ scan'.by = reader /\ scan'.at = "row" /\ scan'.now = clock
  /\ scan'.next = 1 /\ scan'.busy = <<>> /\ scan'.rows = 0 /\ scan'.total = 0
  /\ scan'.age = [s \in Slots |-> Age(s)] /\ torn' = {}

Kept == scan'.by = scan.by /\ scan'.now = scan.now /\ scan'.age = scan.age /\ torn' = torn

Noted ==
  /\ scan.at = "row" /\ scan.next \in Slots /\ scan'.at = "flight" /\ Kept
  /\ scan'.next = scan.next /\ scan'.busy = scan.busy /\ scan'.rows = scan.rows
  /\ scan'.total = scan.total

Looked ==
  /\ scan.at = "flight" /\ scan'.at = "started" /\ Kept
  /\ scan'.seen => inFlight[scan.next] # 0
  /\ scan'.next = scan.next /\ scan'.busy = scan.busy /\ scan'.rows = scan.rows
  /\ scan'.total = scan.total

Stamped ==
  /\ scan.at = "started" /\ scan'.at = "slotServed" /\ Kept
  /\ scan'.busy = Append(scan.busy, BusyFor(scan.next))
  /\ scan'.next = scan.next /\ scan'.rows = scan.rows /\ scan'.total = scan.total

Summed ==
  /\ scan.at = "slotServed" /\ scan'.at = "row" /\ Kept /\ scan'.busy = scan.busy
  /\ scan'.next = scan.next + 1 /\ scan'.rows = scan.rows + row[scan.next]
  /\ scan'.total = scan.total

Totalled ==
  /\ scan.at = "row" /\ scan.next \notin Slots /\ Kept /\ scan'.busy = scan.busy
  /\ scan'.at = (IF scan.by = "monitor" THEN "ready" ELSE "histogram")
  /\ scan'.next = 1 /\ scan'.rows = scan.rows /\ scan'.total = scan.total
  /\ scan.by # "monitor" => scan'.served = served

Tallied ==
  /\ scan.at = "histogram" /\ Kept /\ scan'.busy = scan.busy
  /\ scan'.at = (IF scan.next = M THEN "ready" ELSE "histogram")
  /\ scan'.next = scan.next + 1 /\ scan'.rows = scan.rows
  /\ scan'.total = scan.total + histogram[scan.next] /\ scan'.served = scan.served

Ended == scan'.by = Nobody /\ scan'.at = "idle"

\* These are all, and they keep the type.
LEMMA ScanSteps ==
  ASSUME Inv, Reads
  PROVE  /\ scan' \in Scans
         /\ \/ Begun("monitor") /\ main = "up" /\ \A s \in Slots : ~Resetting(s)
            \/ \E p \in Probes : Begun(p) /\ probe[p] = "asked"
            \/ Noted \/ Looked \/ Stamped \/ Summed \/ Totalled \/ Tallied \/ Ended
<1>0. /\ scan \in Scans /\ row \in [Slots -> Nat] /\ histogram \in [Buckets -> Nat] /\ served \in Nat
      /\ started \in [Slots -> Nat] /\ clock \in Nat /\ stint \in [Slots -> Nat] /\ Scanning
  BY Typed DEF Inv
<1>1. [s \in Slots |-> Age(s)] \in [Slots -> Nat]
  <2>1. \A s \in Slots : Age(s) \in Nat
    BY <1>0 DEF Inv, Batches, Idle, Age
  <2>2. QED
    BY <2>1
<1>2. NoScan \in Scans /\ NoScan.by = Nobody /\ NoScan.at = "idle"
  BY DEF NoScan, Scans
<1>3. ASSUME NEW reader \in Probes \cup {"monitor"}, ScanBegin(reader)
      PROVE  Begun(reader) /\ scan' \in Scans
  <2>1. PICK age \in [Slots -> Nat] : age = [s \in Slots |-> Age(s)]
    BY <1>1
  <2>2. scan' = [NoScan EXCEPT !.by = reader, !.at = "row", !.now = clock, !.age = age]
    BY <1>3, <2>1 DEF ScanBegin
  <2>3. scan' \in Scans
    BY <1>0, <1>2, <2>2 DEF Scans
  <2>4. QED
    BY <1>3, <2>1, <2>2, <2>3 DEF ScanBegin, Begun, NoScan
<1>4. CASE MonitorScan
  BY <1>3, <1>4 DEF MonitorScan, Resetting
<1>5. ASSUME NEW p \in Probes, Handle(p) PROVE scan' \in Scans /\ Begun(p) /\ probe[p] = "asked"
  BY <1>3, <1>5 DEF Handle
<1>6. CASE MonitorActs
  BY <1>2, <1>6 DEF MonitorActs, Ended
<1>7. CASE \E p \in Probes : Respond(p)
  BY <1>2, <1>7 DEF Respond, Ended
<1>8. ASSUME ScanQuarantined \/ ScanInFlight, torn' = torn
      PROVE  scan' \in Scans /\ (Noted \/ Looked)
  BY <1>0, <1>8 DEF ScanQuarantined, ScanInFlight, Noted, Looked, Kept, Scans
<1>9. CASE ScanStarted /\ torn' = torn
  <2>1. scan.next \in Slots /\ BusyFor(scan.next) \in Nat
    BY <1>0, <1>9 DEF Scanning, ScanStarted, BusyFor, Scans
  <2>2. PICK x \in Nat : x = BusyFor(scan.next)
    BY <2>1
  <2>3. Append(scan.busy, x) \in Seq(Nat)
    BY <1>0, AppendProperties DEF Scans
  <2>4. scan.at = "started" /\ scan' = [scan EXCEPT !.at = "slotServed", !.busy = Append(@, x)]
    BY <1>9, <2>2 DEF ScanStarted
  <2>5. QED
    BY <1>0, <1>9, <2>2, <2>3, <2>4 DEF Stamped, Kept, Scans
<1>10. CASE ScanSlotServed /\ torn' = torn
  <2>1. scan.next \in Slots /\ row[scan.next] \in Nat
    BY <1>0, <1>10 DEF Scanning, ScanSlotServed
  <2>2. PICK x \in Nat, n \in Nat : x = scan.rows + row[scan.next] /\ n = scan.next + 1
    BY <1>0, <2>1 DEF Scans
  <2>3. scan.at = "slotServed" /\ scan' = [scan EXCEPT !.at = "row", !.next = n, !.rows = x]
    BY <1>10, <2>2 DEF ScanSlotServed
  <2>4. QED
    BY <1>0, <1>10, <2>2, <2>3 DEF Summed, Kept, Scans
<1>11. CASE ScanServed /\ torn' = torn
  BY <1>0, <1>11 DEF ScanServed, Totalled, Kept, Scans
<1>12. CASE ScanBucket /\ torn' = torn
  <2>1. scan.next \in Buckets /\ histogram[scan.next] \in Nat
    BY <1>0, <1>12 DEF Scanning, ScanBucket
  <2>2. PICK x \in Nat, n \in Nat : x = scan.total + histogram[scan.next] /\ n = scan.next + 1
    <3>1. scan.total \in Nat /\ scan.next \in Nat
      BY <1>0 DEF Scans
    <3>2. scan.total + histogram[scan.next] \in Nat /\ scan.next + 1 \in Nat
      BY <2>1, <3>1
    <3>3. QED
      BY <3>2
  <2>3. PICK a \in {"ready", "histogram"} : a = IF scan.next = M THEN "ready" ELSE "histogram"
    OBVIOUS
  <2>4. scan.at = "histogram" /\ scan' = [scan EXCEPT !.total = x, !.next = n, !.at = a]
    BY <1>12, <2>2, <2>3 DEF ScanBucket, M
  <2>5. QED
    BY <1>0, <1>12, <2>2, <2>3, <2>4 DEF Tallied, Kept, Scans
<1>13. QED
  BY <1>4, <1>5, <1>6, <1>7, <1>8, <1>9, <1>10, <1>11, <1>12 DEF Reads, Scan

-----------------------------------------------------------------------------
(* The readers and the reports                                             *)

\* Nobody reads for a server that is gone.
LEMMA QuietStep ==
  ASSUME Inv, [Next]_vars
  PROVE  Quiet'
<1>0. Quiet /\ probe \in [Probes -> {"new", "backlog", "open", "asked", "replying", "closed"}]
  BY DEF Inv, Shape, TypeOK
<1>1. ASSUME NEW s \in Slots, Works(s) PROVE Quiet'
  <2>1. UNCHANGED <<main, control, probe, scan>>
    BY <1>1, SlotStep DEF Worked, ctlVars
  <2>2. QED
    BY <1>0, <2>1 DEF Quiet
<1>2. CASE Reads
  <2>1. /\ UNCHANGED <<main, control>>
        /\ UNCHANGED probe \/ \E p \in Probes : ProbeGoes(p, "replying") /\ probe[p] = "asked"
    BY <1>2, ReadsStep
  <2>2. main = "down" => UNCHANGED probe
    BY <1>0, <2>1 DEF Quiet
  <2>3. ASSUME NEW reader \in Probes \cup {"monitor"}, Begun(reader),
               IF reader = "monitor" THEN main = "up" ELSE probe[reader] = "asked"
        PROVE  Quiet'
    <3>1. main # "down"
      BY <1>0, <2>3, TelemetryAssumption DEF Quiet
    <3>2. QED
      BY <1>0, <2>1, <2>3, <3>1, TelemetryAssumption DEF Quiet, Begun
  <2>4. ASSUME scan'.by = scan.by, scan.at # "idle", scan'.at # "idle" PROVE Quiet'
    BY <1>0, <2>1, <2>2, <2>4 DEF Quiet
  <2>5. CASE Ended
    BY <1>0, <2>1, <2>2, <2>5, TelemetryAssumption DEF Quiet, Ended
  <2>6. CASE Noted \/ Looked \/ Stamped \/ Summed \/ Totalled \/ Tallied
    BY <2>4, <2>6 DEF Noted, Looked, Stamped, Summed, Totalled, Tallied, Kept
  <2>7. QED
    <3>1. CASE Begun("monitor") /\ main = "up"
      BY <2>3, <3>1
    <3>2. ASSUME NEW p \in Probes, Begun(p), probe[p] = "asked" PROVE Quiet'
      BY <2>3, <3>2, TelemetryAssumption
    <3>3. QED
      BY <1>2, <2>5, <2>6, <3>1, <3>2, ScanSteps
<1>3. CASE Connects
  <2>1. UNCHANGED <<main, control, scan>>
    BY <1>3 DEF Connects, Connect, Accept, Ask, Replied, Deadline, Unaffected
  <2>2. main = "down" => probe' = probe \/ \E p \in Probes : ProbeGoes(p, "closed")
    BY <1>0, <1>3 DEF Quiet, Connects, Connect, Accept, Ask, Replied, Deadline
  <2>3. main = "down" => \A p \in Probes : probe'[p] \in {"new", "closed"}
    BY <1>0, <2>2 DEF Quiet, ProbeGoes
  <2>4. QED
    BY <1>0, <2>1, <2>3 DEF Quiet
<1>4. CASE Drain \/ CloseQueue
  BY <1>0, <1>4 DEF Quiet, Drain, CloseQueue, readVars, ctlVars
<1>5. CASE RuntimeDown
  BY <1>0, <1>5 DEF Quiet, RuntimeDown, readVars, ctlVars
<1>6. CASE ControlStop
  <2>1. scan.by = Nobody
    BY <1>0, <1>6 DEF Quiet, ControlStop, ControlFree, Inv, Shape, Scans
  <2>2. QED
    BY <1>0, <1>6, <2>1 DEF Quiet, ControlStop, readVars
<1>7. CASE AcceptFails \/ BackoffEnds
  <2>1. UNCHANGED <<main, probe, scan>> /\ main # "down"
    BY <1>0, <1>7 DEF Quiet, AcceptFails, BackoffEnds, Unaffected
  <2>2. QED
    BY <1>0, <2>1 DEF Quiet
<1>8. CASE Tick \/ Flush \/ Handles \/ UNCHANGED vars
  <2>1. UNCHANGED <<main, control, probe, scan>>
    BY <1>8 DEF Tick, Flush, Handles, Arrive, Refuse, Complete, RequestTimeout, Abort, AppAnswers, AbortAnswers, vars,
                readVars, ctlVars
  <2>2. QED
    BY <1>0, <2>1 DEF Quiet
<1>9. QED
  BY <1>1, <1>2, <1>3, <1>4, <1>5, <1>6, <1>7, <1>8, NextCases

\* No slot is reset under the monitor's eyes.
LEMMA AloneStep ==
  ASSUME Inv, [Next]_vars
  PROVE  Alone'
<1>0. Alone /\ (scan.at = "idle" <=> scan.by = Nobody) /\ Nobody # "monitor"
  BY TelemetryAssumption DEF Inv, Quiet
<1>1. CASE Outside
  <2>1. UNCHANGED <<scan, torn, at>>
    BY <1>1, OutsideStep
  <2>2. QED
    BY <1>0, <2>1 DEF Alone, Resetting
<1>2. CASE Reads
  <2>1. UNCHANGED at
    BY <1>2, ReadsStep
  <2>2. CASE Begun("monitor") /\ \A s \in Slots : ~Resetting(s)
    BY <2>1, <2>2 DEF Begun, Alone, Resetting
  <2>3. ASSUME NEW p \in Probes, Begun(p) PROVE Alone'
    BY <2>3, TelemetryAssumption DEF Begun, Alone
  <2>4. CASE Noted \/ Looked \/ Stamped \/ Summed \/ Totalled \/ Tallied
    <3>1. scan'.by = scan.by /\ torn' = torn /\ scan.at # "ready"
      BY <2>4 DEF Noted, Looked, Stamped, Summed, Totalled, Tallied, Kept
    <3>2. QED
      BY <1>0, <2>1, <3>1 DEF Alone, Resetting
  <2>5. CASE Ended
    BY <1>0, <2>5 DEF Ended, Alone
  <2>6. QED
    BY <1>2, <2>2, <2>3, <2>4, <2>5, ScanSteps
<1>3. ASSUME NEW s \in Slots, Works(s) PROVE Alone'
  <2>1. Moved(s) /\ (\A u \in Slots : u # s => Same(u)) /\ UNCHANGED scan
        /\ torn' = IF Tears(s) THEN torn \cup {s} ELSE torn
    BY <1>3, SlotStep DEF Worked
  <2>2. ASSUME scan.by = "monitor", scan.at # "ready" PROVE torn' = {} /\ \A u \in Slots : ~Resetting(u)'
    <3>1. torn = {} /\ MonitorReads /\ \A u \in Slots : ~Resetting(u)
      BY <1>0, <2>2 DEF Alone, MonitorReads
    <3>2. ~Tears(s) /\ ~Resetting(s)'
      BY <2>1, <3>1 DEF Moved, From, Tears, Resetting
    <3>3. \A u \in Slots : u # s => ~Resetting(u)'
      BY <2>1, <3>1 DEF Same, Resetting
    <3>4. QED
      BY <2>1, <3>1, <3>2, <3>3
  <2>3. ASSUME scan.by = "monitor", scan.at = "ready" PROVE torn' = {}
    BY <1>0, <2>1, <2>3 DEF Alone, Tears
  <2>4. QED
    BY <2>1, <2>2, <2>3 DEF Alone
<1>4. QED
  BY <1>1, <1>2, <1>3, NextCases DEF Outside

\* A slot's stamp stays as young as a report takes it for: it is only ever
\* written with the clock, or zeroed for a new worker.
LEMMA StampsGrow ==
  ASSUME Inv, [Next]_vars, NEW u \in Slots
  PROVE  started'[u] \in Nat /\ (started[u] <= started'[u] \/ From(u, "reset_stamp", "take"))
<1>0. started[u] \in Nat /\ clock \in Nat /\ started[u] <= clock
  BY Typed DEF Inv, Batches
<1>1. CASE Outside \/ Reads
  BY <1>0, <1>1, OutsideStep, ReadsStep
<1>2. ASSUME NEW s \in Slots, Works(s)
      PROVE  started'[u] \in Nat /\ (started[u] <= started'[u] \/ From(u, "reset_stamp", "take"))
  <2>1. Worked(s)
    BY <1>2, SlotStep
  <2>2. started'[u] \in {started[u], clock} \/ (started'[u] = 0 /\ From(u, "reset_stamp", "take"))
    BY <2>1 DEF Worked, Same, Moved
  <2>3. QED
    BY <1>0, <2>2
<1>3. QED
  BY <1>1, <1>2, NextCases DEF Outside

\* While the workers write, what a report has read stays true.
LEMMA ScanningKept ==
  ASSUME Inv, [Next]_vars, Outside \/ \E s \in Slots : Works(s)
  PROVE  Scanning'
<1>0. /\ Scanning /\ scan \in Scans /\ clock \in Nat /\ started \in [Slots -> Nat]
      /\ inFlight \in [Slots -> 0..Batch] /\ Batches
  BY Typed DEF Inv
<1>1. clock' \in Nat /\ clock <= clock' /\ UNCHANGED scan /\ torn \subseteq torn'
  <2>1. CASE Outside
    BY <1>0, <2>1, OutsideStep
  <2>2. ASSUME NEW s \in Slots, Works(s) PROVE clock' = clock /\ UNCHANGED scan /\ torn \subseteq torn'
    BY <2>2, SlotStep DEF Worked
  <2>3. QED
    BY <1>0, <2>1, <2>2
<1>2. ASSUME NEW u \in Slots, scan.at # "idle", Young(u), ~From(u, "reset_stamp", "take")
      PROVE  Young(u)'
  <2>1. started'[u] \in Nat /\ started[u] <= started'[u] /\ started[u] \in Nat
    BY <1>0, <1>2, StampsGrow
  <2>2. scan.now \in Nat /\ scan.age[u] \in Nat /\ scan.now <= started[u] + scan.age[u]
    BY <1>0, <1>2 DEF Scans, Scanning, Young
  <2>3. scan.now <= started'[u] + scan.age[u]
    BY <2>1, <2>2
  <2>4. QED
    BY <1>1, <2>3 DEF Young
<1>3. ASSUME NEW u \in Slots, scan.at # "idle", at'[u] = "count" \/ inFlight'[u] # 0 PROVE Young(u)'
  <2>1. (at[u] = "count" \/ inFlight[u] # 0) \/ started'[u] = clock
    <3>1. CASE Outside
      BY <1>3, <3>1, OutsideStep
    <3>2. ASSUME NEW s \in Slots, Works(s)
          PROVE  (at[u] = "count" \/ inFlight[u] # 0) \/ started'[u] = clock
      <4>1. Worked(s)
        BY <3>2, SlotStep
      <4>2. QED
        BY <1>3, <4>1 DEF Worked, Same, Moved, From
    <3>3. QED
      BY <3>1, <3>2
  <2>2. CASE at[u] = "count" \/ inFlight[u] # 0
    <3>1. ~From(u, "reset_stamp", "take")
      BY <1>0, <2>2 DEF Batches, From
    <3>2. QED
      BY <1>0, <1>2, <1>3, <2>2, <3>1 DEF Scanning
  <2>3. CASE started'[u] = clock
    <3>1. scan.now \in Nat /\ scan.age[u] \in Nat /\ scan.now <= clock
      BY <1>0, <1>3 DEF Scans, Scanning
    <3>2. scan.now <= started'[u] + scan.age[u]
      BY <1>0, <2>3, <3>1
    <3>3. QED
      BY <1>1, <3>2 DEF Young
  <2>4. QED
    BY <2>1, <2>2, <2>3
<1>4. scan.at # "idle" => scan.now <= clock'
  BY <1>0, <1>1 DEF Scanning, Scans
<1>5. scan.at = "started" /\ scan.seen => Young(scan.next)' \/ scan.next \in torn'
  <2>1. ASSUME scan.at = "started", scan.seen PROVE Young(scan.next)' \/ scan.next \in torn'
    <3>1. PICK u \in Slots : u = scan.next
      BY <1>0, <2>1 DEF Scanning
    <3>2. Young(u) \/ u \in torn
      BY <1>0, <2>1, <3>1 DEF Scanning
    <3>3. CASE u \in torn
      BY <1>1, <3>1, <3>3
    <3>4. CASE Young(u) /\ ~From(u, "reset_stamp", "take")
      <4>1. Young(u)'
        BY <1>2, <2>1, <3>4
      <4>2. QED
        BY <1>1, <3>1, <4>1 DEF Young
    <3>5. CASE From(u, "reset_stamp", "take")
      <4>1. ~Outside
        BY <3>5, OutsideStep DEF From
      <4>2. PICK s \in Slots : Worked(s)
        BY <4>1, SlotStep
      <4>3. u = s
        BY <3>5, <4>2 DEF Worked, Same, From
      <4>4. Tears(u)
        BY <2>1, <3>1, <3>5 DEF Tears
      <4>5. QED
        BY <3>1, <4>2, <4>3, <4>4 DEF Worked
    <3>6. QED
      BY <3>2, <3>3, <3>4, <3>5
  <2>2. QED
    BY <2>1
<1>6. \A i \in 1..Len(scan.busy) : scan.busy[i] <= scan.age[i] \/ i \in torn => scan.busy[i] <= scan.age[i] \/ i \in torn'
  BY <1>1
<1>7. QED
  BY <1>0, <1>1, <1>3, <1>4, <1>5, <1>6 DEF Scanning

\* The step of a report keeps its busy times true.
LEMMA ScanningReads ==
  ASSUME Inv, Reads
  PROVE  Scanning'
<1>0. /\ Scanning /\ scan \in Scans /\ clock \in Nat /\ started \in [Slots -> Nat] /\ scan' \in Scans
      /\ inFlight \in [Slots -> 0..Batch] /\ at \in [Slots -> Places] /\ stint \in [Slots -> Nat]
  BY Typed, ScanSteps DEF Inv
<1>1. UNCHANGED <<clock, at, started, inFlight>>
  BY ReadsStep
<1>2. Slots = 1..N /\ N \in Nat /\ Buckets = 1..M /\ M \in Nat /\ M > 0
  BY Numbers
<1>3. ASSUME Kept, scan.at # "idle"
      PROVE  /\ scan'.age \in [Slots -> Nat] /\ scan'.now <= clock'
             /\ \A s \in Slots : at'[s] = "count" \/ inFlight'[s] # 0 => Young(s)'
             /\ \A s \in Slots : Young(s) => Young(s)'
  BY <1>0, <1>1, <1>3 DEF Scanning, Kept, Young
<1>4. ASSUME NEW reader \in Probes \cup {"monitor"}, Begun(reader), main # "down" PROVE Scanning'
  <2>1. ASSUME NEW s \in Slots
        PROVE  Age(s) \in Nat /\ (at[s] = "count" \/ inFlight[s] # 0 => clock <= started[s] + Age(s))
    <3>1. Idle(s) => Age(s) = 0 /\ inFlight[s] = 0 /\ at[s] # "count"
      BY <1>0, <1>4, <2>1 DEF Inv, Batches, Idle, Age, Places
    <3>2. ~Idle(s) => Age(s) = clock - stint[s] /\ stint[s] <= clock
      BY <2>1 DEF Inv, Batches, Idle, Age
    <3>3. ~Idle(s) /\ (at[s] = "count" \/ inFlight[s] # 0) => stint[s] <= started[s]
      BY <2>1 DEF Inv, Batches
    <3>4. started[s] \in Nat /\ stint[s] \in Nat
      BY <1>0
    <3>5. QED
      BY <1>0, <3>1, <3>2, <3>3, <3>4
  <2>2. /\ scan'.age = [s \in Slots |-> Age(s)] /\ scan'.now = clock /\ scan'.at = "row" /\ scan'.next = 1
        /\ scan'.busy = <<>> /\ scan'.total = 0 /\ Len(scan'.busy) = 0
    BY <1>4 DEF Begun
  <2>3. scan'.age \in [Slots -> Nat] /\ \A s \in Slots : scan'.age[s] = Age(s)
    BY <2>1, <2>2
  <2>4. \A s \in Slots : at'[s] = "count" \/ inFlight'[s] # 0 => Young(s)'
    BY <1>1, <2>1, <2>2, <2>3 DEF Young
  <2>5. 1..Len(scan'.busy) = {} /\ 1 \in 1..(N + 1) /\ Len(scan'.busy) = 1 - 1
    BY <1>2, <2>2
  <2>6. QED
    BY <1>0, <1>1, <2>2, <2>3, <2>4, <2>5 DEF Scanning
<1>5. CASE Noted \/ Looked
  <2>1. Looked /\ scan'.seen => Young(scan.next)
    BY <1>0, <1>5 DEF Looked, Scanning
  <2>2. QED
    BY <1>0, <1>2, <1>3, <1>5, <2>1 DEF Noted, Looked, Scanning, Kept, Young
<1>6. CASE Stamped
  <2>1. PICK u \in Slots : u = scan.next
    BY <1>0, <1>6 DEF Stamped, Scanning
  <2>2. PICK x \in Nat : x = BusyFor(u) /\ (x <= scan.age[u] \/ u \in torn)
    <3>1. started[u] \in Nat /\ scan.age[u] \in Nat /\ scan.now \in Nat
      BY <1>0, <1>6 DEF Stamped, Scanning, Scans
    <3>2. scan.seen /\ u \notin torn => scan.now <= started[u] + scan.age[u]
      BY <1>0, <1>6, <2>1 DEF Stamped, Scanning, Young
    <3>3. BusyFor(u) \in Nat /\ (BusyFor(u) <= scan.age[u] \/ u \in torn)
      BY <3>1, <3>2 DEF BusyFor
    <3>4. QED
      BY <3>3
  <2>3. scan.busy \in Seq(Nat) /\ Len(scan.busy) = u - 1 /\ scan'.busy = Append(scan.busy, x)
    BY <1>0, <1>6, <2>1, <2>2 DEF Stamped, Scanning, Scans
  <2>4. /\ Len(scan'.busy) = u /\ scan'.busy[u] = x
        /\ \A i \in 1..(u - 1) : scan'.busy[i] = scan.busy[i]
    <3>1. Len(Append(scan.busy, x)) = Len(scan.busy) + 1
      BY <2>3, AppendProperties
    <3>2. \A i \in 1..Len(scan.busy) : Append(scan.busy, x)[i] = scan.busy[i]
      BY <2>3, AppendProperties
    <3>3. Append(scan.busy, x)[Len(scan.busy) + 1] = x
      BY <2>3, AppendProperties
    <3>4. u \in Nat /\ (u - 1) + 1 = u
      BY <1>2
    <3>5. QED
      BY <2>3, <3>1, <3>2, <3>3, <3>4
  <2>5. \A i \in 1..Len(scan'.busy) : scan'.busy[i] <= scan'.age[i] \/ i \in torn'
    <3>1. \A i \in 1..(u - 1) : scan.busy[i] <= scan.age[i] \/ i \in torn
      BY <1>0, <1>6, <2>3 DEF Stamped, Scanning
    <3>2. scan'.age = scan.age /\ torn' = torn
      BY <1>6 DEF Stamped, Kept
    <3>3. ASSUME NEW i \in 1..u PROVE scan'.busy[i] <= scan'.age[i] \/ i \in torn'
      <4>1. i = u \/ i \in 1..(u - 1)
        BY <1>2, <3>3
      <4>2. QED
        BY <2>2, <2>4, <3>1, <3>2, <4>1
    <3>4. QED
      BY <2>4, <3>3
  <2>6. /\ scan'.at = "slotServed" /\ scan'.next = u /\ scan'.total = 0
    BY <1>0, <1>6, <2>1 DEF Stamped, Scanning
  <2>7. scan.at # "idle" /\ Kept
    BY <1>6 DEF Stamped
  <2>8. QED
    BY <1>3, <2>4, <2>5, <2>6, <2>7 DEF Scanning
<1>7. CASE Summed
  <2>1. /\ scan.next \in Slots /\ Len(scan.busy) = scan.next /\ scan.total = 0
        /\ \A i \in 1..Len(scan.busy) : scan.busy[i] <= scan.age[i] \/ i \in torn
    BY <1>0, <1>7 DEF Summed, Scanning
  <2>2. /\ scan'.at = "row" /\ scan'.next = scan.next + 1 /\ scan'.busy = scan.busy
        /\ scan'.total = scan.total /\ scan'.age = scan.age /\ torn' = torn
    BY <1>7 DEF Summed, Kept
  <2>3. scan'.next \in 1..(N + 1) /\ Len(scan'.busy) = scan'.next - 1
    BY <1>2, <2>1, <2>2
  <2>4. Kept /\ scan.at # "idle"
    BY <1>7 DEF Summed
  <2>5. QED
    BY <1>3, <2>1, <2>2, <2>3, <2>4 DEF Scanning
<1>8. CASE Totalled
  <2>1. scan.next = N + 1 /\ Len(scan.busy) = N
    <3>1. scan.next \in 1..(N + 1) /\ scan.next \notin 1..N /\ Len(scan.busy) = scan.next - 1
      BY <1>0, <1>2, <1>8 DEF Totalled, Scanning
    <3>2. QED
      BY <1>2, <3>1
  <2>2. 1 \in Buckets
    BY <1>2
  <2>3. QED
    BY <1>0, <1>3, <1>8, <2>1, <2>2 DEF Totalled, Scanning, Kept
<1>9. CASE Tallied
  BY <1>0, <1>2, <1>3, <1>9 DEF Tallied, Scanning, Kept
<1>10. CASE Ended
  BY <1>10 DEF Ended, Scanning
<1>11. QED
  <2>1. CASE Begun("monitor") /\ main = "up"
    BY <1>4, <2>1
  <2>2. ASSUME NEW p \in Probes, Begun(p), probe[p] = "asked" PROVE Scanning'
    BY <1>4, <2>2 DEF Inv, Quiet
  <2>3. QED
    BY <1>5, <1>6, <1>7, <1>8, <1>9, <1>10, <2>1, <2>2, ScanSteps

-----------------------------------------------------------------------------
(* The sums                                                                *)

\* What a worker's step does to the counts: one of its own and the
\* server's, one of the histogram's, or none.
LEMMA CountsMoved ==
  ASSUME Inv, NEW s \in Slots, Worked(s)
  PROVE  /\ \A u \in Slots : u # s => Bumps'[u] = Bumps[u]
         /\ \/ /\ Bumps'[s] = Bumps[s] + 1 /\ served' = served + 1 /\ histogram' = histogram
               /\ s \notin Admitting /\ Admitting' = Admitting \cup {s}
            \/ /\ Bumps'[s] = Bumps[s] /\ served' = served
               /\ \E b \in Buckets : histogram' = [histogram EXCEPT ![b] = @ + 1]
               /\ s \in Admitting /\ Admitting' = Admitting \ {s}
            \/ /\ Bumps'[s] \in {Bumps[s], 0} /\ served' = served /\ histogram' = histogram
               /\ Admitting' = Admitting
<1>0. at \in [Slots -> Places] /\ row \in [Slots -> Nat]
  BY Typed
<1>1. Moved(s) /\ \A u \in Slots : u # s => Same(u)
  BY DEF Worked
<1>2. \A u \in Slots : u # s => (u \in Admitting' <=> u \in Admitting)
  BY <1>1 DEF Admitting, Same
<1>3. Admitting \subseteq Slots /\ Admitting' \subseteq Slots
  BY DEF Admitting
<1>4. \A u \in Slots : u # s => Bumps'[u] = Bumps[u]
  BY <1>1 DEF Bumps, Same
<1>5. CASE at[s] = "served" /\ at'[s] # at[s]
  <2>1. at'[s] = "row" /\ row'[s] = row[s] /\ served' = served + 1 /\ histogram' = histogram
    BY <1>1, <1>5 DEF Moved, From
  <2>2. Bumps'[s] = Bumps[s] + 1
    BY <1>5, <2>1 DEF Bumps
  <2>3. s \notin Admitting /\ s \in Admitting'
    BY <1>5, <2>1 DEF Admitting
  <2>4. QED
    BY <1>2, <1>3, <1>4, <2>1, <2>2, <2>3
<1>6. CASE at[s] = "record" /\ at'[s] # at[s]
  <2>1. /\ at'[s] = "more" /\ row'[s] = row[s] /\ served' = served
        /\ \E b \in Buckets : histogram' = [histogram EXCEPT ![b] = @ + 1]
    BY <1>1, <1>6 DEF Moved, From
  <2>2. Bumps'[s] = Bumps[s]
    BY <1>6, <2>1 DEF Bumps
  <2>3. s \in Admitting /\ s \notin Admitting'
    BY <1>6, <2>1 DEF Admitting
  <2>4. QED
    BY <1>2, <1>3, <1>4, <2>1, <2>2, <2>3
<1>7. CASE at[s] \notin {"served", "record"} \/ at'[s] = at[s]
  <2>1. /\ served' = served /\ histogram' = histogram
        /\ \/ at[s] = "row" /\ at'[s] = "stamp" /\ row'[s] = row[s] + 1
           \/ at[s] = "stamp" /\ at'[s] = "count" /\ row'[s] = row[s]
           \/ at[s] = "count" /\ at'[s] = "record" /\ row'[s] = row[s]
           \/ at'[s] = at[s] /\ row'[s] = row[s]
           \/ /\ at[s] \notin {"row", "stamp", "count", "record"}
              /\ at'[s] \notin {"row", "stamp", "count", "record"} /\ row'[s] \in {row[s], 0}
    BY <1>1, <1>7 DEF Moved, From
  <2>2. Bumps'[s] \in {Bumps[s], 0}
    BY <2>1 DEF Bumps
  <2>3. s \in Admitting <=> s \in Admitting'
    BY <2>1 DEF Admitting
  <2>4. QED
    BY <1>2, <1>3, <1>4, <2>1, <2>2, <2>3
<1>8. QED
  BY <1>5, <1>6, <1>7

\* The workers' sums while they write.
LEMMA SumsKept ==
  ASSUME Inv, NEW s \in Slots, Works(s)
  PROVE  (\E t, f : RowsFit(t, f)') /\ (\E t : WaitsFit(t)')
<1>0. /\ N \in Nat /\ Slots = 1..N /\ IsFiniteSet(Slots) /\ M \in Nat /\ Buckets = 1..M
      /\ served \in Nat /\ histogram \in [Buckets -> Nat] /\ scan \in Scans /\ Scanning
      /\ row \in [Slots -> Nat]
  BY Typed, Numbers DEF Inv
<1>1. Worked(s) /\ UNCHANGED scan
  BY SlotStep DEF Worked
<1>2. PICK c : c = Bumps
  OBVIOUS
<1>3. PICK d : d = Bumps'
  OBVIOUS
<1>4. c \in [1..N -> Nat]
  BY <1>0, <1>2 DEF Bumps
<1>5. PICK t, f : RowsFit(t, f)
  BY DEF Inv, Counts
<1>6. PICK h : WaitsFit(h)
  BY DEF Inv, Counts
<1>7. /\ f \in [1..N -> Nat] /\ (\A u \in Slots : c[u] <= f[u])
      /\ Sums(t, f, N) /\ t[N] = served /\ t \in [0..N -> Nat]
      /\ scan.at \in {"row", "flight", "started", "slotServed"} => scan.rows <= t[scan.next - 1]
  BY <1>0, <1>2, <1>5 DEF RowsFit, Sums
<1>8. /\ Sums(h, histogram, M) /\ h[M] + Cardinality(Admitting) = served /\ h \in [0..M -> Nat]
      /\ scan.at = "histogram" => scan.served + h[scan.next - 1] <= scan.total + h[M] + N
  BY <1>6 DEF WaitsFit, Sums
<1>9. IsFiniteSet(Admitting) /\ Cardinality(Admitting) \in Nat
  <2>1. Admitting \in SUBSET Slots
    BY DEF Admitting
  <2>2. QED
    BY <1>0, <2>1, FS_Subset, FS_CardinalityType
<1>10. ASSUME d[s] \in {c[s], 0}, \A u \in Slots : u # s => d[u] = c[u], served' = served
       PROVE  RowsFit(t, f)'
  <2>1. ASSUME NEW u \in Slots PROVE d[u] <= f[u]
    <3>1. c[u] \in Nat /\ f[u] \in Nat /\ c[u] <= f[u] /\ d[u] \in {c[u], 0}
      BY <1>0, <1>4, <1>7, <1>10
    <3>2. QED
      BY ONLY <3>1
  <2>2. QED
    BY <1>0, <1>1, <1>3, <1>7, <1>10, <2>1 DEF RowsFit
<1>11. CASE /\ d[s] = c[s] + 1 /\ served' = served + 1 /\ histogram' = histogram
            /\ s \notin Admitting /\ Admitting' = Admitting \cup {s} /\ \A u \in Slots : u # s => d[u] = c[u]
  <2>0. PICK g \in [1..N -> Nat] : g[s] = f[s] + 1 /\ \A u \in 1..N : u # s => g[u] = f[u]
    <3>1. [f EXCEPT ![s] = @ + 1] \in [1..N -> Nat]
      BY <1>0, <1>7
    <3>2. QED
      BY <1>0, <1>7, <3>1
  <2>1. PICK w : Sums(w, g, N) /\ \A i \in 0..N : w[i] = IF s <= i THEN t[i] + 1 ELSE t[i]
    <3>1. N \in Nat /\ s \in 1..N /\ Grows(f, g, N, s) /\ Sums(t, f, N)
      BY <1>0, <1>7, <2>0 DEF Grows
    <3>2. PICK w : Sums(w, g, N) /\ GrowsFrom(w, t, N, s)
      BY <1>7, <3>1, SumsGrow
    <3>3. QED
      BY <3>2 DEF GrowsFrom
  <2>2. w[N] = served'
    BY <1>0, <1>7, <1>11, <2>1
  <2>3. scan.at \in {"row", "flight", "started", "slotServed"} => scan.rows <= w[scan.next - 1]
    <3>1. ASSUME scan.at \in {"row", "flight", "started", "slotServed"} PROVE scan.rows <= w[scan.next - 1]
      <4>1. PICK i \in 0..N : i = scan.next - 1
        BY <1>0, <3>1 DEF Scanning
      <4>2. scan.rows \in Nat /\ scan.rows <= t[i] /\ t[i] \in Nat /\ w[i] = IF s <= i THEN t[i] + 1 ELSE t[i]
        BY <1>0, <1>7, <2>1, <3>1, <4>1 DEF Scans
      <4>3. QED
        BY <4>1, <4>2
    <3>2. QED
      BY <3>1
  <2>4. RowsFit(w, g)'
    <3>1. ASSUME NEW u \in Slots PROVE d[u] <= g[u]
      <4>1. /\ c[u] \in Nat /\ f[u] \in Nat /\ c[u] <= f[u]
            /\ \/ d[u] = c[u] + 1 /\ g[u] = f[u] + 1
               \/ d[u] = c[u] /\ g[u] = f[u]
        BY <1>0, <1>4, <1>7, <1>11, <2>0
      <4>2. QED
        BY ONLY <4>1
    <3>2. QED
      BY <1>0, <1>1, <1>3, <2>0, <2>1, <2>2, <2>3, <3>1 DEF RowsFit
  <2>5. Cardinality(Admitting') = Cardinality(Admitting) + 1
    BY <1>9, <1>11, FS_AddElement
  <2>6. h[M] \in Nat
    BY <1>0, <1>8
  <2>7. h[M] + Cardinality(Admitting') = served'
    <3>1. h[M] + Cardinality(Admitting) = served /\ served' = served + 1 /\ Cardinality(Admitting) \in Nat
      BY <1>8, <1>9, <1>11
    <3>2. QED
      BY ONLY <2>5, <2>6, <3>1
  <2>8. WaitsFit(h)'
    BY <1>1, <1>8, <1>11, <2>7 DEF WaitsFit
  <2>9. QED
    BY <2>4, <2>8
<1>12. CASE /\ d[s] = c[s] /\ served' = served /\ \A u \in Slots : u # s => d[u] = c[u]
            /\ \E b \in Buckets : histogram' = [histogram EXCEPT ![b] = @ + 1]
            /\ s \in Admitting /\ Admitting' = Admitting \ {s}
  <2>1. RowsFit(t, f)'
    BY <1>10, <1>12
  <2>2. PICK b \in 1..M : histogram' = [histogram EXCEPT ![b] = @ + 1]
    BY <1>0, <1>12
  <2>3. PICK k : k = histogram'
    OBVIOUS
  <2>4. PICK v \in [1..M -> Nat] : v = histogram
    BY <1>0
  <2>5. PICK w : Sums(w, k, M) /\ \A i \in 0..M : w[i] = IF b <= i THEN h[i] + 1 ELSE h[i]
    <3>1. M \in Nat /\ Grows(v, k, M, b)
      BY <1>0, <2>2, <2>3, <2>4 DEF Grows
    <3>2. Sums(h, v, M)
      BY <1>8, <2>4
    <3>3. PICK w : Sums(w, k, M) /\ GrowsFrom(w, h, M, b)
      BY <3>1, <3>2, SumsGrow
    <3>4. QED
      BY <3>3 DEF GrowsFrom
  <2>6. Cardinality(Admitting') = Cardinality(Admitting) - 1
    BY <1>9, <1>12, FS_RemoveElement
  <2>7. w[M] = h[M] + 1 /\ h[M] \in Nat
    BY <1>0, <1>8, <2>5
  <2>8. w[M] + Cardinality(Admitting') = served'
    <3>1. h[M] + Cardinality(Admitting) = served /\ served' = served /\ Cardinality(Admitting) \in Nat
      BY <1>8, <1>9, <1>12
    <3>2. QED
      BY <2>6, <2>7, <3>1
  <2>9. scan.at = "histogram" => scan.served + w[scan.next - 1] <= scan.total + w[M] + N
    <3>1. ASSUME scan.at = "histogram" PROVE scan.served + w[scan.next - 1] <= scan.total + w[M] + N
      <4>1. PICK i \in 0..M : i = scan.next - 1
        BY <1>0, <3>1 DEF Scanning
      <4>2. scan.served \in Nat /\ scan.total \in Nat /\ scan.served + h[i] <= scan.total + h[M] + N
        BY <1>0, <1>8, <3>1, <4>1 DEF Scans
      <4>3. h[i] \in Nat /\ (w[i] = h[i] + 1 \/ w[i] = h[i])
        BY <1>8, <2>5, <4>1
      <4>4. scan.served + w[i] <= scan.total + w[M] + N
        <5>1. N \in Nat
          BY <1>0
        <5>2. PICK a \in Nat, b1 \in Nat, x \in Nat, y \in Nat :
                a = scan.served /\ b1 = scan.total /\ x = h[i] /\ y = h[M]
          BY <2>7, <4>2, <4>3
        <5>3. a + x <= b1 + y + N
          BY <4>2, <5>2
        <5>4. a + (x + 1) <= b1 + (y + 1) + N /\ a + x <= b1 + (y + 1) + N
          BY <5>1, <5>3
        <5>5. QED
          BY <2>7, <4>3, <5>2, <5>4
      <4>5. QED
        BY <4>1, <4>4
    <3>2. QED
      BY <3>1
  <2>10. WaitsFit(w)'
    BY <1>1, <2>3, <2>5, <2>8, <2>9 DEF WaitsFit
  <2>11. QED
    BY <2>1, <2>10
<1>13. CASE /\ d[s] \in {c[s], 0} /\ served' = served /\ histogram' = histogram /\ Admitting' = Admitting
            /\ \A u \in Slots : u # s => d[u] = c[u]
  <2>1. RowsFit(t, f)'
    BY <1>10, <1>13
  <2>2. WaitsFit(h)'
    BY <1>1, <1>8, <1>13 DEF WaitsFit
  <2>3. QED
    BY <2>1, <2>2
<1>14. QED
  BY <1>1, <1>2, <1>3, <1>11, <1>12, <1>13, CountsMoved

\* A report adds up what is there by the time it is read, or more.
LEMMA SumsRead ==
  ASSUME Inv, Reads
  PROVE  Counts'
<1>0. /\ N \in Nat /\ Slots = 1..N /\ IsFiniteSet(Slots) /\ M \in Nat /\ M > 0 /\ Buckets = 1..M
      /\ served \in Nat /\ histogram \in [Buckets -> Nat] /\ scan \in Scans /\ Scanning
      /\ row \in [Slots -> Nat] /\ Fits
  BY Typed, Numbers DEF Inv, Counts
<1>1. UNCHANGED <<at, row, served, histogram>>
  BY ReadsStep
<1>2. Bumps' = Bumps /\ Admitting' = Admitting
  BY <1>1 DEF Bumps, Admitting
<1>3. PICK t, f : RowsFit(t, f)
  BY DEF Inv, Counts
<1>4. PICK h : WaitsFit(h)
  BY DEF Inv, Counts
<1>5. /\ f \in [Slots -> Nat] /\ (\A s \in Slots : Bumps[s] <= f[s]) /\ Sums(t, f, N) /\ t[N] = served /\ t \in [0..N -> Nat] /\ t[0] = 0
      /\ scan.at \in {"row", "flight", "started", "slotServed"} => scan.rows <= t[scan.next - 1]
  BY <1>3 DEF RowsFit, Sums
<1>6. /\ Sums(h, histogram, M) /\ h[M] + Cardinality(Admitting) = served /\ h \in [0..M -> Nat]
      /\ h[0] = 0
      /\ scan.at = "histogram" => scan.served + h[scan.next - 1] <= scan.total + h[M] + N
  BY <1>4 DEF WaitsFit, Sums
<1>7. /\ scan.rows \in Nat /\ scan.next \in Nat /\ scan.served \in Nat /\ scan.total \in Nat
      /\ h[M] \in Nat
  BY <1>0, <1>6 DEF Scans
<1>8. ASSUME scan'.at \in {"row", "flight", "started", "slotServed"} => scan'.rows <= t[scan'.next - 1]
      PROVE  RowsFit(t, f)'
  BY <1>1, <1>2, <1>5, <1>8 DEF RowsFit
<1>9. ASSUME scan'.at = "histogram" => scan'.served + h[scan'.next - 1] <= scan'.total + h[M] + N
      PROVE  WaitsFit(h)'
  BY <1>1, <1>2, <1>6, <1>9 DEF WaitsFit
<1>10. ASSUME NEW reader, Begun(reader) PROVE Counts'
  <2>1. scan'.at = "row" /\ scan'.rows = 0 /\ scan'.next = 1
    BY <1>10 DEF Begun
  <2>2. scan'.rows <= t[scan'.next - 1]
    BY <1>5, <2>1
  <2>3. QED
    BY <1>8, <1>9, <2>1, <2>2 DEF Counts, Fits
<1>11. CASE Noted \/ Looked \/ Stamped
  <2>1. /\ scan.at \in {"row", "flight", "started"} /\ scan'.at \in {"flight", "started", "slotServed"}
        /\ scan'.next = scan.next /\ scan'.rows = scan.rows
    BY <1>11 DEF Noted, Looked, Stamped
  <2>2. QED
    BY <1>5, <1>8, <1>9, <2>1 DEF Counts, Fits
<1>12. CASE Summed
  <2>1. PICK n \in 1..N : n = scan.next
    BY <1>0, <1>12 DEF Summed, Scanning
  <2>2. scan.rows <= t[n - 1] /\ t[n] = t[n - 1] + f[n] /\ t[n] \in Nat /\ t[n - 1] \in Nat
    <3>1. scan.at = "slotServed"
      BY <1>12 DEF Summed
    <3>2. n \in 0..N /\ n - 1 \in 0..N
      BY <1>0
    <3>3. t[n] = t[n - 1] + f[n]
      BY <1>5 DEF Sums
    <3>4. QED
      BY <1>5, <2>1, <3>1, <3>2, <3>3
  <2>3. row[n] \in Nat /\ f[n] \in Nat /\ row[n] <= f[n]
    <3>1. row[n] \in Nat /\ Bumps[n] \in Nat /\ row[n] <= Bumps[n]
      BY <1>0 DEF Bumps
    <3>2. f[n] \in Nat /\ Bumps[n] <= f[n]
      BY <1>0, <1>5
    <3>3. QED
      BY <3>1, <3>2
  <2>4. PICK x \in Nat : x = scan.rows
    BY <1>7
  <2>5. x + row[n] <= t[n]
    <3>1. x <= t[n - 1]
      BY <2>2, <2>4
    <3>2. QED
      BY <2>2, <2>3, <3>1
  <2>6. scan'.rows = x + row[n] /\ scan'.next = n + 1 /\ scan'.at = "row"
    BY <1>12, <2>1, <2>4 DEF Summed
  <2>7. scan'.next - 1 = n
    BY <2>6
  <2>8. scan'.rows <= t[scan'.next - 1]
    BY <2>5, <2>6, <2>7
  <2>9. QED
    BY <1>8, <1>9, <2>6, <2>8 DEF Counts, Fits
<1>13. CASE Totalled
  <2>1. scan.next = N + 1 /\ scan.total = 0 /\ scan.at = "row"
    <3>1. scan.next \in 1..(N + 1) /\ scan.next \notin 1..N /\ scan.total = 0 /\ scan.at = "row"
      BY <1>0, <1>13 DEF Totalled, Scanning
    <3>2. QED
      BY <1>0, <3>1
  <2>2. scan.rows <= served
    <3>1. scan.rows <= t[scan.next - 1] /\ scan.next - 1 = N
      BY <1>0, <1>5, <2>1
    <3>2. QED
      BY <1>5, <3>1
  <2>3. served <= h[M] + N
    <3>1. Admitting \in SUBSET Slots
      BY DEF Admitting
    <3>2. Cardinality(Admitting) <= N /\ Cardinality(Admitting) \in Nat
      BY <1>0, <3>1, FS_Subset, FS_CardinalityType DEF N
    <3>3. QED
      BY <1>0, <1>6, <1>7, <3>2
  <2>4. /\ scan'.by = scan.by /\ scan'.at = (IF scan.by = "monitor" THEN "ready" ELSE "histogram")
        /\ scan'.next = 1 /\ scan'.rows = scan.rows /\ scan'.total = 0
        /\ scan.by # "monitor" => scan'.served = served
    BY <1>13, <2>1 DEF Totalled, Kept
  <2>5. RowsFit(t, f)'
    BY <1>8, <2>4
  <2>6. WaitsFit(h)'
    <3>1. served + 0 <= 0 + h[M] + N
      BY <1>0, <1>7, <2>3
    <3>2. scan'.at = "histogram" => scan'.served + h[scan'.next - 1] <= scan'.total + h[M] + N
      BY <1>6, <2>4, <3>1
    <3>3. QED
      BY <1>9, <3>2
  <2>7. Fits'
    BY <2>2, <2>4 DEF Fits
  <2>8. QED
    BY <2>5, <2>6, <2>7 DEF Counts
<1>14. CASE Tallied
  <2>1. PICK n \in 1..M : n = scan.next
    BY <1>0, <1>14 DEF Tallied, Scanning
  <2>2. scan.at = "histogram" /\ scan.by # "monitor" /\ scan.rows <= scan.served
    BY <1>0, <1>14 DEF Tallied, Scanning, Fits
  <2>3. PICK a \in Nat, c \in Nat : a = scan.served /\ c = scan.total
    BY <1>7
  <2>4. /\ h[n] = h[n - 1] + histogram[n] /\ h[n] \in Nat /\ h[n - 1] \in Nat /\ histogram[n] \in Nat
        /\ h[M] \in Nat
    <3>1. n \in 0..M /\ n - 1 \in 0..M /\ M \in 0..M
      BY <1>0
    <3>2. h[n] = h[n - 1] + histogram[n]
      BY <1>6 DEF Sums
    <3>3. QED
      BY <1>0, <1>6, <3>1, <3>2
  <2>5. a + h[n - 1] <= c + h[M] + N
    BY <1>6, <2>1, <2>2, <2>3
  <2>6. a + h[n] <= (c + histogram[n]) + h[M] + N
    <3>1. N \in Nat
      BY <1>0
    <3>2. QED
      BY <2>4, <2>5, <3>1
  <2>7. /\ scan'.by = scan.by /\ scan'.at = (IF n = M THEN "ready" ELSE "histogram")
        /\ scan'.next = n + 1 /\ scan'.rows = scan.rows
        /\ scan'.total = c + histogram[n] /\ scan'.served = a
    BY <1>14, <2>1, <2>3 DEF Tallied, Kept
  <2>8. RowsFit(t, f)'
    BY <1>8, <2>7
  <2>9. WaitsFit(h)'
    <3>1. scan'.next - 1 = n
      BY <2>7
    <3>2. QED
      BY <1>9, <2>6, <2>7, <3>1
  <2>10. n = M => a <= (c + histogram[n]) + N
    BY <1>0, <2>4, <2>6
  <2>11. Fits'
    BY <2>2, <2>3, <2>7, <2>10 DEF Fits
  <2>12. QED
    BY <2>8, <2>9, <2>11 DEF Counts
<1>15. CASE Ended
  BY <1>8, <1>9, <1>15 DEF Ended, Counts, Fits
<1>16. QED
  BY <1>10, <1>11, <1>12, <1>13, <1>14, <1>15, ScanSteps

\* The sums fit after every step.
LEMMA CountsStep ==
  ASSUME Inv, [Next]_vars
  PROVE  Counts'
<1>1. CASE Outside
  <2>1. UNCHANGED <<at, served, row, histogram, scan>>
    BY <1>1, OutsideStep
  <2>2. Bumps' = Bumps /\ Admitting' = Admitting
    BY <2>1 DEF Bumps, Admitting
  <2>3. (\A t, f : RowsFit(t, f) => RowsFit(t, f)') /\ (\A t : WaitsFit(t) => WaitsFit(t)') /\ (Fits => Fits')
    BY <2>1, <2>2 DEF RowsFit, WaitsFit, Fits
  <2>4. QED
    BY <2>3 DEF Inv, Counts
<1>2. ASSUME NEW s \in Slots, Works(s) PROVE Counts'
  <2>1. Fits'
    BY <1>2, SlotStep DEF Worked, Inv, Counts, Fits
  <2>2. QED
    BY <1>2, <2>1, SumsKept DEF Counts
<1>3. QED
  BY <1>1, <1>2, SumsRead, NextCases DEF Outside

-----------------------------------------------------------------------------
(* Types                                                                   *)

\* A worker's batch grows by what it takes from the queue, and is let go whole.
LEMMA BatchStep ==
  ASSUME Inv, NEW s \in Slots, Worked(s)
  PROVE  /\ hand'[s] \in Seq(Requests) /\ Len(hand'[s]) <= Batch
         /\ waiting' \subseteq waiting /\ InBatch(s)' \subseteq InBatch(s) \cup waiting
         /\ InBatch(s)' \cap waiting' = {}
         /\ \A u \in Slots : u # s => InBatch(u)' = InBatch(u)
<1>0. /\ hand[s] \in Seq(Requests) /\ waiting \subseteq Requests /\ Batch \in Nat \ {0}
      /\ Len(hand[s]) \in Nat /\ Len(hand[s]) <= Batch /\ InBatch(s) \cap waiting = {}
  BY Typed DEF Inv, Shape, TypeOK
<1>1. Moved(s) /\ \A u \in Slots : u # s => Same(u)
  BY DEF Worked
<1>2. \A u \in Slots : u # s => InBatch(u)' = InBatch(u)
  BY <1>1 DEF InBatch, Same
<1>3. ASSUME NEW r \in waiting, hand'[s] = <<r>>, waiting' = waiting \ {r}
      PROVE  /\ hand'[s] \in Seq(Requests) /\ Len(hand'[s]) <= Batch
             /\ waiting' \subseteq waiting /\ InBatch(s)' \subseteq InBatch(s) \cup waiting
             /\ InBatch(s)' \cap waiting' = {}
  <2>1. InBatch(s)' = {r}
    BY <1>3 DEF InBatch
  <2>2. r \in Requests /\ <<r>> \in Seq(Requests) /\ Len(<<r>>) = 1
    BY <1>0
  <2>3. QED
    BY <1>0, <1>3, <2>1, <2>2
<1>4. ASSUME NEW r \in waiting, hand'[s] = Append(hand[s], r), waiting' = waiting \ {r},
             Len(hand[s]) < Batch
      PROVE  /\ hand'[s] \in Seq(Requests) /\ Len(hand'[s]) <= Batch
             /\ waiting' \subseteq waiting /\ InBatch(s)' \subseteq InBatch(s) \cup waiting
             /\ InBatch(s)' \cap waiting' = {}
  <2>1. r \in Requests
    BY <1>0
  <2>2. /\ Append(hand[s], r) \in Seq(Requests) /\ Len(Append(hand[s], r)) = Len(hand[s]) + 1
        /\ \A i \in 1..Len(hand[s]) : Append(hand[s], r)[i] = hand[s][i]
    BY <1>0, <2>1, AppendProperties
  <2>3. Append(hand[s], r)[Len(hand[s]) + 1] = r
    BY <1>0, <2>1, AppendProperties
  <2>4. DOMAIN hand[s] = 1..Len(hand[s]) /\ DOMAIN hand'[s] = 1..(Len(hand[s]) + 1)
    BY <1>0, <1>4, <2>2, LenProperties
  <2>5. InBatch(s)' \subseteq InBatch(s) \cup {r}
    <3>1. ASSUME NEW x \in InBatch(s)' PROVE x \in InBatch(s) \cup {r}
      <4>1. PICK i \in 1..(Len(hand[s]) + 1) : x = Append(hand[s], r)[i]
        BY <1>4, <2>4, <3>1 DEF InBatch
      <4>2. i \in 1..Len(hand[s]) \/ i = Len(hand[s]) + 1
        BY <1>0
      <4>3. QED
        BY <2>2, <2>3, <2>4, <4>1, <4>2 DEF InBatch
    <3>2. QED
      BY <3>1
  <2>6. Len(hand'[s]) <= Batch
    BY <1>0, <1>4, <2>2
  <2>7. QED
    BY <1>0, <1>4, <2>2, <2>5, <2>6
<1>5. ASSUME hand'[s] = hand[s], waiting' = waiting
      PROVE  /\ hand'[s] \in Seq(Requests) /\ Len(hand'[s]) <= Batch
             /\ waiting' \subseteq waiting /\ InBatch(s)' \subseteq InBatch(s) \cup waiting
             /\ InBatch(s)' \cap waiting' = {}
  BY <1>0, <1>5 DEF InBatch
<1>6. ASSUME hand'[s] = <<>>, waiting' = waiting
      PROVE  /\ hand'[s] \in Seq(Requests) /\ Len(hand'[s]) <= Batch
             /\ waiting' \subseteq waiting /\ InBatch(s)' \subseteq InBatch(s) \cup waiting
             /\ InBatch(s)' \cap waiting' = {}
  <2>1. InBatch(s)' = {}
    BY <1>6 DEF InBatch
  <2>2. QED
    BY <1>0, <1>6, <2>1
<1>7. \/ \E r \in waiting : hand'[s] = <<r>> /\ waiting' = waiting \ {r}
      \/ /\ Len(hand[s]) < Batch
         /\ \E r \in waiting : hand'[s] = Append(hand[s], r) /\ waiting' = waiting \ {r}
      \/ hand'[s] = hand[s] /\ waiting' = waiting
      \/ hand'[s] = <<>> /\ waiting' = waiting
  BY <1>1 DEF Moved
<1>8. QED
  BY <1>2, <1>3, <1>4, <1>5, <1>6, <1>7

\* The handlers' side: who is new, and who is queued.
LEMMA FrontStep ==
  ASSUME Inv, Outside
  PROVE  /\ front' \in [Requests -> {"new", "open", "answered", "refused", "done"}]
         /\ enqueued' \in [Requests -> 0 .. config.ticks]
         /\ \A r \in Requests : front'[r] = "new" => front[r] = "new"
         /\ waiting' \subseteq waiting \cup {r \in Requests : front[r] = "new" /\ front'[r] # "new"}
<1>0. /\ front \in [Requests -> {"new", "open", "answered", "refused", "done"}]
      /\ enqueued \in [Requests -> 0 .. config.ticks] /\ clock \in 0 .. config.ticks
      /\ waiting \subseteq Requests
  BY DEF Inv, Shape, TypeOK
<1>1. ASSUME NEW r \in Requests, NEW a \in {"open", "answered", "refused", "done"}, front' = [front EXCEPT ![r] = a],
             enqueued' \in {enqueued, [enqueued EXCEPT ![r] = clock]},
             waiting' = waiting \/ (front[r] = "new" /\ waiting' = waiting \cup {r})
      PROVE  /\ front' \in [Requests -> {"new", "open", "answered", "refused", "done"}]
             /\ enqueued' \in [Requests -> 0 .. config.ticks]
             /\ \A q \in Requests : front'[q] = "new" => front[q] = "new"
             /\ waiting' \subseteq waiting \cup {q \in Requests : front[q] = "new" /\ front'[q] # "new"}
  BY <1>0, <1>1
<1>2. CASE Handles
  <2>1. PICK r \in Requests : \/ Arrive(r) \/ Refuse(r) \/ Complete(r) \/ RequestTimeout(r) \/ Abort(r)
                              \/ \E s \in Slots : AppAnswers(s, r) \/ AbortAnswers(s, r)
    BY <1>2 DEF Handles
  <2>2. \E a \in {"open", "answered", "refused", "done"} :
          /\ front' = [front EXCEPT ![r] = a]
          /\ enqueued' \in {enqueued, [enqueued EXCEPT ![r] = clock]}
          /\ waiting' = waiting \/ (front[r] = "new" /\ waiting' = waiting \cup {r})
    BY <2>1 DEF Arrive, Refuse, Complete, RequestTimeout, Abort, AppAnswers, AbortAnswers
  <2>3. QED
    BY <1>1, <2>2
<1>3. CASE RuntimeDown
  BY <1>0, <1>3 DEF RuntimeDown
<1>4. CASE UNCHANGED <<front, enqueued, waiting>>
  BY <1>0, <1>4
<1>5. CASE \/ Tick \/ Flush \/ AcceptFails \/ BackoffEnds \/ Drain \/ CloseQueue \/ ControlStop \/ Connects
           \/ UNCHANGED vars
  BY <1>4, <1>5 DEF Tick, Flush, AcceptFails, BackoffEnds, Drain, CloseQueue, ControlStop, Connects, Connect, Accept,
                    Ask, Replied, Deadline, Unaffected, vars, frontVars
<1>6. QED
  BY <1>2, <1>3, <1>5 DEF Outside

\* Whatever is queued or in a batch has had a handler.
LEMMA KnownStep ==
  ASSUME Inv, [Next]_vars
  PROVE  Known'
<1>0. Known /\ waiting \subseteq Requests
  BY DEF Inv, Shape, TypeOK
<1>1. CASE Outside
  <2>1. UNCHANGED hand
    BY <1>1, OutsideStep
  <2>2. \A s \in Slots : InBatch(s)' = InBatch(s)
    BY <2>1 DEF InBatch
  <2>3. QED
    BY <1>0, <1>1, <2>2, FrontStep DEF Known
<1>2. CASE Reads
  BY <1>0, <1>2, ReadsStep DEF Known, InBatch
<1>3. ASSUME NEW s \in Slots, Works(s) PROVE Known'
  <2>1. Worked(s)
    BY <1>3, SlotStep
  <2>2. UNCHANGED front
    BY <2>1 DEF Worked
  <2>3. /\ waiting' \subseteq waiting /\ InBatch(s)' \subseteq InBatch(s) \cup waiting
        /\ \A u \in Slots : u # s => InBatch(u)' = InBatch(u)
    BY <2>1, BatchStep
  <2>4. QED
    BY <1>0, <2>2, <2>3 DEF Known
<1>4. QED
  BY <1>1, <1>2, <1>3, NextCases DEF Outside

\* The sink holds lines, and no more than its depth.
LEMMA SinkStep ==
  ASSUME Inv, [Next]_vars
  PROVE  lines' \in Seq(Lines) /\ Len(lines') <= SinkDepth /\ flusher' \in {"recv", "drain", "gone", "off"}
<1>0. /\ lines \in Seq(Lines) /\ Len(lines) <= SinkDepth /\ SinkDepth \in Nat /\ Len(lines) \in Nat
      /\ flusher \in {"recv", "drain", "gone", "off"}
  BY TelemetryAssumption, LenProperties DEF Inv, Shape, TypeOK
<1>1. CASE UNCHANGED <<lines, flusher>>
  BY <1>0, <1>1
<1>2. CASE Flush
  <2>1. CASE lines # <<>> /\ lines' = Tail(lines) /\ flusher' = "drain"
    <3>1. Tail(lines) \in Seq(Lines) /\ Len(Tail(lines)) = Len(lines) - 1
      BY <1>0, <2>1, HeadTailProperties
    <3>2. QED
      BY <1>0, <2>1, <3>1
  <2>2. CASE lines' = lines /\ flusher' \in {"recv", "gone"}
    BY <1>0, <2>2
  <2>3. QED
    BY <1>2, <2>1, <2>2 DEF Flush, FlushRecv, FlushDrain
<1>3. ASSUME NEW x \in Lines, WriteLine(x) PROVE lines' \in Seq(Lines) /\ Len(lines') <= SinkDepth /\ flusher' = flusher
  <2>1. Append(lines, x) \in Seq(Lines) /\ Len(Append(lines, x)) = Len(lines) + 1
    BY <1>0, AppendProperties
  <2>2. QED
    BY <1>0, <1>3, <2>1 DEF WriteLine
<1>4. CASE Handles
  <2>1. PICK r \in Requests : \/ Arrive(r) \/ Refuse(r) \/ Complete(r) \/ RequestTimeout(r) \/ Abort(r)
                              \/ \E s \in Slots : AppAnswers(s, r) \/ AbortAnswers(s, r)
    BY <1>4 DEF Handles
  <2>2. Arrow(r) \in Lines /\ Answer(r) \in Lines
    BY DEF Arrow, Answer, Lines
  <2>3. CASE Arrive(r) \/ Refuse(r)
    BY <1>0, <1>3, <2>2, <2>3 DEF Arrive, Refuse
  <2>4. CASE Complete(r) \/ RequestTimeout(r)
    BY <1>0, <1>3, <2>2, <2>4 DEF Complete, RequestTimeout
  <2>5. CASE Abort(r) \/ \E s \in Slots : AppAnswers(s, r) \/ AbortAnswers(s, r)
    BY <1>1, <2>5 DEF Abort, AppAnswers, AbortAnswers, logVars
  <2>6. QED
    BY <2>1, <2>3, <2>4, <2>5
<1>5. CASE Reads
  BY <1>1, <1>5, ReadsStep
<1>6. ASSUME NEW s \in Slots, Works(s) PROVE UNCHANGED <<lines, flusher>>
  BY <1>6, SlotStep DEF Worked, logVars
<1>7. CASE Tick \/ AcceptFails \/ BackoffEnds \/ Drain \/ CloseQueue \/ RuntimeDown \/ ControlStop \/ Connects \/ UNCHANGED vars
  BY <1>1, <1>7 DEF Tick, AcceptFails, BackoffEnds, Drain, CloseQueue, RuntimeDown, ControlStop, Connects, Connect,
                    Accept, Ask, Replied, Deadline, Unaffected, vars, logVars
<1>8. QED
  BY <1>1, <1>2, <1>4, <1>5, <1>6, <1>7, NextCases

\* The control plane's connections stay within the cap.
LEMMA ProbeStep ==
  ASSUME Inv, [Next]_vars
  PROVE  /\ probe' \in [Probes -> {"new", "backlog", "open", "asked", "replying", "closed"}]
         /\ Cardinality(Accepted') <= ControlCap
         /\ control' \in {"serving", "backoff", "off"} /\ main' \in {"up", "draining", "closed", "stopping", "down"}
<1>0. /\ probe \in [Probes -> {"new", "backlog", "open", "asked", "replying", "closed"}]
      /\ Cardinality(Accepted) <= ControlCap /\ ControlCap \in Nat
      /\ control \in {"serving", "backoff", "off"} /\ main \in {"up", "draining", "closed", "stopping", "down"}
  BY TelemetryAssumption DEF Inv, Shape, TypeOK
<1>1. Accepted \subseteq Probes /\ IsFiniteSet(Accepted) /\ Cardinality(Accepted) \in Nat
  <2>1. Accepted \in SUBSET Probes
    BY DEF Accepted
  <2>2. QED
    BY <2>1, TelemetryAssumption, FS_Subset, FS_CardinalityType
<1>2. ASSUME Accepted' \subseteq Accepted PROVE Cardinality(Accepted') <= ControlCap
  <2>1. Cardinality(Accepted') <= Cardinality(Accepted) /\ Cardinality(Accepted') \in Nat
    <3>1. PICK A : A = Accepted'
      OBVIOUS
    <3>2. A \in SUBSET Accepted
      BY <1>2, <3>1
    <3>3. IsFiniteSet(A) /\ Cardinality(A) <= Cardinality(Accepted)
      BY <1>1, <3>2, FS_Subset
    <3>4. QED
      BY <3>1, <3>3, FS_CardinalityType
  <2>2. QED
    BY <1>0, <1>1, <2>1
<1>3. control' \in {"serving", "backoff", "off"} /\ main' \in {"up", "draining", "closed", "stopping", "down"}
  <2>1. CASE Reads
    BY <1>0, <2>1, ReadsStep
  <2>2. ASSUME NEW s \in Slots, Works(s) PROVE UNCHANGED <<control, main>>
    BY <2>2, SlotStep DEF Worked, ctlVars
  <2>3. CASE Outside
    BY <1>0, <2>3 DEF Outside, Tick, Flush, AcceptFails, BackoffEnds, Drain, CloseQueue, RuntimeDown, ControlStop, Handles,
         Connects, Arrive, Refuse, Complete, RequestTimeout, Abort, AppAnswers, AbortAnswers, Connect, Accept, Ask, Replied, Deadline,
         Unaffected, vars, ctlVars
  <2>4. QED
    BY <1>0, <2>1, <2>2, <2>3, NextCases DEF Outside
<1>4. CASE UNCHANGED probe
  <2>1. Accepted' = Accepted
    BY <1>4 DEF Accepted
  <2>2. QED
    BY <1>0, <1>2, <1>3, <1>4, <2>1
<1>5. ASSUME NEW p \in Probes, NEW a \in {"new", "backlog", "open", "asked", "replying", "closed"}, ProbeGoes(p, a),
             a \in {"open", "asked", "replying"} => p \in Accepted \/ Cardinality(Accepted) < ControlCap
      PROVE  /\ probe' \in [Probes -> {"new", "backlog", "open", "asked", "replying", "closed"}]
             /\ Cardinality(Accepted') <= ControlCap
  <2>1. probe' \in [Probes -> {"new", "backlog", "open", "asked", "replying", "closed"}]
    BY <1>0, <1>5 DEF ProbeGoes
  <2>2. /\ Accepted' \subseteq Accepted \cup {p} /\ (a \notin {"open", "asked", "replying"} => p \notin Accepted')
        /\ (a \in {"open", "asked", "replying"} => Accepted' = Accepted \cup {p})
    BY <1>0, <1>5 DEF ProbeGoes, Accepted
  <2>3. CASE a \notin {"open", "asked", "replying"} \/ p \in Accepted
    <3>1. Accepted' \subseteq Accepted
      BY <2>2, <2>3
    <3>2. QED
      BY <1>2, <2>1, <3>1
  <2>4. CASE a \in {"open", "asked", "replying"} /\ p \notin Accepted
    <3>1. Cardinality(Accepted \cup {p}) = Cardinality(Accepted) + 1
      BY <1>1, <2>4, FS_AddElement
    <3>2. Cardinality(Accepted) < ControlCap /\ Accepted' = Accepted \cup {p}
      BY <1>5, <2>2, <2>4
    <3>3. Cardinality(Accepted') = Cardinality(Accepted) + 1
      BY <3>1, <3>2
    <3>4. Cardinality(Accepted') <= ControlCap
      BY <1>0, <1>1, <3>2, <3>3
    <3>5. QED
      BY <2>1, <3>4
  <2>5. QED
    BY <2>3, <2>4
<1>6. CASE Connects
  <2>1. PICK p \in Probes : Connect(p) \/ Accept(p) \/ Ask(p) \/ Replied(p) \/ Deadline(p)
    BY <1>6 DEF Connects
  <2>2. CASE Connect(p) \/ Replied(p) \/ Deadline(p)
    BY <1>3, <1>5, <2>2 DEF Connect, Replied, Deadline
  <2>3. CASE Accept(p)
    BY <1>3, <1>5, <2>3 DEF Accept
  <2>4. CASE Ask(p)
    <3>1. p \in Accepted /\ ProbeGoes(p, "asked")
      BY <2>4 DEF Ask, Accepted
    <3>2. QED
      BY <1>3, <1>5, <3>1
  <2>5. QED
    BY <2>1, <2>2, <2>3, <2>4
<1>7. CASE Reads
  <2>1. ASSUME NEW p \in Probes, ProbeGoes(p, "replying"), probe[p] = "asked"
        PROVE  /\ probe' \in [Probes -> {"new", "backlog", "open", "asked", "replying", "closed"}]
               /\ Cardinality(Accepted') <= ControlCap
    <3>1. p \in Accepted
      BY <2>1 DEF Accepted
    <3>2. QED
      BY <1>5, <2>1, <3>1
  <2>2. QED
    BY <1>3, <1>4, <1>7, <2>1, ReadsStep
<1>8. CASE ControlStop
  <2>1. probe' = [p \in Probes |-> IF probe[p] = "new" THEN "new" ELSE "closed"]
    BY <1>8 DEF ControlStop
  <2>2. probe' \in [Probes -> {"new", "backlog", "open", "asked", "replying", "closed"}]
    BY <2>1
  <2>3. Accepted' \subseteq Accepted
    BY <2>1 DEF Accepted
  <2>4. QED
    BY <1>2, <1>3, <2>2, <2>3
<1>9. ASSUME NEW s \in Slots, Works(s) PROVE UNCHANGED probe
  BY <1>9, SlotStep DEF Worked, ctlVars
<1>10. CASE Tick \/ Flush \/ AcceptFails \/ BackoffEnds \/ Drain \/ CloseQueue \/ RuntimeDown \/ Handles \/ UNCHANGED vars
  BY <1>4, <1>10 DEF Tick, Flush, AcceptFails, BackoffEnds, Drain, CloseQueue, RuntimeDown, Handles, Arrive, Refuse, Complete,
                     RequestTimeout, Abort, AppAnswers, AbortAnswers, vars, ctlVars
<1>11. QED
  BY <1>4, <1>6, <1>7, <1>8, <1>9, <1>10, NextCases

\* A worker's step keeps the types of slots and sensors.
LEMMA WorkTypes ==
  ASSUME Inv, [Next]_vars, NEW s \in Slots, Works(s)
  PROVE  /\ at' \in [Slots -> Places] /\ hand' \in [Slots -> Seq(Requests)] /\ stint' \in [Slots -> Nat]
         /\ row' \in [Slots -> Nat] /\ inFlight' \in [Slots -> 0..Batch]
         /\ started' \in [Slots -> 0 .. config.ticks]
         /\ served' \in Nat /\ histogram' \in [Buckets -> Nat]
         /\ \A u \in Slots : Len(hand'[u]) <= Batch /\ InBatch(u)' \subseteq Requests \ waiting'
<1>0. /\ at \in [Slots -> Places] /\ hand \in [Slots -> Seq(Requests)] /\ stint \in [Slots -> Nat]
      /\ row \in [Slots -> Nat] /\ inFlight \in [Slots -> 0..Batch] /\ Batch \in Nat \ {0}
      /\ started \in [Slots -> 0 .. config.ticks] /\ clock \in 0 .. config.ticks /\ clock \in Nat
      /\ served \in Nat /\ histogram \in [Buckets -> Nat] /\ waiting \subseteq Requests
      /\ \A u \in Slots : Len(hand[u]) <= Batch /\ InBatch(u) \subseteq Requests \ waiting
  BY Typed DEF Inv, Shape, TypeOK
<1>1. /\ Moved(s) /\ (\A u \in Slots : u # s => Same(u))
      /\ Table(at') /\ Table(hand') /\ Table(stint') /\ Table(row') /\ Table(started') /\ Table(inFlight')
  BY SlotStep DEF Worked
<1>2. /\ hand'[s] \in Seq(Requests) /\ Len(hand'[s]) <= Batch
      /\ waiting' \subseteq waiting /\ InBatch(s)' \subseteq InBatch(s) \cup waiting
      /\ InBatch(s)' \cap waiting' = {}
      /\ \A u \in Slots : u # s => InBatch(u)' = InBatch(u)
  BY SlotStep, BatchStep
<1>3. at'[s] \in Places
  BY <1>0, <1>1 DEF Moved, From, Places
<1>4. stint'[s] \in Nat /\ row'[s] \in Nat /\ started'[s] \in 0 .. config.ticks
  <2>1. /\ stint'[s] \in {stint[s], clock, 0} /\ row'[s] \in {row[s], row[s] + 1, 0}
        /\ started'[s] \in {started[s], clock, 0}
    BY <1>1 DEF Moved, From
  <2>2. row[s] \in Nat /\ stint[s] \in Nat /\ started[s] \in 0 .. config.ticks /\ config.ticks \in Nat
    BY <1>0, Typed
  <2>3. stint'[s] \in Nat /\ row'[s] \in Nat
    BY <1>0, <2>1, <2>2
  <2>4. started'[s] \in 0 .. config.ticks
    BY <1>0, <2>1, <2>2
  <2>5. QED
    BY <2>3, <2>4
<1>5. inFlight'[s] \in 0..Batch
  <2>1. inFlight[s] \in 0..Batch /\ inFlight'[s] \in {inFlight[s], inFlight[s] + 1, 0}
    BY <1>0, <1>1 DEF Moved
  <2>2. CASE inFlight'[s] \in {inFlight[s], 0}
    BY <1>0, <2>1, <2>2
  <2>3. CASE inFlight'[s] \notin {inFlight[s], 0}
    <3>1. at'[s] = "record" /\ inFlight'[s] = inFlight[s] + 1
      BY <1>1, <2>3 DEF Moved, From
    <3>2. inFlight'[s] <= Len(hand'[s])
      BY <3>1, BatchesStep DEF Batches, Idle
    <3>3. QED
      BY <1>0, <1>2, <2>1, <3>1, <3>2
  <2>4. QED
    BY <2>2, <2>3
<1>6. served' \in Nat /\ histogram' \in [Buckets -> Nat]
  <2>1. /\ served' \in {served, served + 1}
        /\ histogram' = histogram \/ \E b \in Buckets : histogram' = [histogram EXCEPT ![b] = @ + 1]
    BY <1>1 DEF Moved
  <2>2. QED
    BY <1>0, <2>1
<1>7. \A u \in Slots : at'[u] \in Places /\ hand'[u] \in Seq(Requests) /\ stint'[u] \in Nat
  BY <1>0, <1>1, <1>2, <1>3, <1>4 DEF Same
<1>8. \A u \in Slots : row'[u] \in Nat /\ inFlight'[u] \in 0..Batch /\ started'[u] \in 0 .. config.ticks
  BY <1>0, <1>1, <1>4, <1>5 DEF Same
<1>9. at' \in [Slots -> Places] /\ hand' \in [Slots -> Seq(Requests)] /\ stint' \in [Slots -> Nat]
  BY <1>1, <1>7 DEF Table
<1>10. row' \in [Slots -> Nat] /\ inFlight' \in [Slots -> 0..Batch] /\ started' \in [Slots -> 0 .. config.ticks]
  BY <1>1, <1>8 DEF Table
<1>11. ASSUME NEW u \in Slots PROVE Len(hand'[u]) <= Batch /\ InBatch(u)' \subseteq Requests \ waiting'
  <2>1. CASE u = s
    BY <1>0, <1>2, <2>1
  <2>2. CASE u # s
    <3>1. hand'[u] = hand[u]
      BY <1>1, <2>2 DEF Same
    <3>2. QED
      BY <1>0, <1>2, <2>2, <3>1
  <2>3. QED
    BY <2>1, <2>2
<1>12. QED
  BY <1>6, <1>9, <1>10, <1>11

\* Every step keeps the types.
LEMMA ShapeStep ==
  ASSUME Inv, [Next]_vars
  PROVE  Shape'
<1>0. Shape /\ config \in Configs /\ config.ticks \in Nat /\ clock \in 0 .. config.ticks
  BY Typed DEF Inv, Shape, TypeOK
<1>1. /\ lines' \in Seq(Lines) /\ Len(lines') <= SinkDepth /\ flusher' \in {"recv", "drain", "gone", "off"}
      /\ probe' \in [Probes -> {"new", "backlog", "open", "asked", "replying", "closed"}]
      /\ Cardinality(Accepted') <= ControlCap
      /\ control' \in {"serving", "backoff", "off"} /\ main' \in {"up", "draining", "closed", "stopping", "down"}
  BY SinkStep, ProbeStep
<1>2. ASSUME config' = config, clock' \in 0 .. config.ticks,
             front' \in [Requests -> {"new", "open", "answered", "refused", "done"}],
             enqueued' \in [Requests -> 0 .. config.ticks], waiting' \subseteq Requests,
             at' \in [Slots -> Places], hand' \in [Slots -> Seq(Requests)], stint' \in [Slots -> Nat],
             row' \in [Slots -> Nat], inFlight' \in [Slots -> 0..Batch],
             started' \in [Slots -> 0 .. config.ticks],
             served' \in Nat, histogram' \in [Buckets -> Nat],
             \A u \in Slots : Len(hand'[u]) <= Batch /\ InBatch(u)' \subseteq Requests \ waiting',
             quarantined' \subseteq Slots, torn' \subseteq Slots, scan' \in Scans
      PROVE  Shape'
  BY <1>0, <1>1, <1>2 DEF Shape, TypeOK, Places
<1>3. ASSUME NEW s \in Slots, Works(s) PROVE Shape'
  <2>1. /\ UNCHANGED <<config, clock, front, enqueued, quarantined, scan>> /\ waiting' \subseteq waiting
        /\ torn' \subseteq torn \cup {s}
    BY <1>3, SlotStep, BatchStep DEF Worked
  <2>2. /\ front' \in [Requests -> {"new", "open", "answered", "refused", "done"}]
        /\ enqueued' \in [Requests -> 0 .. config.ticks] /\ waiting' \subseteq Requests
        /\ quarantined' \subseteq Slots /\ torn' \subseteq Slots /\ scan' \in Scans
    BY <1>0, <2>1 DEF Shape, TypeOK
  <2>3. /\ at' \in [Slots -> Places] /\ hand' \in [Slots -> Seq(Requests)] /\ stint' \in [Slots -> Nat]
        /\ row' \in [Slots -> Nat] /\ inFlight' \in [Slots -> 0..Batch]
        /\ started' \in [Slots -> 0 .. config.ticks]
        /\ served' \in Nat /\ histogram' \in [Buckets -> Nat]
        /\ \A u \in Slots : Len(hand'[u]) <= Batch /\ InBatch(u)' \subseteq Requests \ waiting'
    BY <1>3, WorkTypes
  <2>4. QED
    BY <1>0, <1>2, <2>1, <2>2, <2>3
<1>4. CASE Reads
  <2>1. /\ UNCHANGED <<config, clock, front, enqueued, waiting, at, hand, stint, served, row, started,
                       inFlight, histogram>>
        /\ scan' \in Scans
    BY <1>4, ReadsStep, ScanSteps
  <2>2. quarantined' \subseteq Slots /\ torn' \subseteq Slots
    <3>1. quarantined' \subseteq Slots
      BY <1>0, <1>4 DEF Shape, TypeOK, Reads, MonitorScan, MonitorActs, Scan, Handle, Respond, Unaffected
    <3>2. QED
      BY <1>0, <1>4, <3>1, ReadsStep DEF Shape, TypeOK
  <2>3. \A u \in Slots : InBatch(u)' = InBatch(u)
    BY <2>1 DEF InBatch
  <2>4. QED
    BY <1>0, <1>2, <2>1, <2>2, <2>3 DEF Shape, TypeOK, Places
<1>5. CASE Outside
  <2>1. /\ UNCHANGED <<config, at, hand, stint, served, row, started, inFlight, histogram, scan, torn, quarantined>>
        /\ clock' \in 0 .. config.ticks
    BY <1>0, <1>5, OutsideStep
  <2>2. /\ front' \in [Requests -> {"new", "open", "answered", "refused", "done"}]
        /\ enqueued' \in [Requests -> 0 .. config.ticks]
        /\ waiting' \subseteq waiting \cup {r \in Requests : front[r] = "new" /\ front'[r] # "new"}
    BY <1>5, FrontStep
  <2>3. waiting \subseteq Requests
    BY <1>0 DEF Shape, TypeOK
  <2>4. \A u \in Slots : InBatch(u)' = InBatch(u) /\ InBatch(u) \subseteq Requests \ waiting
    BY <1>0, <2>1 DEF InBatch, Shape, TypeOK
  <2>5. \A u \in Slots : InBatch(u)' \subseteq Requests \ waiting'
    BY <2>2, <2>4 DEF Inv, Known
  <2>6. QED
    BY <1>0, <1>2, <2>1, <2>2, <2>3, <2>5 DEF Shape, TypeOK, Places
<1>6. QED
  BY <1>3, <1>4, <1>5, NextCases DEF Outside

\* The server starts with nothing counted and nothing read.
LEMMA InvInit ==
  ASSUME Init
  PROVE  Inv
<1>0. /\ N \in Nat /\ Slots = 1..N /\ IsFiniteSet(Slots) /\ M \in Nat /\ M > 0 /\ Buckets = 1..M
      /\ Batch \in Nat \ {0} /\ SinkDepth \in Nat /\ ControlCap \in Nat
  BY Numbers, TelemetryAssumption
<1>1. config \in Configs /\ config.ticks \in Nat
  BY TelemetryAssumption DEF Init
<1>2. NoScan \in Scans /\ NoScan.by = Nobody /\ NoScan.at = "idle"
  BY DEF NoScan, Scans
<1>3. Accepted = {} /\ Cardinality(Accepted) = 0
  <2>1. Accepted = {}
    BY DEF Init, Accepted
  <2>2. QED
    BY <2>1, FS_EmptySet
<1>4. \A s \in Slots : hand[s] = <<>> /\ InBatch(s) = {} /\ Len(hand[s]) = 0 /\ at[s] = "take"
  BY DEF Init, InBatch
<1>5. Shape
  <2>1. Len(lines) = 0 /\ lines \in Seq(Lines) /\ hand \in [Slots -> Seq(Requests)]
    BY DEF Init
  <2>2. /\ 0 \in 0 .. config.ticks /\ 0 \in 0..Batch /\ 0 <= SinkDepth /\ 0 <= ControlCap /\ 0 <= Batch
    BY <1>0, <1>1
  <2>3. TypeOK
    BY <1>1, <1>3, <1>4, <2>1, <2>2 DEF Init, TypeOK
  <2>4. QED
    BY <1>2, <2>1, <2>3 DEF Init, Shape
<1>6. Known
  BY <1>4 DEF Init, Known
<1>7. Batches
  BY <1>4 DEF Init, Batches, Idle
<1>8. Quiet
  BY <1>2, TelemetryAssumption DEF Init, Quiet
<1>9. Scanning
  BY <1>2 DEF Init, Scanning
<1>10. \E t, f : RowsFit(t, f)
  <2>1. PICK t, f : t = [i \in 0..N |-> 0] /\ f = Bumps
    OBVIOUS
  <2>2. (\A u \in 1..N : f[u] = 0) /\ f \in [Slots -> Nat]
    BY <1>0, <2>1 DEF Init, Bumps
  <2>3. Sums(t, f, N) /\ t[N] = served
    BY <1>0, <2>1, <2>2 DEF Sums, Init
  <2>4. \A u \in Slots : Bumps[u] <= f[u]
    BY <1>0, <2>1, <2>2
  <2>5. RowsFit(t, f)
    BY <1>2, <2>2, <2>3, <2>4 DEF RowsFit, Init
  <2>6. QED
    BY <2>5
<1>11. \E t : WaitsFit(t)
  <2>1. PICK t : t = [i \in 0..M |-> 0]
    OBVIOUS
  <2>2. \A u \in 1..M : histogram[u] = 0
    BY <1>0 DEF Init
  <2>3. Sums(t, histogram, M) /\ t[M] = 0
    BY <1>0, <2>1, <2>2 DEF Sums
  <2>4. Admitting = {}
    BY <1>4 DEF Admitting
  <2>5. Cardinality(Admitting) = 0
    BY <2>4, FS_EmptySet
  <2>6. t[M] + Cardinality(Admitting) = served
    BY <2>3, <2>5 DEF Init
  <2>7. WaitsFit(t)
    BY <1>2, <2>3, <2>6 DEF WaitsFit, Init
  <2>8. QED
    BY <2>7
<1>12. Fits
  BY <1>2 DEF Init, Fits
<1>13. Alone
  BY <1>2, TelemetryAssumption DEF Init, Alone
<1>14. QED
  BY <1>5, <1>6, <1>7, <1>8, <1>9, <1>10, <1>11, <1>12, <1>13 DEF Inv, Counts

\* Every step keeps the invariant.
LEMMA InvStep ==
  ASSUME Inv, [Next]_vars
  PROVE  Inv'
<1>1. Scanning'
  BY ScanningKept, ScanningReads, NextCases DEF Outside
<1>2. QED
  BY <1>1, ShapeStep, KnownStep, BatchesStep, QuietStep, AloneStep, CountsStep DEF Inv

\* For any requests, slots, batch, buckets, probes and interleaving of
\* workers, readers, recycled and aborted slots (control.rs,
\* collect_worker_status and StatsSnapshot::take): a report calls no worker
\* busier than its batch was old, unless it is the control plane's and the
\* slot was recycled between its two loads; its rows add up to no more than
\* the server's count, and its histogram misses at most one request per slot.
THEOREM ReportsAreTrue == Spec => []ReportTrue
<1>1. Init => Inv
  BY InvInit
<1>2. Inv /\ [Next]_vars => Inv'
  BY InvStep
<1>3. Inv => ReportTrue
  <2> SUFFICES ASSUME Inv PROVE ReportTrue
    OBVIOUS
  <2>1. TypeOK /\ Scanning /\ Fits /\ Quiet /\ Alone /\ scan \in Scans
    BY DEF Inv, Shape, Counts
  <2>2. ASSUME scan.at = "ready", NEW s \in Slots, scan.busy[s] > scan.age[s]
        PROVE  scan.by \in Probes /\ s \in torn
    <3>1. /\ Len(scan.busy) = N /\ Slots = 1..N /\ scan.age \in [Slots -> Nat] /\ scan.busy \in Seq(Nat)
          /\ scan.busy[s] <= scan.age[s] \/ s \in torn
      BY <2>1, <2>2, Numbers DEF Scanning, Scans
    <3>2. scan.busy[s] \in Nat /\ scan.age[s] \in Nat
      BY <3>1, ElementOfSeq
    <3>3. s \in torn
      BY <2>2, <3>1, <3>2
    <3>4. scan.by # "monitor" /\ scan.by # Nobody /\ scan.by \in Probes \cup {"monitor", Nobody}
      BY <2>1, <2>2, <3>3 DEF Alone, Quiet, Scans
    <3>5. QED
      BY <3>3, <3>4
  <2>3. scan.by \in Probes => scan.by # "monitor"
    BY TelemetryAssumption
  <2>4. scan.at = "ready" /\ scan.by \in Probes =>
          scan.rows <= scan.served /\ scan.served <= scan.total + Cardinality(Slots)
    BY <2>1, <2>3 DEF Fits, N
  <2>5. QED
    BY <2>1, <2>2, <2>4 DEF ReportTrue
<1>4. QED
  BY <1>1, <1>2, <1>3, PTL DEF Spec, Safe
=============================================================================
