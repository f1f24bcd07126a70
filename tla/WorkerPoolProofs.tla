--------------------------- MODULE WorkerPoolProofs ---------------------------
(***************************************************************************)
(* Theorems about WorkerPool, for every number of slots, workers, threads  *)
(* per worker, crashes and quarantines.                                    *)
(*                                                                         *)
(* The properties are not inductive by themselves.  That a slot goes back  *)
(* with nobody on it, and that a worker which leaves is one the scaler no  *)
(* longer counts, both rest on where a retirement mark can be: on the      *)
(* slots of a worker that is leaving, in the bank, or on slots a crash has *)
(* taken out of use, and never on the slots of a worker that is starting.  *)
(***************************************************************************)
EXTENDS WorkerPool, FiniteSetTheorems, TLAPS

Distinct(q) == \A k, l \in DOMAIN q : q[k] = q[l] => k = l

\* slots the scaler has yet to mark
Pending == Range(scaler.slots)

\* The tables and the threads' own variables hold what they are for.
Shape ==
  /\ TypeOK /\ nextIndex \in Nat
  /\ ids \in [Indexes -> Seq(Slots)] /\ workerSlots \in [Indexes -> Seq(Slots)]
  /\ \A i \in Indexes : /\ sup[i] # "off" => i < nextIndex
                        /\ sup[i] = "off" => ids[i] = <<>> /\ workerSlots[i] = <<>>
                        /\ Range(workerSlots[i]) \subseteq registered

\* What the monitor and the scaler carry from one step to the next.
Errands ==
  /\ slotWorker \in [Slots -> Indexes \cup {Nobody}]
  /\ \A i \in Indexes : \A s \in Range(workerSlots[i]) :
       slotWorker[s] \in Indexes /\ slotWorker[s] < nextIndex
  /\ DOMAIN mon = {"at", "slot", "index"}
  /\ mon.at = "claim" => /\ mon.slot \in Slots /\ slotWorker[mon.slot] \in Indexes
                         /\ slotWorker[mon.slot] < nextIndex
  /\ \A s \in rows : s \in Slots /\ slotWorker[s] \in Indexes /\ slotWorker[s] < nextIndex
  /\ mon.at \in {"spawn", "quarantine"} => mon.index \in Indexes
  /\ mon.at # "idle" => outstanding < MaxOutstanding
  /\ DOMAIN scaler = {"at", "index", "slots"}
  /\ scaler.slots \in Seq(Slots) /\ Distinct(scaler.slots)
  /\ scaler.at = "flag" <=> scaler.slots # <<>>
  /\ scaler.at \in {"check", "retire"} =>
       scaler.index \in Indexes /\ workerSlots[scaler.index] # <<>>

\* A started worker's slots are those on the table; the ones it had before
\* a crash belong to nobody.
Hands ==
  \A i \in Indexes :
    /\ Distinct(ids[i]) /\ Distinct(workerSlots[i]) /\ Held(i) \subseteq registered
    /\ sup[i] \in {"value", "crashed", "release"} => ids[i] # <<>> /\ workerSlots[i] = ids[i]
    /\ sup[i] = "spawn" => \A s \in Range(workerSlots[i]) :
                             s \notin bank /\ \A j \in Indexes : s \notin Held(j)
    /\ sup[i] = "crashed" => Held(i) \subseteq aborted
    /\ sup[i] \in {"release", "done"} => i \notin live

Owners ==
  /\ \A i, j \in Indexes : i # j => Held(i) \cap Held(j) = {}
  /\ \A i \in Indexes : Held(i) \cap bank = {}
  /\ \A s \in Running : \E i \in Indexes : sup[i] = "value" /\ s \in Held(i)

\* Where a retirement mark, or one on its way, can be.
Marks ==
  /\ \A i \in Indexes, s \in Slots : s \in Held(i) =>
       /\ sup[i] = "spawn" => s \notin retired \cup Pending
       /\ sup[i] = "value" => /\ s \in retired \cup Pending => i \in retiring
                              /\ thread[s] = "left" => s \in retired
                              /\ s \in Pending => s \notin retired
       /\ sup[i] = "release" => s \notin Pending
  /\ Pending \subseteq registered \ bank

\* The floor, with room for a retirement that is already decided.
Margin ==
  Cardinality(Active) + (IF mon.at = "spawn" THEN 1 ELSE 0)
    >= Floor + (IF scaler.at = "retire" THEN 1 ELSE 0)

Core == Shape /\ Errands /\ Hands /\ Owners /\ Marks /\ NoSlotLost

-----------------------------------------------------------------------------
(* Sequences of slots                                                      *)

\* The members of a sequence: none, some, or one more.
LEMMA Members ==
  ASSUME NEW S, NEW q \in Seq(S)
  PROVE  /\ Range(q) \subseteq S /\ (Range(q) = {} <=> q = <<>>)
         /\ \A x \in S : Append(q, x) \in Seq(S) /\ Range(Append(q, x)) = Range(q) \cup {x}
<1>1. Range(q) \subseteq S /\ (Range(q) = {} <=> q = <<>>)
  BY DEF Range
<1>2. ASSUME NEW x \in S  PROVE Append(q, x) \in Seq(S) /\ Range(Append(q, x)) = Range(q) \cup {x}
  <2>1. /\ Append(q, x) \in Seq(S) /\ DOMAIN Append(q, x) = 1 .. Len(q) + 1 /\ DOMAIN q = 1 .. Len(q)
        /\ Append(q, x)[Len(q) + 1] = x /\ \A k \in 1 .. Len(q) : Append(q, x)[k] = q[k]
        /\ Len(q) \in Nat
    OBVIOUS
  <2>2. ASSUME NEW y \in Range(Append(q, x))  PROVE y \in Range(q) \cup {x}
    BY <2>1 DEF Range
  <2>3. ASSUME NEW y \in Range(q) \cup {x}  PROVE y \in Range(Append(q, x))
    <3>1. PICK k \in 1 .. Len(q) + 1 : y = Append(q, x)[k]
      BY <2>1 DEF Range
    <3> QED
      BY <2>1, <3>1 DEF Range
  <2> QED
    BY <2>1, <2>2, <2>3
<1> QED
  BY <1>1, <1>2

\* One more member that is new leaves the members distinct.
LEMMA DistinctAppend ==
  ASSUME NEW S, NEW q \in Seq(S), Distinct(q), NEW x \in S, x \notin Range(q)
  PROVE  Distinct(Append(q, x))
<1>1. /\ DOMAIN Append(q, x) = 1 .. Len(q) + 1 /\ DOMAIN q = 1 .. Len(q)
      /\ Append(q, x)[Len(q) + 1] = x /\ \A k \in 1 .. Len(q) : Append(q, x)[k] = q[k]
      /\ Len(q) \in Nat
  OBVIOUS
<1>2. \A k \in 1 .. Len(q) : q[k] # x
  BY <1>1 DEF Range
<1> QED
  BY <1>1, <1>2 DEF Distinct

\* The first member is off the rest, and with it they make the whole.
LEMMA HeadAndTail ==
  ASSUME NEW S, NEW q \in Seq(S), q # <<>>, Distinct(q)
  PROVE  /\ Head(q) \in S /\ Tail(q) \in Seq(S) /\ Distinct(Tail(q))
         /\ Head(q) \in Range(q) /\ Range(Tail(q)) = Range(q) \ {Head(q)}
         /\ Len(q) = 1 => Range(Tail(q)) = {}
         /\ Len(q) # 1 => Tail(q) # <<>>
<1>1. /\ Len(q) \in Nat /\ Len(q) >= 1 /\ DOMAIN q = 1 .. Len(q) /\ Head(q) = q[1] /\ q[1] \in S
      /\ Tail(q) \in Seq(S) /\ Len(Tail(q)) = Len(q) - 1 /\ DOMAIN Tail(q) = 1 .. Len(q) - 1
      /\ \A k \in 1 .. Len(q) - 1 : Tail(q)[k] = q[k + 1]
  OBVIOUS
<1>2. Distinct(Tail(q)) /\ Head(q) \in Range(q)
  BY <1>1 DEF Distinct, Range
<1>3. ASSUME NEW y \in Range(Tail(q))  PROVE y \in Range(q) /\ y # Head(q)
  BY <1>1 DEF Range, Distinct
<1>4. ASSUME NEW y \in Range(q), y # Head(q)  PROVE y \in Range(Tail(q))
  <2>1. PICK k \in 1 .. Len(q) : y = q[k]
    BY <1>1 DEF Range
  <2>2. k - 1 \in 1 .. Len(q) - 1 /\ Tail(q)[k - 1] = y
    BY <1>1, <1>4, <2>1
  <2> QED
    BY <1>1, <2>2 DEF Range
<1>5. (Len(q) = 1 => Range(Tail(q)) = {}) /\ (Len(q) # 1 => Tail(q) # <<>>)
  <2>1. Len(<<>>) = 0
    OBVIOUS
  <2>2. Len(q) = 1 => Range(Tail(q)) = {}
    BY <1>1 DEF Range
  <2>3. ASSUME Tail(q) = <<>>  PROVE Len(q) = 1
    <3>1. Len(Tail(q)) = 0
      BY <2>1, <2>3, Zenon
    <3>2. \A n \in Nat : n - 1 = 0 => n = 1
      OBVIOUS
    <3> QED
      BY <1>1, <3>1, <3>2, Zenon
  <2> QED
    BY <2>2, <2>3
<1> QED
  BY <1>1, <1>2, <1>3, <1>4, <1>5

-----------------------------------------------------------------------------
(* Who owns a slot: one lemma per way a step treats the slots              *)

SlotPart == Hands /\ Owners /\ Marks /\ NoSlotLost

\* Who holds what is a matter of the supervisors' own variables.
LEMMA HeldSame ==
  ASSUME ids' = ids, sup' = sup  PROVE \A i \in Indexes : Held(i)' = Held(i)
BY DEF Held

\* The monitor and the scaler look, decide and keep books.
LEMMA LooksOn ==
  ASSUME Core, scaler'.slots = scaler.slots,
         UNCHANGED <<ids, sup, workerSlots, registered, bank, aborted, thread, retired, retiring, live>>
  PROVE  SlotPart'
<1>1. \A i \in Indexes : Held(i)' = Held(i)
  BY HeldSame
<1>2. Pending' = Pending /\ Running' = Running
  BY DEF Pending, Running
<1>3. Hands'
  BY <1>1 DEF Core, Hands
<1>4. Owners'
  BY <1>1, <1>2 DEF Core, Owners
<1>5. Marks'
  BY <1>1, <1>2 DEF Core, Marks
<1>6. NoSlotLost'
  BY <1>1 DEF Core, NoSlotLost
<1> QED
  BY <1>3, <1>4, <1>5, <1>6 DEF SlotPart

\* A worker thread goes on, leaves on its mark, or dies.
LEMMA ThreadMoves ==
  ASSUME Core, NEW s \in Slots, NEW x, thread' = [thread EXCEPT ![s] = x],
         thread[s] \in {"idle", "busy"}, x = "left" => s \in retired,
         scaler' = scaler,
         UNCHANGED <<ids, sup, workerSlots, registered, bank, aborted, retired, retiring, live>>
  PROVE  SlotPart'
<1>0. thread \in [Slots -> {"off", "idle", "busy", "dead", "left"}]
  BY DEF Core, Shape, TypeOK
<1>1. \A i \in Indexes : Held(i)' = Held(i)
  BY HeldSame
<1>2. Pending' = Pending /\ Running' \subseteq Running
  BY <1>0 DEF Pending, Running
<1>3. Hands'
  BY <1>1 DEF Core, Hands
<1>4. Owners'
  BY <1>1, <1>2 DEF Core, Owners
<1>5. Marks'
  BY <1>0, <1>1, <1>2 DEF Core, Marks
<1>6. NoSlotLost'
  BY <1>1 DEF Core, NoSlotLost
<1> QED
  BY <1>3, <1>4, <1>5, <1>6 DEF SlotPart

\* A new worker, or the index of one that could not be started.
LEMMA Newcomer ==
  ASSUME Core, NEW i \in Indexes, i = nextIndex, live' = live \cup {i},
         sup' = sup \/ sup' = [sup EXCEPT ![i] = "spawn"],
         scaler'.slots = scaler.slots,
         UNCHANGED <<ids, workerSlots, registered, bank, aborted, thread, retired, retiring>>
  PROVE  SlotPart'
<1>0. /\ sup[i] = "off" /\ ids[i] = <<>> /\ workerSlots[i] = <<>>
      /\ sup \in [Indexes -> {"off", "spawn", "value", "crashed", "release", "done"}]
      /\ <<>> \in Seq(Slots)
  BY WorkerPoolAssumption DEF Core, Shape, TypeOK
<1>1. Range(ids[i]) = {} /\ Range(workerSlots[i]) = {}
  BY <1>0, Members
<1>2. \A j \in Indexes : Held(j)' = Held(j)
  BY <1>0, <1>1 DEF Held
<1>3. Pending' = Pending /\ Running' = Running
  BY DEF Pending, Running
<1>4. Hands'
  <2>1. Hands
    BY DEF Core
  <2>2. \A j \in Indexes : sup'[j] = IF j = i /\ sup' # sup THEN "spawn" ELSE sup[j]
    BY <1>0
  <2>3. Distinct(ids[i])' /\ Distinct(workerSlots[i])' /\ (Held(i) \subseteq registered)'
    BY <1>2, <2>1 DEF Hands
  <2> QED
    BY <1>0, <1>1, <1>2, <2>1, <2>2, <2>3 DEF Hands
<1>5. Owners'
  BY <1>0, <1>2, <1>3 DEF Core, Owners
<1>6. Marks'
  <2>1. Held(i)' = {}
    BY <1>0, <1>1, <1>2 DEF Held
  <2> QED
    BY <1>0, <1>2, <1>3, <2>1 DEF Core, Marks
<1>7. NoSlotLost'
  BY <1>2 DEF Core, NoSlotLost
<1> QED
  BY <1>4, <1>5, <1>6, <1>7 DEF SlotPart

\* spawn_worker takes a slot nobody has and nobody is about to mark.
LEMMA ClaimKeeps ==
  ASSUME Core, NEW i \in Indexes, NEW s \in Slots, Claim(i, s)
  PROVE  SlotPart'
<1>0. /\ sup[i] = "spawn" /\ (s \in bank \/ s \notin registered)
      /\ ids' = [ids EXCEPT ![i] = Append(ids[i], s)]
      /\ bank' = bank \ {s} /\ registered' = registered \cup {s} /\ retired' = retired \ {s}
      /\ UNCHANGED <<quarantined, aborted, thread, live, retiring, workerSlots, sup, scaler>>
  BY DEF Claim, tables
<1>1. /\ ids \in [Indexes -> Seq(Slots)] /\ workerSlots \in [Indexes -> Seq(Slots)]
      /\ Range(ids'[i]) = Range(ids[i]) \cup {s}
      /\ \A j \in Indexes : Range(workerSlots[j]) \subseteq registered
  BY <1>0, Members DEF Core, Shape
<1>2. Held(i) = Range(ids[i]) /\ \A j \in Indexes : s \notin Held(j)
  BY <1>0 DEF Core, Hands, Owners, Held
<1>3. Held(i)' = Held(i) \cup {s} /\ \A j \in Indexes : j # i => Held(j)' = Held(j)
  BY <1>0, <1>1 DEF Held
<1>4. Pending' = Pending /\ s \notin Pending /\ Running' = Running
  BY <1>0 DEF Core, Marks, Pending, Running
<1>5. Hands'
  <2>1. \A j \in Indexes : Distinct(ids'[j])
    BY <1>0, <1>1, <1>2, DistinctAppend DEF Core, Hands
  <2>2. ASSUME NEW j \in Indexes, sup[j] = "spawn", NEW t \in Range(workerSlots[j])
        PROVE  t # s
    BY <1>0, <1>1, <2>2 DEF Core, Hands
  <2> QED
    BY <1>0, <1>3, <2>1, <2>2 DEF Core, Hands
<1>6. Owners'
  BY <1>0, <1>2, <1>3, <1>4 DEF Core, Owners
<1>7. Marks'
  BY <1>0, <1>2, <1>3, <1>4 DEF Core, Marks
<1>8. NoSlotLost'
  BY <1>0, <1>3 DEF Core, NoSlotLost
<1> QED
  BY <1>5, <1>6, <1>7, <1>8 DEF SlotPart

\* The ractor starts on the slots its supervisor holds.
LEMMA StartKeeps ==
  ASSUME Core, NEW i \in Indexes, StartRactor(i)
  PROVE  SlotPart'
<1>0. /\ sup[i] = "spawn" /\ Len(ids[i]) = Threads
      /\ workerSlots' = [workerSlots EXCEPT ![i] = ids[i]]
      /\ thread' = [s \in Slots |-> IF s \in Range(ids[i]) THEN "idle" ELSE thread[s]]
      /\ aborted' = aborted \ Range(ids[i]) /\ sup' = [sup EXCEPT ![i] = "value"]
      /\ UNCHANGED <<registered, retired, bank, live, retiring, ids, scaler>>
  BY DEF StartRactor, SetSup
<1>1. /\ ids \in [Indexes -> Seq(Slots)] /\ workerSlots \in [Indexes -> Seq(Slots)]
      /\ sup \in [Indexes -> {"off", "spawn", "value", "crashed", "release", "done"}]
      /\ thread \in [Slots -> {"off", "idle", "busy", "dead", "left"}]
  BY DEF Core, Shape, TypeOK
<1>2. ids[i] # <<>>
  <2>1. Len(<<>>) = 0 /\ Threads # 0
    BY WorkerPoolAssumption
  <2> QED
    BY <1>0, <2>1, Zenon
<1>3. Held(i) = Range(ids[i]) /\ \A j \in Indexes : Held(j)' = Held(j)
  BY <1>0, <1>1 DEF Held
<1>4. Pending' = Pending /\ Running' = Running \cup Held(i)
  <2>1. Range(ids[i]) \subseteq Slots
    BY <1>1, Members
  <2> QED
    BY <1>0, <1>1, <1>3, <2>1 DEF Pending, Running
<1>5. Hands'
  <2>1. \A j \in Indexes : sup[j] = "crashed" => Held(j) \cap Held(i) = {}
    BY <1>0 DEF Core, Owners
  <2> QED
    BY <1>0, <1>1, <1>2, <1>3, <2>1 DEF Core, Hands
<1>6. Owners'
  BY <1>0, <1>1, <1>3, <1>4 DEF Core, Owners
<1>7. Marks'
  <2>1. \A s \in Slots : thread'[s] = "left" => thread[s] = "left"
    BY <1>0, <1>1
  <2>2. \A s \in Slots : s \in Held(i) => thread'[s] = "idle"
    BY <1>0, <1>3
  <2> QED
    BY <1>0, <1>1, <1>3, <1>4, <2>1, <2>2 DEF Core, Marks
<1>8. NoSlotLost'
  BY <1>0, <1>3 DEF Core, NoSlotLost
<1> QED
  BY <1>5, <1>6, <1>7, <1>8 DEF SlotPart

\* A crash: every thread of the ractor is dead and its clients answered.
LEMMA AbortKeeps ==
  ASSUME Core, NEW i \in Indexes, AbortAll(i)
  PROVE  SlotPart'
<1>0. /\ sup[i] = "value" /\ sup' = [sup EXCEPT ![i] = "crashed"]
      /\ thread' = [s \in Slots |-> IF s \in Range(ids[i]) THEN "dead" ELSE thread[s]]
      /\ aborted' = aborted \cup Range(ids[i])
      /\ UNCHANGED <<registered, retired, bank, live, retiring, workerSlots, ids, scaler>>
  BY DEF AbortAll, SetSup, tables
<1>1. /\ sup \in [Indexes -> {"off", "spawn", "value", "crashed", "release", "done"}]
      /\ thread \in [Slots -> {"off", "idle", "busy", "dead", "left"}]
  BY DEF Core, Shape, TypeOK
<1>2. Held(i) = Range(ids[i]) /\ \A j \in Indexes : Held(j)' = Held(j)
  BY <1>0, <1>1 DEF Held
<1>3. Pending' = Pending /\ Running' = Running \ Held(i)
  BY <1>0, <1>1, <1>2 DEF Pending, Running
<1>4. Hands'
  BY <1>0, <1>1, <1>2 DEF Core, Hands
<1>5. Owners'
  BY <1>0, <1>1, <1>2, <1>3 DEF Core, Owners
<1>6. Marks'
  <2>1. \A s \in Slots : thread'[s] = "left" => thread[s] = "left"
    BY <1>0, <1>1
  <2> QED
    BY <1>0, <1>1, <1>2, <1>3, <2>1 DEF Core, Marks
<1>7. NoSlotLost'
  BY <1>0, <1>2 DEF Core, NoSlotLost
<1> QED
  BY <1>4, <1>5, <1>6, <1>7 DEF SlotPart

\* The crashed worker's slots are out of use for good.
LEMMA RespawnKeeps ==
  ASSUME Core, NEW i \in Indexes, Respawn(i)
  PROVE  SlotPart'
<1>0. /\ sup[i] = "crashed" /\ sup' = [sup EXCEPT ![i] = "spawn"]
      /\ ids' = [ids EXCEPT ![i] = <<>>] /\ retiring' = retiring \ {i}
      /\ UNCHANGED <<registered, retired, bank, aborted, thread, live, workerSlots, scaler>>
  BY DEF Respawn, SetSup, slotVars
<1>1. /\ sup \in [Indexes -> {"off", "spawn", "value", "crashed", "release", "done"}]
      /\ ids \in [Indexes -> Seq(Slots)] /\ workerSlots[i] = ids[i]
      /\ ids'[i] = <<>> /\ <<>> \in Seq(Slots)
  BY <1>0 DEF Core, Shape, TypeOK, Hands
<1>2. Range(ids'[i]) = {} /\ Distinct(ids'[i])
  <2>1. Range(<<>>) = {} /\ Distinct(<<>>)
    BY DEF Range, Distinct
  <2> QED
    BY <1>1, <2>1, Zenon
<1>3. /\ Held(i) = Range(ids[i]) /\ Held(i)' = {}
      /\ \A j \in Indexes : j # i => Held(j)' = Held(j)
  BY <1>0, <1>1, <1>2 DEF Held
<1>4. Pending' = Pending /\ Running' = Running
  BY <1>0 DEF Pending, Running
<1>5. Hands'
  <2>1. \A s \in Range(workerSlots[i]) : s \notin bank /\ \A j \in Indexes : s \notin Held(j)'
    BY <1>1, <1>3 DEF Core, Owners
  <2>2. ASSUME NEW j \in Indexes, j # i
        PROVE  /\ ids'[j] = ids[j] /\ sup'[j] = sup[j] /\ Held(j)' = Held(j)
               /\ sup[j] = "spawn" => \A s \in Range(workerSlots[j]) :
                                       s \notin bank /\ \A k \in Indexes : s \notin Held(k)'
    <3>1. ids'[j] = ids[j] /\ sup'[j] = sup[j] /\ Held(j)' = Held(j)
      BY <1>0, <1>1, <1>3, <2>2
    <3>2. \A k \in Indexes : Held(k)' \subseteq Held(k)
      BY <1>3
    <3> QED
      BY <3>1, <3>2 DEF Core, Hands
  <2> QED
    BY <1>0, <1>1, <1>2, <1>3, <2>1, <2>2 DEF Core, Hands
<1>6. Owners'
  <2>1. \A j \in Indexes : Held(j)' \subseteq Held(j)
    BY <1>3
  <2>2. ASSUME NEW s \in Running  PROVE \E j \in Indexes : sup'[j] = "value" /\ s \in Held(j)'
    <3>1. PICK j \in Indexes : sup[j] = "value" /\ s \in Held(j)
      BY DEF Core, Owners
    <3>2. j # i
      BY <1>0, <3>1
    <3> QED
      BY <1>0, <1>1, <1>3, <3>1, <3>2
  <2> QED
    BY <1>0, <1>4, <2>1, <2>2 DEF Core, Owners
<1>7. Marks'
  BY <1>0, <1>1, <1>3, <1>4 DEF Core, Marks
<1>8. NoSlotLost'
  BY <1>0, <1>3 DEF Core, NoSlotLost, Hands
<1> QED
  BY <1>5, <1>6, <1>7, <1>8 DEF SlotPart

\* A ractor whose threads have all left was told to: the scaler does not
\* count it any more, and has no mark of it left to set.
LEMMA LeavesOnMark ==
  ASSUME Core, NEW i \in Indexes, sup[i] = "value", RactorFinished(i)
  PROVE  i \in retiring /\ Held(i) \cap Pending = {}
<1>1. /\ ids[i] \in Seq(Slots) /\ ids[i] # <<>> /\ Held(i) = Range(ids[i])
      /\ Range(ids[i]) \subseteq Slots /\ Range(ids[i]) # {}
  BY Members DEF Core, Shape, Hands, Held
<1>2. \A s \in Held(i) : thread[s] = "left"
  BY <1>1 DEF RactorFinished, Range
<1>3. \A s \in Held(i) : s \in retired /\ s \notin Pending /\ i \in retiring
  BY <1>1, <1>2 DEF Core, Marks
<1> QED
  BY <1>1, <1>3

\* exited takes a worker that was told to leave off the tables.
LEMMA ExitedKeeps ==
  ASSUME Core, NEW i \in Indexes, Exited(i)
  PROVE  SlotPart' /\ i \in retiring
<1>0. /\ sup[i] = "value" /\ RactorFinished(i) /\ live' = live \ {i} /\ retiring' = retiring \ {i}
      /\ sup' = [sup EXCEPT ![i] = IF i \in retiring THEN "release" ELSE "done"]
      /\ UNCHANGED <<registered, retired, bank, aborted, thread, workerSlots, ids, scaler>>
  BY DEF Exited, SetSup, slotVars
<1>1. /\ i \in retiring /\ Held(i) \cap Pending = {} /\ sup' = [sup EXCEPT ![i] = "release"]
      /\ sup \in [Indexes -> {"off", "spawn", "value", "crashed", "release", "done"}]
  BY <1>0, LeavesOnMark DEF Core, Shape, TypeOK
<1>2. \A j \in Indexes : Held(j)' = Held(j)
  BY <1>0, <1>1 DEF Held
<1>3. Pending' = Pending /\ Running' = Running /\ Running \cap Held(i) = {}
  <2>1. Held(i) = Range(ids[i])
    BY <1>0 DEF Held
  <2> QED
    BY <1>0, <2>1 DEF Pending, Running, RactorFinished, Range
<1>4. Hands'
  BY <1>0, <1>1, <1>2 DEF Core, Hands
<1>5. Owners'
  <2>1. ASSUME NEW s \in Running  PROVE \E j \in Indexes : sup'[j] = "value" /\ s \in Held(j)'
    <3>1. PICK j \in Indexes : sup[j] = "value" /\ s \in Held(j)
      BY DEF Core, Owners
    <3> QED
      BY <1>1, <1>2, <1>3, <3>1
  <2> QED
    BY <1>0, <1>2, <1>3, <2>1 DEF Core, Owners
<1>6. Marks'
  BY <1>0, <1>1, <1>2, <1>3 DEF Core, Marks
<1>7. NoSlotLost'
  BY <1>0, <1>2 DEF Core, NoSlotLost
<1> QED
  BY <1>1, <1>4, <1>5, <1>6, <1>7 DEF SlotPart

\* The slots of a worker that left go back to the bank.
LEMMA ReleaseKeeps ==
  ASSUME Core, NEW i \in Indexes, Release(i)
  PROVE  SlotPart'
<1>0. /\ sup[i] = "release" /\ bank' = bank \cup Range(ids[i]) /\ sup' = [sup EXCEPT ![i] = "done"]
      /\ UNCHANGED <<registered, retired, aborted, thread, live, retiring, workerSlots, ids, scaler>>
  BY DEF Release, SetSup, tables
<1>1. sup \in [Indexes -> {"off", "spawn", "value", "crashed", "release", "done"}]
  BY DEF Core, Shape, TypeOK
<1>2. /\ Held(i) = Range(ids[i]) /\ Held(i)' = {}
      /\ \A j \in Indexes : j # i => Held(j)' = Held(j)
  BY <1>0, <1>1 DEF Held
<1>3. Pending' = Pending /\ Running' = Running
  BY <1>0 DEF Pending, Running
<1>4. Hands'
  BY <1>0, <1>1, <1>2 DEF Core, Hands
<1>5. Owners'
  <2>1. \A j \in Indexes : Held(j)' \subseteq Held(j) /\ Held(j)' \cap Held(i) = {}
    BY <1>2 DEF Core, Owners
  <2>2. ASSUME NEW s \in Running  PROVE \E j \in Indexes : sup'[j] = "value" /\ s \in Held(j)'
    <3>1. PICK j \in Indexes : sup[j] = "value" /\ s \in Held(j)
      BY DEF Core, Owners
    <3>2. j # i
      BY <1>0, <3>1
    <3> QED
      BY <1>0, <1>1, <1>2, <3>1, <3>2
  <2> QED
    BY <1>0, <1>2, <1>3, <2>1, <2>2 DEF Core, Owners
<1>6. Marks'
  <2>1. Held(i) \cap Pending = {}
    <3>1. Held(i) \subseteq Slots
      BY DEF Core, Hands, Shape, TypeOK
    <3> QED
      BY <1>0, <3>1 DEF Core, Marks
  <2> QED
    BY <1>0, <1>1, <1>2, <1>3, <2>1 DEF Core, Marks
<1>7. NoSlotLost'
  BY <1>0, <1>2 DEF Core, NoSlotLost
<1> QED
  BY <1>4, <1>5, <1>6, <1>7 DEF SlotPart

\* retire takes a worker's slots off the table to mark them: none is marked
\* yet, in the bank or in another's hands.
LEMMA RetireKeeps ==
  ASSUME Core, Retire
  PROVE  SlotPart'
<1>1. CASE scaler.index \in live /\ scaler.index \notin retiring
  <2> DEFINE i == scaler.index
  <2>0. /\ i \in Indexes /\ i \in live /\ i \notin retiring /\ retiring' = retiring \cup {i}
        /\ scaler'.slots = workerSlots[i]
        /\ UNCHANGED <<ids, sup, workerSlots, registered, bank, aborted, thread, retired, live>>
    BY <1>1 DEF Retire, Core, Errands, slotVars, supVars
  <2>1. PICK n \in Indexes : n = scaler.index
    BY <2>0
  <2>2. \A j \in Indexes : Held(j)' = Held(j)
    BY <2>0, HeldSame
  <2>3. Pending' = Range(workerSlots[n]) /\ Running' = Running
    BY <2>0, <2>1 DEF Pending, Running
  <2>4. /\ sup[n] \in {"off", "spawn", "value", "crashed"}
        /\ sup[n] = "off" => Range(workerSlots[n]) = {}
        /\ Range(workerSlots[n]) \subseteq registered
    <3>1. /\ workerSlots[n] \in Seq(Slots)
          /\ sup[n] = "off" => workerSlots[n] = <<>>
          /\ sup[n] \in {"off", "spawn", "value", "crashed", "release", "done"}
          /\ sup[n] \in {"release", "done"} => n \notin live
          /\ Range(workerSlots[n]) \subseteq registered
      BY DEF Core, Shape, TypeOK, Hands
    <3> QED
      BY <2>0, <2>1, <3>1, Members
  <2>5. sup[n] \in {"value", "crashed"} => Held(n) = Range(workerSlots[n])
    BY DEF Core, Hands, Held
  <2>6. Hands'
    BY <2>0, <2>2 DEF Core, Hands
  <2>7. Owners'
    BY <2>0, <2>2, <2>3 DEF Core, Owners
  <2>8. Marks'
    <3>1. Pending' \subseteq registered' \ bank'
      BY <2>0, <2>3, <2>4, <2>5 DEF Core, Hands, Owners
    <3>2. ASSUME NEW j \in Indexes, NEW s \in Slots, s \in Held(j)'
          PROVE  /\ sup'[j] = "spawn" => s \notin (retired \cup Pending)'
                 /\ sup'[j] = "value" => /\ s \in (retired \cup Pending)' => j \in retiring'
                                         /\ thread'[s] = "left" => s \in retired'
                                         /\ s \in Pending' => s \notin retired'
                 /\ sup'[j] = "release" => s \notin Pending'
      <4>1. s \in Held(j) /\ sup'[j] = sup[j]
        BY <2>0, <2>2, <3>2
      <4>2. s \in Range(workerSlots[n]) => j = n /\ sup[n] \in {"value", "crashed"}
        BY <2>4, <2>5, <4>1 DEF Core, Hands, Owners
      <4>3. sup[n] = "value" /\ s \in Held(n) => s \notin retired
        BY <2>0, <2>1 DEF Core, Marks
      <4> QED
        BY <2>0, <2>1, <2>3, <4>1, <4>2, <4>3 DEF Core, Marks
    <3> QED
      BY <3>1, <3>2 DEF Marks
  <2>9. NoSlotLost'
    BY <2>0, <2>2 DEF Core, NoSlotLost
  <2> QED
    BY <2>6, <2>7, <2>8, <2>9 DEF SlotPart
<1>2. CASE ~(scaler.index \in live /\ scaler.index \notin retiring)
  <2>1. scaler'.slots = <<>> /\ scaler.slots = <<>>
    BY <1>2 DEF Retire, ScalerIdle, Core, Errands
  <2>2. UNCHANGED <<ids, sup, workerSlots, registered, bank, aborted, thread, retired, retiring, live>>
    BY <1>2 DEF Retire, slotVars, supVars
  <2> QED
    BY <2>1, <2>2, LooksOn
<1> QED
  BY <1>1, <1>2

\* A mark moves from the scaler's list to the slot.
LEMMA RetireSlotKeeps ==
  ASSUME Core, RetireSlot
  PROVE  SlotPart' /\ retired' \subseteq registered
<1>0. /\ scaler.slots \in Seq(Slots) /\ scaler.slots # <<>> /\ Distinct(scaler.slots)
      /\ retired' = retired \cup {Head(scaler.slots)}
      /\ UNCHANGED <<ids, sup, workerSlots, registered, bank, aborted, thread, retiring, live>>
  BY DEF RetireSlot, Core, Errands, tables, supVars
<1>1. PICK h \in Slots : h = Head(scaler.slots) /\ h \in Pending
  BY <1>0, HeadAndTail DEF Pending
<1>2. Pending' = Pending \ {h}
  <2>1. CASE Len(scaler.slots) = 1
    <3>1. Range(scaler'.slots) = {}
      BY <2>1 DEF RetireSlot, ScalerIdle, Range
    <3> QED
      BY <1>0, <1>1, <2>1, <3>1, HeadAndTail DEF Pending
  <2>2. CASE Len(scaler.slots) # 1
    <3>1. scaler'.slots = Tail(scaler.slots)
      BY <2>2 DEF RetireSlot, Core, Errands
    <3> QED
      BY <1>0, <1>1, <3>1, HeadAndTail DEF Pending
  <2> QED
    BY <2>1, <2>2
<1>3. \A i \in Indexes : Held(i)' = Held(i)
  BY <1>0, HeldSame
<1>4. retired' = retired \cup {h} /\ Running' = Running
  BY <1>0, <1>1 DEF Running
<1>5. Hands'
  BY <1>0, <1>3 DEF Core, Hands
<1>6. Owners'
  BY <1>0, <1>3, <1>4 DEF Core, Owners
<1>7. Marks'
  BY <1>0, <1>1, <1>2, <1>3, <1>4 DEF Core, Marks
<1>8. NoSlotLost'
  BY <1>0, <1>3 DEF Core, NoSlotLost
<1>9. retired' \subseteq registered
  BY <1>1, <1>4 DEF Core, Shape, TypeOK, Marks
<1> QED
  BY <1>5, <1>6, <1>7, <1>8, <1>9 DEF SlotPart

-----------------------------------------------------------------------------
(* Tables, errands and types                                               *)

Books == Shape /\ Errands

\* A worker thread's step leaves every table alone.
LEMMA ThreadBooks ==
  ASSUME Core, NEW s \in Slots, NEW x \in {"idle", "busy", "dead", "left"},
         thread' = [thread EXCEPT ![s] = x], crashes' \in 0 .. MaxCrashes,
         UNCHANGED <<registered, retired, quarantined, aborted, bank, tables, supVars, monVars, scaler>>
  PROVE  Books'
<1>1. Shape'
  BY DEF Core, Shape, TypeOK, tables, supVars, monVars
<1>2. Errands'
  BY DEF Core, Errands, tables, supVars, monVars
<1> QED
  BY <1>1, <1>2 DEF Books

\* A supervisor thread's step leaves them in order.
LEMMA SupBooks ==
  ASSUME Core, NEW i \in Indexes, SupNext(i)
  PROVE  Books'
<1>0. /\ Shape /\ Errands /\ Indexes \subseteq Nat /\ Threads \in Nat /\ nextIndex \in Nat
      /\ ids \in [Indexes -> Seq(Slots)] /\ workerSlots \in [Indexes -> Seq(Slots)]
      /\ sup \in [Indexes -> {"off", "spawn", "value", "crashed", "release", "done"}]
      /\ thread \in [Slots -> {"off", "idle", "busy", "dead", "left"}]
      /\ slotWorker \in [Slots -> Indexes \cup {Nobody}]
  BY WorkerPoolAssumption DEF Core, Shape, TypeOK, Errands
<1>1. ASSUME NEW s \in Slots, Claim(i, s)  PROVE Books'
  <2>1. /\ Append(ids[i], s) \in Seq(Slots) /\ Len(Append(ids[i], s)) = Len(ids[i]) + 1
        /\ Len(ids[i]) \in Nat
    BY <1>0
  <2>2. Shape'
    BY <1>0, <1>1, <2>1 DEF Shape, TypeOK, Claim, tables, monVars
  <2>3. Errands'
    BY <1>0, <1>1 DEF Errands, Claim, tables, monVars
  <2> QED
    BY <2>2, <2>3 DEF Books
<1>2. ASSUME StartRactor(i)  PROVE Books'
  <2>1. Range(ids[i]) \subseteq registered /\ i < nextIndex
    BY <1>2 DEF StartRactor, Core, Hands, Held, Shape
  <2>2. Shape'
    BY <1>0, <1>2, <2>1 DEF Shape, TypeOK, StartRactor, SetSup, monVars
  <2>3. Errands'
    <3>1. /\ slotWorker' \in [Slots -> Indexes \cup {Nobody}]
          /\ \A t \in Slots : slotWorker'[t] = IF t \in Range(ids[i]) THEN i ELSE slotWorker[t]
          /\ \A j \in Indexes : Range(workerSlots[j]) \subseteq Slots /\ Range(ids[i]) \subseteq Slots
      BY <1>0, <1>2, Members DEF StartRactor
    <3>2. workerSlots' = [workerSlots EXCEPT ![i] = ids[i]] /\ UNCHANGED <<nextIndex, mon, rows, outstanding, scaler>>
      BY <1>2 DEF StartRactor, monVars
    <3>3. \A j \in Indexes : \A t \in Range(workerSlots'[j]) :
            slotWorker'[t] \in Indexes /\ slotWorker'[t] < nextIndex
      BY <1>0, <2>1, <3>1, <3>2 DEF Errands
    <3>4. ids[i] # <<>>
      <4>1. Len(ids[i]) # 0 /\ Len(<<>>) = 0
        BY <1>2, WorkerPoolAssumption DEF StartRactor
      <4> QED
        BY <4>1, Zenon
    <3>5. \A j \in Indexes : workerSlots[j] # <<>> => workerSlots'[j] # <<>>
      BY <1>0, <3>2, <3>4
    <3>6. /\ mon.at = "claim" => slotWorker'[mon.slot] \in Indexes /\ slotWorker'[mon.slot] < nextIndex
          /\ \A t \in rows : slotWorker'[t] \in Indexes /\ slotWorker'[t] < nextIndex
      BY <1>0, <2>1, <3>1 DEF Errands
    <3> QED
      BY <1>0, <3>1, <3>2, <3>3, <3>5, <3>6 DEF Errands
  <2> QED
    BY <2>2, <2>3 DEF Books
<1>3. ASSUME AbortAll(i)  PROVE Books'
  <2>1. Range(ids[i]) \subseteq registered
    BY <1>0, <1>3 DEF AbortAll, Core, Hands, Held
  <2>2. Shape'
    BY <1>0, <1>3, <2>1 DEF Shape, TypeOK, AbortAll, SetSup, tables, monVars
  <2>3. Errands'
    BY <1>0, <1>3 DEF Errands, AbortAll, tables, monVars
  <2> QED
    BY <2>2, <2>3 DEF Books
<1>4. ASSUME Respawn(i)  PROVE Books'
  <2>1. <<>> \in Seq(Slots) /\ Len(<<>>) = 0
    OBVIOUS
  <2>2. Shape'
    BY <1>0, <1>4, <2>1 DEF Shape, TypeOK, Respawn, SetSup, slotVars, monVars
  <2>3. Errands'
    BY <1>0, <1>4 DEF Errands, Respawn, monVars
  <2> QED
    BY <2>2, <2>3 DEF Books
<1>5. ASSUME Exited(i)  PROVE Books'
  <2>1. Shape'
    BY <1>0, <1>5 DEF Shape, TypeOK, Exited, SetSup, slotVars, monVars
  <2>2. Errands'
    BY <1>0, <1>5 DEF Errands, Exited, monVars
  <2> QED
    BY <2>1, <2>2 DEF Books
<1>6. ASSUME Release(i)  PROVE Books'
  <2>1. Range(ids[i]) \subseteq registered
    BY <1>0, <1>6 DEF Release, Core, Hands, Held
  <2>2. Shape'
    BY <1>0, <1>6, <2>1 DEF Shape, TypeOK, Release, SetSup, tables, monVars
  <2>3. Errands'
    BY <1>0, <1>6 DEF Errands, Release, tables, monVars
  <2> QED
    BY <2>2, <2>3 DEF Books
<1> QED
  BY <1>1, <1>2, <1>3, <1>4, <1>5, <1>6 DEF SupNext

\* A new index, started or not, leaves what is known about the others.
LEMMA NewIndex ==
  ASSUME Core, NEW i \in Indexes, NEW started \in BOOLEAN, Supervise(i, started),
         UNCHANGED <<slotVars, retiring, workerSlots, slotWorker, ids, crashes>>,
         replaced' \subseteq replaced,
         mon'.at \in {"idle", "claim", "spawn", "quarantine"}, outstanding' = outstanding,
         rows' \subseteq rows,
         scaler'.at \in {"idle", "check", "retire", "flag", "grow"}
  PROVE  /\ Shape' /\ nextIndex' = nextIndex + 1
         /\ \A j \in Indexes : \A s \in Range(workerSlots[j]) :
              slotWorker[s] \in Indexes /\ slotWorker[s] < nextIndex'
         /\ \A s \in rows' : s \in Slots /\ slotWorker[s] \in Indexes /\ slotWorker[s] < nextIndex'
         /\ \A j \in Indexes : j < nextIndex => j < nextIndex'
<1>0. /\ nextIndex \in Nat /\ i = nextIndex /\ nextIndex' = i + 1 /\ live' = live \cup {i}
      /\ sup' = sup \/ sup' = [sup EXCEPT ![i] = "spawn"]
      /\ Indexes \subseteq Nat
  BY WorkerPoolAssumption DEF Core, Shape, Supervise, SetSup
<1>1. TypeOK'
  BY <1>0 DEF Core, Shape, TypeOK, slotVars
<1>2. Shape'
  BY <1>0, <1>1 DEF Core, Shape, TypeOK, slotVars
<1>3. \A j \in Indexes : \A s \in Range(workerSlots[j]) :
        slotWorker[s] \in Indexes /\ slotWorker[s] < nextIndex'
  <2>1. \A j \in Indexes : j < nextIndex => j < nextIndex'
    BY <1>0
  <2> QED
    BY <2>1 DEF Core, Errands
<1>4. ASSUME NEW s \in rows'
      PROVE  s \in Slots /\ slotWorker[s] \in Indexes /\ slotWorker[s] < nextIndex'
  <2>1. s \in Slots /\ slotWorker[s] \in Indexes /\ slotWorker[s] < nextIndex
    BY <1>4 DEF Core, Errands
  <2>2. slotWorker[s] \in Nat
    BY <1>0, <2>1
  <2> QED
    BY <1>0, <2>1, <2>2
<1> QED
  BY <1>0, <1>2, <1>3, <1>4

\* The quarantine monitor's steps.
LEMMA MonBooks ==
  ASSUME Core, MonNext \/ \E s \in Slots : Scan(s)
  PROVE  Books'
<1>0. /\ Shape /\ Errands /\ Indexes \subseteq Nat /\ nextIndex \in Nat
      /\ outstanding \in 0 .. MaxOutstanding /\ MaxOutstanding \in Nat
      /\ mon.at \in {"idle", "claim", "spawn", "quarantine"}
      /\ DOMAIN mon = {"at", "slot", "index"}
  BY WorkerPoolAssumption DEF Core, Shape, TypeOK, Errands
<1>1. ASSUME NEW s \in Slots, Scan(s)  PROVE Books'
  <2>1. PICK R \in (SUBSET Wedged) \cup {rows} : s \in R /\ rows' = R \ {s}
    BY <1>1 DEF Scan
  <2>2. ASSUME NEW t \in R  PROVE t \in Slots /\ slotWorker[t] \in Indexes /\ slotWorker[t] < nextIndex
    <3>1. CASE R = rows
      BY <1>0, <2>2, <3>1 DEF Errands
    <3>2. CASE R # rows
      <4>1. t \in Running
        BY <2>1, <2>2, <3>2 DEF Wedged, Running
      <4>2. PICK j \in Indexes : sup[j] = "value" /\ t \in Held(j)
        BY <4>1 DEF Core, Owners
      <4>3. t \in Range(workerSlots[j])
        BY <4>2 DEF Core, Hands, Held
      <4> QED
        BY <1>0, <4>1, <4>3 DEF Errands, Running
    <3> QED
      BY <3>1, <3>2
  <2>3. \A t \in R : t \in Slots /\ slotWorker[t] \in Indexes /\ slotWorker[t] < nextIndex
    BY <2>2
  <2>4. /\ DOMAIN mon' = {"at", "slot", "index"} /\ mon.at = "idle"
        /\ \/ mon' = mon
           \/ mon'.at = "claim" /\ mon'.slot = s /\ outstanding < MaxOutstanding
    BY <1>0, <1>1 DEF Scan
  <2>5. Shape'
    BY <1>0, <1>1, <2>1, <2>3, <2>4 DEF Shape, TypeOK, Scan, slotVars, tables, supVars
  <2>6. UNCHANGED <<slotWorker, workerSlots, nextIndex, outstanding, scaler>>
    BY <1>1 DEF Scan, tables
  <2>7. Errands'
    BY <1>0, <2>1, <2>3, <2>4, <2>6 DEF Errands
  <2> QED
    BY <2>5, <2>7 DEF Books
<1>2. ASSUME ReplaceClaim  PROVE Books'
  <2>1. PICK j \in Indexes : j = slotWorker[mon.slot] /\ j < nextIndex
    BY <1>0, <1>2 DEF ReplaceClaim, Errands
  <2>2. /\ replaced' \subseteq replaced \cup {j} /\ DOMAIN mon' = {"at", "slot", "index"}
        /\ \/ mon'.at = "idle"
           \/ mon'.at = "spawn" /\ mon'.index = j
        /\ UNCHANGED <<slotVars, live, retiring, workerSlots, slotWorker, nextIndex, supVars, rows, outstanding,
                       scaler, crashes>>
        /\ mon.at = "claim"
    <3>1. CASE j \in replaced
      <4>1. mon' = MonIdle /\ replaced' = replaced
        BY <1>2, <2>1, <3>1 DEF ReplaceClaim
      <4> QED
        BY <1>2, <4>1 DEF ReplaceClaim, MonIdle
    <3>2. CASE j \notin replaced
      <4>1. replaced' = replaced \cup {j} /\ mon' = [mon EXCEPT !.at = "spawn", !.index = j]
        BY <1>2, <2>1, <3>2 DEF ReplaceClaim
      <4> QED
        BY <1>0, <1>2, <4>1 DEF ReplaceClaim
    <3> QED
      BY <3>1, <3>2
  <2>3. Shape'
    BY <1>0, <2>1, <2>2 DEF Shape, TypeOK, slotVars, supVars
  <2>4. Errands'
    BY <1>0, <2>2 DEF Errands, slotVars, supVars
  <2> QED
    BY <2>3, <2>4 DEF Books
<1>3. ASSUME NEW i \in Indexes, ReplaceSpawn(i)  PROVE Books'
  <2>1. /\ mon'.at = "quarantine" /\ mon'.index = mon.index /\ DOMAIN mon' = {"at", "slot", "index"}
        /\ mon.at = "spawn" /\ Supervise(i, TRUE)
        /\ UNCHANGED <<slotVars, retiring, replaced, workerSlots, slotWorker, ids, rows, outstanding,
                       scaler, crashes>>
    BY <1>0, <1>3 DEF ReplaceSpawn, Errands
  <2>2. scaler'.at \in {"idle", "check", "retire", "flag", "grow"}
    BY <1>0, <2>1 DEF Shape, TypeOK
  <2>3. /\ Shape'
        /\ \A j \in Indexes : \A s \in Range(workerSlots[j]) :
             slotWorker[s] \in Indexes /\ slotWorker[s] < nextIndex'
        /\ \A s \in rows' : s \in Slots /\ slotWorker[s] \in Indexes /\ slotWorker[s] < nextIndex'
    BY <2>1, <2>2, NewIndex
  <2>4. Errands'
    BY <1>0, <2>1, <2>3 DEF Errands
  <2> QED
    BY <2>3, <2>4 DEF Books
<1>4. ASSUME NEW i \in Indexes, ReplaceFails(i)  PROVE Books'
  <2>1. /\ mon'.at = "idle" /\ DOMAIN mon' = {"at", "slot", "index"}
        /\ replaced' \subseteq replaced /\ Supervise(i, FALSE) /\ rows' = {}
        /\ UNCHANGED <<slotVars, retiring, workerSlots, slotWorker, ids, outstanding, scaler, crashes>>
    BY <1>0, <1>4 DEF ReplaceFails, MonIdle, Errands
  <2>2. scaler'.at \in {"idle", "check", "retire", "flag", "grow"}
    BY <1>0, <2>1 DEF Shape, TypeOK
  <2>3. /\ Shape'
        /\ \A j \in Indexes : \A s \in Range(workerSlots[j]) :
             slotWorker[s] \in Indexes /\ slotWorker[s] < nextIndex'
        /\ \A s \in rows' : s \in Slots /\ slotWorker[s] \in Indexes /\ slotWorker[s] < nextIndex'
    BY <2>1, <2>2, NewIndex
  <2>4. Errands'
    BY <1>0, <2>1, <2>3 DEF Errands
  <2> QED
    BY <2>3, <2>4 DEF Books
<1>5. ASSUME Quarantine  PROVE Books'
  <2>1. PICK j \in Indexes : j = mon.index
    BY <1>0, <1>5 DEF Quarantine, Errands
  <2>2. /\ quarantined' = quarantined \cup Range(workerSlots[j]) /\ outstanding' = outstanding + 1
        /\ mon'.at = "idle" /\ DOMAIN mon' = {"at", "slot", "index"} /\ outstanding < MaxOutstanding
        /\ UNCHANGED <<registered, retired, aborted, thread, bank, tables, supVars, rows, scaler, crashes>>
    BY <1>0, <1>5, <2>1 DEF Quarantine, MonIdle, Errands
  <2>3. Shape'
    BY <1>0, <2>2 DEF Shape, TypeOK, tables, supVars
  <2>4. Errands'
    BY <1>0, <2>2 DEF Errands, tables, supVars
  <2> QED
    BY <2>3, <2>4 DEF Books
<1> QED
  BY <1>1, <1>2, <1>3, <1>4, <1>5 DEF MonNext

\* The scaler's steps.
LEMMA ScalerBooks ==
  ASSUME Core, ScalerNext \/ Pressure \/ \E i \in Indexes : Observe(i)
  PROVE  Books'
<1>0. /\ Shape /\ Errands /\ nextIndex \in Nat
      /\ DOMAIN scaler = {"at", "index", "slots"} /\ scaler.slots \in Seq(Slots)
      /\ Distinct(scaler.slots) /\ (scaler.at = "flag" <=> scaler.slots # <<>>)
      /\ mon.at \in {"idle", "claim", "spawn", "quarantine"}
  BY DEF Core, Shape, TypeOK, Errands
<1>1. /\ DOMAIN ScalerIdle = {"at", "index", "slots"} /\ ScalerIdle.at = "idle"
      /\ ScalerIdle.slots = <<>> /\ <<>> \in Seq(Slots) /\ Distinct(<<>>)
  BY DEF ScalerIdle, Distinct
<1>2. ASSUME NEW i \in Indexes, Observe(i)  PROVE Books'
  <2>1. /\ scaler'.at = "check" /\ scaler'.index = i /\ scaler'.slots = scaler.slots
        /\ DOMAIN scaler' = {"at", "index", "slots"} /\ scaler.at = "idle" /\ workerSlots[i] # <<>>
        /\ UNCHANGED <<slotVars, tables, supVars, monVars, crashes>>
    BY <1>0, <1>2 DEF Observe, Groups
  <2>2. Shape'
    BY <1>0, <2>1 DEF Shape, TypeOK, slotVars, tables, supVars, monVars
  <2>3. Errands'
    BY <1>0, <2>1 DEF Errands, slotVars, tables, supVars, monVars
  <2> QED
    BY <2>2, <2>3 DEF Books
<1>3. ASSUME Check  PROVE Books'
  <2>1. /\ scaler.at = "check" /\ UNCHANGED <<slotVars, tables, supVars, monVars, crashes>>
        /\ \/ scaler' = ScalerIdle
           \/ /\ scaler'.at = "retire" /\ scaler'.index = scaler.index /\ scaler'.slots = scaler.slots
              /\ DOMAIN scaler' = {"at", "index", "slots"}
    BY <1>0, <1>3 DEF Check
  <2>2. Shape'
    BY <1>0, <1>1, <2>1 DEF Shape, TypeOK, slotVars, tables, supVars, monVars
  <2>3. Errands'
    BY <1>0, <1>1, <2>1 DEF Errands, slotVars, tables, supVars, monVars
  <2> QED
    BY <2>2, <2>3 DEF Books
<1>4. ASSUME Retire  PROVE Books'
  <2>1. PICK j \in Indexes : j = scaler.index /\ workerSlots[j] # <<>>
    BY <1>0, <1>4 DEF Retire, Errands
  <2>2. /\ UNCHANGED <<slotVars, live, replaced, workerSlots, slotWorker, nextIndex, supVars, monVars, crashes>>
        /\ \/ scaler' = ScalerIdle /\ retiring' = retiring
           \/ /\ j \in live /\ retiring' = retiring \cup {j}
              /\ scaler'.at = "flag" /\ scaler'.slots = workerSlots[j]
              /\ DOMAIN scaler' = {"at", "index", "slots"}
    BY <1>0, <1>4, <2>1 DEF Retire
  <2>3. workerSlots[j] \in Seq(Slots) /\ Distinct(workerSlots[j])
    BY DEF Core, Shape, Hands
  <2>4. Shape'
    BY <1>0, <1>1, <2>2 DEF Shape, TypeOK, slotVars, supVars, monVars
  <2>5. Errands'
    BY <1>0, <1>1, <2>1, <2>2, <2>3 DEF Errands, slotVars, supVars, monVars
  <2> QED
    BY <2>4, <2>5 DEF Books
<1>5. ASSUME RetireSlot  PROVE Books'
  <2>1. /\ scaler.at = "flag" /\ scaler.slots # <<>> /\ retired' \subseteq registered
        /\ UNCHANGED <<registered, quarantined, aborted, thread, bank, tables, supVars, monVars, crashes>>
        /\ \/ scaler' = ScalerIdle
           \/ /\ Len(scaler.slots) # 1 /\ scaler'.at = "flag" /\ scaler'.slots = Tail(scaler.slots)
              /\ DOMAIN scaler' = {"at", "index", "slots"}
    BY <1>0, <1>5, RetireSlotKeeps DEF RetireSlot
  <2>2. /\ Tail(scaler.slots) \in Seq(Slots) /\ Distinct(Tail(scaler.slots))
        /\ Len(scaler.slots) # 1 => Tail(scaler.slots) # <<>>
    BY <1>0, <2>1, HeadAndTail
  <2>3. Shape'
    BY <1>0, <1>1, <2>1 DEF Shape, TypeOK, tables, supVars, monVars
  <2>4. Errands'
    BY <1>0, <1>1, <2>1, <2>2 DEF Errands, tables, supVars, monVars
  <2> QED
    BY <2>3, <2>4 DEF Books
<1>6. ASSUME Pressure  PROVE Books'
  <2>1. /\ scaler.at = "idle" /\ scaler'.at = "grow" /\ scaler'.slots = scaler.slots
        /\ DOMAIN scaler' = {"at", "index", "slots"}
        /\ UNCHANGED <<slotVars, tables, supVars, monVars, crashes>>
    BY <1>0, <1>6 DEF Pressure
  <2>2. Shape'
    BY <1>0, <2>1 DEF Shape, TypeOK, slotVars, tables, supVars, monVars
  <2>3. Errands'
    BY <1>0, <2>1 DEF Errands, slotVars, tables, supVars, monVars
  <2> QED
    BY <2>2, <2>3 DEF Books
<1>7. ASSUME NEW i \in Indexes, Grow(i)  PROVE Books'
  <2>1. PICK started \in BOOLEAN : Supervise(i, started)
    BY <1>7 DEF Grow
  <2>2. /\ scaler' = ScalerIdle
        /\ UNCHANGED <<slotVars, retiring, replaced, workerSlots, slotWorker, ids, mon, rows, outstanding, crashes>>
    BY <1>7 DEF Grow, monVars
  <2>3. /\ Shape'
        /\ nextIndex' = nextIndex + 1
        /\ \A j \in Indexes : \A s \in Range(workerSlots[j]) :
             slotWorker[s] \in Indexes /\ slotWorker[s] < nextIndex'
        /\ \A s \in rows' : s \in Slots /\ slotWorker[s] \in Indexes /\ slotWorker[s] < nextIndex'
        /\ \A j \in Indexes : j < nextIndex => j < nextIndex'
    BY <1>0, <1>1, <2>1, <2>2, NewIndex
  <2>4. Errands'
    BY <1>0, <1>1, <2>2, <2>3 DEF Errands
  <2> QED
    BY <2>3, <2>4 DEF Books
<1> QED
  BY <1>2, <1>3, <1>4, <1>5, <1>6, <1>7 DEF ScalerNext

-----------------------------------------------------------------------------
(* The ownership invariant                                                 *)

LEMMA CoreInit == Init => Core
<1> SUFFICES ASSUME Init PROVE Core
  OBVIOUS
<1> USE WorkerPoolAssumption
<1>1. <<>> \in Seq(Slots) /\ Range(<<>>) = {} /\ Distinct(<<>>) /\ Len(<<>>) = 0
  BY DEF Range, Distinct
<1>2. /\ ids = [i \in Indexes |-> <<>>] /\ workerSlots = [i \in Indexes |-> <<>>]
      /\ sup = [i \in Indexes |-> IF i < Floor THEN "spawn" ELSE "off"]
      /\ \A i \in Indexes : Held(i) = {} /\ ids[i] = <<>> /\ workerSlots[i] = <<>>
                            /\ Range(workerSlots[i]) = {} /\ Range(ids[i]) = {}
  BY <1>1 DEF Init, Held
<1>3. /\ scaler = ScalerIdle /\ scaler.slots = <<>> /\ scaler.at = "idle" /\ Pending = {}
      /\ mon = MonIdle /\ mon.at = "idle" /\ rows = {} /\ Running = {}
  BY <1>1 DEF Init, Pending, ScalerIdle, MonIdle, Running
<1>4. Shape
  BY <1>1, <1>2, <1>3 DEF Init, Shape, TypeOK
<1>5. Errands
  BY <1>1, <1>2, <1>3 DEF Init, Errands, ScalerIdle, MonIdle
<1>6. Hands
  BY <1>1, <1>2 DEF Init, Hands
<1>7. Owners
  BY <1>2, <1>3 DEF Owners
<1>8. Marks /\ NoSlotLost
  BY <1>2, <1>3 DEF Init, Marks, NoSlotLost
<1> QED
  BY <1>4, <1>5, <1>6, <1>7, <1>8 DEF Core

LEMMA CoreStep == Core /\ [Next]_vars => Core'
<1> SUFFICES ASSUME Core, [Next]_vars PROVE Core'
  OBVIOUS
<1>0. ASSUME SlotPart', Books'  PROVE Core'
  BY <1>0 DEF SlotPart, Books, Core
<1>1. ASSUME NEW s \in Slots, Serve(s) \/ Finish(s) \/ Leave(s) \/ Crash(s)  PROVE Core'
  <2>1. PICK x \in {"idle", "busy", "dead", "left"} :
          /\ thread' = [thread EXCEPT ![s] = x] /\ thread[s] \in {"idle", "busy"}
          /\ x = "left" => s \in retired
    BY <1>1 DEF Serve, Finish, Leave, Crash, Works, SetThread
  <2>2. UNCHANGED <<registered, retired, quarantined, aborted, bank, tables, supVars, monVars, scaler>>
    BY <1>1 DEF Serve, Finish, Leave, Crash, Works, SetThread
  <2>3. crashes' \in 0 .. MaxCrashes
    BY <1>1, WorkerPoolAssumption DEF Serve, Finish, Leave, Crash, Works, Core, Shape, TypeOK
  <2>4. SlotPart'
    BY <2>1, <2>2, ThreadMoves DEF tables, supVars
  <2> QED
    BY <1>0, <2>1, <2>2, <2>3, <2>4, ThreadBooks
<1>2. ASSUME NEW i \in Indexes, SupNext(i)  PROVE Core'
  <2>1. SlotPart'
    BY <1>2, ClaimKeeps, StartKeeps, AbortKeeps, RespawnKeeps, ExitedKeeps, ReleaseKeeps DEF SupNext
  <2> QED
    BY <1>0, <1>2, <2>1, SupBooks
<1>3. ASSUME NEW s \in Slots, Scan(s)  PROVE Core'
  <2>1. SlotPart'
    BY <1>3, LooksOn DEF Scan, slotVars, tables, supVars
  <2> QED
    BY <1>0, <1>3, <2>1, MonBooks
<1>4. ASSUME MonNext  PROVE Core'
  <2>1. ASSUME ReplaceClaim \/ Quarantine  PROVE SlotPart'
    BY <2>1, LooksOn DEF ReplaceClaim, Quarantine, slotVars, tables, supVars
  <2>2. ASSUME NEW i \in Indexes, ReplaceSpawn(i) \/ ReplaceFails(i)  PROVE SlotPart'
    BY <2>2, Newcomer DEF ReplaceSpawn, ReplaceFails, Supervise, SetSup, slotVars
  <2> QED
    BY <1>0, <1>4, <2>1, <2>2, MonBooks DEF MonNext
<1>5. ASSUME Pressure \/ \E i \in Indexes : Observe(i)  PROVE Core'
  <2>1. scaler'.slots = scaler.slots
    BY <1>5 DEF Pressure, Observe, Core, Errands
  <2>2. SlotPart'
    BY <1>5, <2>1, LooksOn DEF Pressure, Observe, slotVars, tables, supVars
  <2> QED
    BY <1>0, <1>5, <2>2, ScalerBooks
<1>6. ASSUME ScalerNext  PROVE Core'
  <2>1. ASSUME Check  PROVE SlotPart'
    <3>1. scaler'.slots = scaler.slots
      BY <2>1 DEF Check, ScalerIdle, Core, Errands
    <3> QED
      BY <2>1, <3>1, LooksOn DEF Check, slotVars, tables, supVars
  <2>2. ASSUME NEW i \in Indexes, Grow(i)  PROVE SlotPart'
    <3>1. scaler'.slots = scaler.slots
      BY <2>2 DEF Grow, ScalerIdle, Core, Errands
    <3> QED
      BY <2>2, <3>1, Newcomer DEF Grow, Supervise, SetSup, slotVars
  <2> QED
    BY <1>0, <1>6, <2>1, <2>2, RetireKeeps, RetireSlotKeeps, ScalerBooks DEF ScalerNext
<1>7. ASSUME UNCHANGED vars  PROVE Core'
  <2>1. SlotPart'
    BY <1>7, LooksOn DEF vars, slotVars, tables, supVars
  <2>2. Shape'
    BY <1>7 DEF vars, slotVars, tables, supVars, monVars, Core, Shape, TypeOK
  <2>3. Errands'
    BY <1>7 DEF vars, slotVars, tables, supVars, monVars, Core, Errands
  <2> QED
    BY <1>0, <2>1, <2>2, <2>3 DEF Books
<1> QED
  BY <1>1, <1>2, <1>3, <1>4, <1>5, <1>6, <1>7 DEF Next

LEMMA CoreKept == Spec => []Core
BY CoreInit, CoreStep, PTL DEF Spec

(* SlotOwnedOnce and the types: the bank and the supervisors never share a *)
(* slot, and no thread runs on one nobody holds (slot_bank.rb,             *)
(* ractor_supervisor.rb).                                                  *)
THEOREM SlotsOwned == Spec => []SlotOwnedOnce
<1>1. Core => SlotOwnedOnce
  BY DEF Core, Shape, Owners, SlotOwnedOnce
<1> QED
  BY <1>1, CoreKept, PTL

(* NoSlotLost: a registered slot is in the bank, in a supervisor's hands,  *)
(* or given up after its clients were answered.                            *)
THEOREM SlotsFound == Spec => []NoSlotLost
<1>1. Core => NoSlotLost
  BY DEF Core
<1> QED
  BY <1>1, CoreKept, PTL

-----------------------------------------------------------------------------
(* The floor                                                               *)

\* How much a finite set that keeps another, all of it but one, or all of
\* it and one more, has at least.
LEMMA AtLeast ==
  ASSUME NEW A, NEW B, IsFiniteSet(A), IsFiniteSet(B)
  PROVE  /\ Cardinality(A) \in Nat /\ Cardinality(B) \in Nat
         /\ A \subseteq B => Cardinality(A) <= Cardinality(B)
         /\ \A x : A \ {x} \subseteq B => Cardinality(A) <= Cardinality(B) + 1
         /\ \A x : x \notin A /\ A \cup {x} \subseteq B => Cardinality(A) + 1 <= Cardinality(B)
<1>1. Cardinality(A) \in Nat /\ Cardinality(B) \in Nat
  BY FS_CardinalityType
<1>2. A \subseteq B => Cardinality(A) <= Cardinality(B)
  BY FS_Subset
<1>3. ASSUME NEW x, A \ {x} \subseteq B  PROVE Cardinality(A) <= Cardinality(B) + 1
  <2>1. Cardinality(A \ {x}) <= Cardinality(B) /\ Cardinality(A \ {x}) \in Nat
    BY <1>3, FS_Subset, FS_RemoveElement, FS_CardinalityType
  <2>2. Cardinality(A \ {x}) = Cardinality(A) - 1 \/ Cardinality(A \ {x}) = Cardinality(A)
    BY FS_RemoveElement
  <2> QED
    BY <1>1, <2>1, <2>2
<1>4. ASSUME NEW x, x \notin A, A \cup {x} \subseteq B  PROVE Cardinality(A) + 1 <= Cardinality(B)
  <2>1. Cardinality(A \cup {x}) <= Cardinality(B) /\ Cardinality(A \cup {x}) = Cardinality(A) + 1
    BY <1>4, FS_Subset, FS_AddElement
  <2> QED
    BY <2>1
<1> QED
  BY <1>1, <1>2, <1>3, <1>4

\* Indexes given out so far are finitely many and leave out the next one.
LEMMA GivenOut ==
  ASSUME NEW n \in Nat, NEW A \in SUBSET (0 .. n - 1)
  PROVE  IsFiniteSet(A) /\ n \notin A /\ Cardinality(A) \in Nat
<1>1. IsFiniteSet(0 .. n - 1)
  <2>1. 0 \in Int /\ n - 1 \in Int
    OBVIOUS
  <2> QED
    BY <2>1, FS_Interval
<1>2. n \notin A
  OBVIOUS
<1> QED
  BY <1>1, <1>2, FS_Subset, FS_CardinalityType

LEMMA MarginInit == Init => Margin
<1> SUFFICES ASSUME Init PROVE Margin
  OBVIOUS
<1>1. Active = 0 .. Floor - 1 /\ mon.at = "idle" /\ scaler.at = "idle"
  BY DEF Init, Active, MonIdle, ScalerIdle
<1>2. Cardinality(0 .. Floor - 1) = Floor
  <2>1. 0 \in Int /\ Floor - 1 \in Int /\ ~(0 > Floor - 1) /\ Floor - 1 - 0 + 1 = Floor
    BY WorkerPoolAssumption
  <2> QED
    BY <2>1, FS_Interval
<1> QED
  BY <1>1, <1>2, WorkerPoolAssumption DEF Margin

LEMMA MarginStep == Core /\ Core' /\ Margin /\ [Next]_vars => Margin'
<1> SUFFICES ASSUME Core, Core', Margin, [Next]_vars PROVE Margin'
  OBVIOUS
<1>0. /\ IsFiniteSet(Active) /\ IsFiniteSet(Active') /\ nextIndex \notin Active /\ Floor \in Nat
      /\ Cardinality(Active) \in Nat /\ Cardinality(Active') \in Nat
  <2>1. nextIndex \in Nat /\ Active \in SUBSET (0 .. nextIndex - 1)
    BY DEF Core, Shape, TypeOK, Active
  <2>2. nextIndex' \in Nat /\ Active' \in SUBSET (0 .. nextIndex' - 1)
    BY DEF Core, Shape, TypeOK, Active
  <2> QED
    BY <2>1, <2>2, GivenOut, WorkerPoolAssumption
<1>1. ASSUME Active \subseteq Active', mon.at = "spawn" => mon'.at = "spawn",
             scaler'.at = "retire" => scaler.at = "retire"
      PROVE  Margin'
  <2>1. Cardinality(Active) <= Cardinality(Active')
    BY <1>0, <1>1, AtLeast
  <2> QED
    BY <1>0, <1>1, <2>1 DEF Margin
<1>2. ASSUME NEW s \in Slots, Serve(s) \/ Finish(s) \/ Leave(s) \/ Crash(s) \/ Scan(s)  PROVE Margin'
  <2>1. UNCHANGED <<tables, scaler>> /\ (mon' = mon \/ mon.at = "idle")
    BY <1>2 DEF Serve, Finish, Leave, Crash, Works, Scan, monVars
  <2> QED
    BY <1>1, <2>1 DEF Active, tables
<1>3. ASSUME NEW i \in Indexes, SupNext(i)  PROVE Margin'
  <2>1. mon' = mon /\ scaler' = scaler
    BY <1>3 DEF SupNext, Claim, StartRactor, AbortAll, Respawn, Exited, Release, monVars
  <2>2. Active \subseteq Active'
    <3>1. CASE Exited(i)
      BY <3>1, ExitedKeeps DEF Exited, Active
    <3>2. CASE ~Exited(i)
      BY <1>3, <3>2 DEF SupNext, Claim, StartRactor, AbortAll, Respawn, Release, tables, Active
    <3> QED
      BY <3>1, <3>2
  <2> QED
    BY <1>1, <2>1, <2>2
<1>4. ASSUME ReplaceClaim  PROVE Margin'
  <2>1. PICK j : j = slotWorker[mon.slot]
    OBVIOUS
  <2>2. CASE j \in replaced
    BY <1>1, <1>4, <2>1, <2>2 DEF ReplaceClaim, Active
  <2>3. CASE j \notin replaced
    <3>1. /\ mon' = [mon EXCEPT !.at = "spawn", !.index = j] /\ replaced' = replaced \cup {j}
          /\ live' = live /\ retiring' = retiring /\ scaler' = scaler /\ mon.at = "claim"
      BY <1>4, <2>1, <2>3 DEF ReplaceClaim
    <3>2. mon'.at = "spawn"
      BY <3>1 DEF Core, Errands
    <3>3. Active \ {j} \subseteq Active'
      BY <3>1 DEF Active
    <3>4. Cardinality(Active) <= Cardinality(Active') + 1
      BY <1>0, <3>3, AtLeast
    <3> QED
      BY <1>0, <3>1, <3>2, <3>4 DEF Margin
  <2> QED
    BY <2>2, <2>3
<1>5. ASSUME NEW i \in Indexes, ReplaceSpawn(i) \/ ReplaceFails(i)  PROVE Margin'
  <2>1. /\ i = nextIndex /\ live' = live \cup {i} /\ retiring' = retiring /\ replaced' \subseteq replaced
        /\ scaler' = scaler /\ mon.at = "spawn" /\ i \notin retiring \cup replaced
    BY <1>5 DEF ReplaceSpawn, ReplaceFails, Supervise, Core, Shape, TypeOK
  <2>2. i \notin Active /\ Active \cup {i} \subseteq Active'
    BY <1>0, <2>1 DEF Active
  <2>3. Cardinality(Active) + 1 <= Cardinality(Active')
    BY <1>0, <2>2, AtLeast
  <2> QED
    BY <1>0, <2>1, <2>3 DEF Margin
<1>6. ASSUME Quarantine  PROVE Margin'
  BY <1>1, <1>6 DEF Quarantine, tables, Active
<1>7. ASSUME Check  PROVE Margin'
  <2>1. Active' = Active /\ mon' = mon
    BY <1>7 DEF Check, tables, monVars, Active
  <2>2. CASE Cardinality(Active) > Floor
    BY <1>0, <2>1, <2>2 DEF Margin
  <2>3. CASE ~(Cardinality(Active) > Floor)
    BY <1>1, <1>7, <2>1, <2>3 DEF Check, ScalerIdle
  <2> QED
    BY <2>2, <2>3
<1>8. ASSUME Retire  PROVE Margin'
  <2>1. PICK j : j = scaler.index
    OBVIOUS
  <2>2. /\ live' = live /\ replaced' = replaced /\ retiring' \subseteq retiring \cup {j} /\ mon' = mon
        /\ scaler.at = "retire"
    BY <1>8, <2>1 DEF Retire, monVars
  <2>3. scaler'.at # "retire"
    <3>1. CASE j \in live /\ j \notin retiring
      <4>1. scaler' = [scaler EXCEPT !.at = "flag", !.slots = workerSlots[j]]
        BY <1>8, <2>1, <3>1 DEF Retire
      <4> QED
        BY <4>1 DEF Core, Errands
    <3>2. CASE ~(j \in live /\ j \notin retiring)
      BY <1>8, <2>1, <3>2 DEF Retire, ScalerIdle
    <3> QED
      BY <3>1, <3>2
  <2>4. Active \ {j} \subseteq Active'
    BY <2>2 DEF Active
  <2>5. Cardinality(Active) <= Cardinality(Active') + 1
    BY <1>0, <2>4, AtLeast
  <2> QED
    BY <1>0, <2>2, <2>3, <2>5 DEF Margin
<1>9. ASSUME RetireSlot \/ Pressure \/ \E i \in Indexes : Observe(i)  PROVE Margin'
  <2>1. UNCHANGED <<tables, monVars>>
    BY <1>9 DEF RetireSlot, Pressure, Observe
  <2>2. scaler'.at # "retire"
    <3>1. DOMAIN scaler = {"at", "index", "slots"}
      BY DEF Core, Errands, Shape, TypeOK
    <3>2. CASE RetireSlot
      <4>1. scaler' = ScalerIdle \/ scaler' = [scaler EXCEPT !.slots = Tail(scaler.slots)]
        BY <3>2 DEF RetireSlot
      <4>2. scaler.at = "flag"
        BY <3>2 DEF RetireSlot
      <4> QED
        BY <3>1, <4>1, <4>2 DEF ScalerIdle
    <3>3. CASE Pressure \/ \E i \in Indexes : Observe(i)
      BY <3>1, <3>3 DEF Pressure, Observe
    <3> QED
      BY <1>9, <3>2, <3>3
  <2> QED
    BY <1>1, <2>1, <2>2 DEF tables, monVars, Active
<1>10. ASSUME NEW i \in Indexes, Grow(i)  PROVE Margin'
  <2>1. /\ i = nextIndex /\ live' = live \cup {i} /\ retiring' = retiring /\ replaced' = replaced
        /\ mon' = mon /\ scaler'.at = "idle"
    BY <1>10 DEF Grow, Supervise, ScalerIdle, monVars
  <2> QED
    BY <1>1, <2>1 DEF Active
<1>11. ASSUME UNCHANGED vars  PROVE Margin'
  BY <1>1, <1>11 DEF vars, tables, monVars, Active
<1> QED
  BY <1>2, <1>3, <1>4, <1>5, <1>6, <1>7, <1>8, <1>9, <1>10, <1>11
     DEF Next, MonNext, ScalerNext

(* FloorKept: whatever the monitor, the supervisors and the scaler do at   *)
(* once, the pool never shrinks past its floor (ractor_supervisor.rb:73-   *)
(* 82).                                                                    *)
THEOREM PoolKeepsFloor == Spec => []FloorKept
<1>1. Core /\ Margin => FloorKept
  <2> SUFFICES ASSUME Core, Margin PROVE FloorKept
    OBVIOUS
  <2>1. Cardinality(Active) \in Nat /\ Floor \in Nat
    <3>1. nextIndex \in Nat /\ Active \in SUBSET (0 .. nextIndex - 1)
      BY DEF Core, Shape, TypeOK, Active
    <3> QED
      BY <3>1, GivenOut, WorkerPoolAssumption
  <2> QED
    BY <2>1 DEF Margin, FloorKept
<1>2. Spec => [](Core /\ Margin)
  <2>1. Core /\ Margin /\ [Next]_vars => Core' /\ Margin'
    BY CoreStep, MarginStep
  <2> QED
    BY <2>1, CoreInit, MarginInit, PTL DEF Spec
<1> QED
  BY <1>1, <1>2, PTL
=============================================================================
