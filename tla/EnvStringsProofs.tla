-------------------------- MODULE EnvStringsProofs --------------------------
(***************************************************************************)
(* What keeps a string alive, for any workers, requests, heap, slabs and   *)
(* cache capacities and under either collector.  Inv is about zero-copy    *)
(* bodies: a buffer hyper holds is never collected from under it, and its  *)
(* slot is its own.  CacheInv adds the caches and the workers: the slab    *)
(* roots the cached strings and nothing else, they live and say their      *)
(* keys, and what a worker holds says its own request.                     *)
(***************************************************************************)
EXTENDS EnvStrings, SequenceTheorems, FiniteSetTheorems, TLAPS

-----------------------------------------------------------------------------
(* The inductive invariant                                                 *)

Types ==
  /\ DOMAIN heap \subseteq Cells
  /\ DOMAIN slab = Slabs /\ slab["pins"] \in [PinSlots -> Cells \cup {0}]
  /\ DOMAIN at = Workers /\ DOMAIN frame = Workers

\* The body a worker is about to send is its own, and on its stack.
BodyInHand ==
  \A w \in Workers : at[w] = "respond" =>
    /\ "body" \in DOMAIN frame[w] /\ frame[w]["body"] \in DOMAIN heap
    /\ heap[frame[w]["body"]].owner = w

\* A pinned body has its root, says what it said, and where ractors collect
\* for themselves its builder's collection spares it.
Pinned ==
  \A b \in wire :
    /\ b.slot \in PinSlots /\ slab["pins"][b.slot] = b.value
    /\ b.value \in DOMAIN heap /\ heap[b.value].text = b.text
    /\ PerRactorGC => heap[b.value].shareable

\* No two buffers share a slot: dropping one clears no other's root.
OwnSlot == \A a, b \in wire : a.slot = b.slot => a = b

Inv == Types /\ BodyInHand /\ Pinned /\ OwnSlot

-----------------------------------------------------------------------------
(* The heap                                                                *)

Survives(v) == v \in DOMAIN heap' /\ heap'[v] = heap[v]

\* rooted by a slab, and spared by its builder's collection
Safe(v) == /\ \E s \in Slabs : \E i \in DOMAIN slab[s] : slab[s][i] = v
           /\ PerRactorGC => heap[v].shareable

\* on a worker's stack, and its own or anybody's
Held(w, v) == v \in Stack(w) /\ (heap[v].shareable \/ heap[v].owner = w)

\* the heap with a string in a new cell
With(v, text, w, shareable) ==
  [x \in DOMAIN heap \cup {v} |->
     IF x = v THEN [text |-> text, owner |-> w, shareable |-> shareable] ELSE heap[x]]

\* An allocation takes a free cell and leaves the others as they are.
LEMMA Allocated ==
  ASSUME NEW w, NEW text, NEW shareable, FreeCells # {}
  PROVE  \E v \in Cells \ DOMAIN heap :
           /\ Alloc(w, text, shareable).value = v
           /\ Alloc(w, text, shareable).heap = With(v, text, w, shareable)
<1> DEFINE v == CHOOSE x \in FreeCells : TRUE
<1>1. v \in Cells \ DOMAIN heap
  BY DEF FreeCells
<1>2. /\ Alloc(w, text, shareable).value = v
      /\ Alloc(w, text, shareable).heap = With(v, text, w, shareable)
  BY DEF Alloc, With
<1>3. QED
  BY <1>1, <1>2

\* The same for a string every ractor may use.
LEMMA StringAllocated ==
  ASSUME NEW w, NEW text, FreeCells # {}
  PROVE  \E v \in Cells \ DOMAIN heap :
           /\ Alloc(w, text, TRUE).value = v
           /\ Alloc(w, text, TRUE).heap = With(v, text, w, TRUE)
<1> DEFINE v == CHOOSE x \in FreeCells : TRUE
<1>1. v \in Cells \ DOMAIN heap
  BY DEF FreeCells
<1>2. /\ Alloc(w, text, TRUE).value = v
      /\ Alloc(w, text, TRUE).heap = With(v, text, w, TRUE)
  BY DEF Alloc, With
<1>3. QED
  BY <1>1, <1>2

\* No step takes a string that is rooted safely or held by a worker.
LEMMA HeapStep ==
  ASSUME Types, [Next]_vars
  PROVE  /\ DOMAIN heap' \subseteq Cells
         /\ \A v \in DOMAIN heap :
              Safe(v) \/ (\E w \in Workers : Held(w, v)) => Survives(v)
<1>1. CASE UNCHANGED heap
  BY <1>1 DEF Types, Survives
<1>2. ASSUME NEW w \in Workers, Build(w) \/ \E shareable \in BOOLEAN : App(w, shareable)
      PROVE  DOMAIN heap' \subseteq Cells /\ \A v \in DOMAIN heap : Survives(v)
  <2>1. PICK text, shareable : FreeCells # {} /\ heap' = Alloc(w, text, shareable).heap
    BY <1>2 DEF Build, App
  <2>2. PICK v \in Cells \ DOMAIN heap : heap' = With(v, text, w, shareable)
    BY <2>1, Allocated
  <2>3. QED
    BY <2>2 DEF With, Types, Survives
<1>3. CASE Collect
  <2>1. heap' = [v \in DOMAIN heap \cap (Rooted \cup UNION {Stack(w) : w \in Workers}) |-> heap[v]]
    BY <1>3 DEF Collect
  <2>2. ASSUME NEW v \in DOMAIN heap, Safe(v) PROVE v \in Rooted
    BY <2>2 DEF Safe, Rooted, Rng
  <2>3. ASSUME NEW v \in DOMAIN heap, NEW w \in Workers, Held(w, v) PROVE v \in Stack(w)
    BY <2>3 DEF Held
  <2>4. QED
    BY <2>1, <2>2, <2>3 DEF Types, Survives
<1>4. ASSUME NEW w \in Workers, LocalCollect(w)
      PROVE  /\ DOMAIN heap' \subseteq Cells
             /\ \A v \in DOMAIN heap :
                  Safe(v) \/ (\E u \in Workers : Held(u, v)) => Survives(v)
  <2>1. /\ PerRactorGC
        /\ heap' = [v \in {x \in DOMAIN heap :
                             heap[x].owner # w \/ heap[x].shareable \/ x \in Stack(w)} |-> heap[v]]
    BY <1>4 DEF LocalCollect
  <2>2. ASSUME NEW v \in DOMAIN heap, Safe(v) PROVE Survives(v)
    BY <2>1, <2>2 DEF Safe, Survives
  <2>3. ASSUME NEW v \in DOMAIN heap, NEW u \in Workers, Held(u, v) PROVE Survives(v)
    BY <2>1, <2>3 DEF Held, Survives
  <2>4. QED
    BY <2>1, <2>2, <2>3 DEF Types
<1>5. ASSUME NEW w \in Workers,
             Lock(w) \/ Look(w) \/ Set(w) \/ Done(w) \/ (\E scanned \in BOOLEAN : Put(w, scanned))
             \/ (\E large \in BOOLEAN : Respond(w, large)) \/ StartGC(w)
      PROVE  UNCHANGED heap
  BY <1>5 DEF Lock, Look, Set, Done, Put, Respond, StartGC
<1>6. ASSUME NEW w \in Workers, NEW r \in Requests, TakeRequest(w, r) PROVE UNCHANGED heap
  BY <1>6 DEF TakeRequest
<1>7. ASSUME NEW b \in wire, DropBuf(b) PROVE UNCHANGED heap
  BY <1>7 DEF DropBuf
<1>8. ASSUME UNCHANGED vars PROVE UNCHANGED heap
  BY <1>8 DEF vars
<1>9. QED
  BY <1>1, <1>2, <1>3, <1>4, <1>5, <1>6, <1>7, <1>8 DEF Next, Step

-----------------------------------------------------------------------------
(* The slab and the wire                                                   *)

\* The response slab and what hyper holds stay as they are.
PinsKept == DOMAIN slab' = DOMAIN slab /\ slab'["pins"] = slab["pins"] /\ wire' = wire

\* A body goes out on a free slot.
Pins(w, i) ==
  LET v == frame[w]["body"] IN
  /\ at[w] = "respond" /\ Pinnable(w) /\ UNCHANGED heap
  /\ i \in PinSlots /\ slab["pins"][i] = 0
  /\ DOMAIN slab' = DOMAIN slab /\ slab'["pins"] = [slab["pins"] EXCEPT ![i] = v]
  /\ wire' = wire \cup {[slot |-> i, value |-> v, text |-> heap[v].text]}

\* A buffer is dropped and its slot cleared.
Unpins(b) ==
  /\ wire' = wire \ {b} /\ UNCHANGED heap
  /\ DOMAIN slab' = DOMAIN slab /\ slab'["pins"] \in [PinSlots -> Cells \cup {0}]
  /\ \A i \in PinSlots : i # b.slot => slab'["pins"][i] = slab["pins"][i]

\* the slots insert hands out
Granted(s, vs, scanned) == CHOOSE f \in Claims(s, vs, scanned) : TRUE

\* They are free, and one for each string.
LEMMA ClaimedSlots ==
  ASSUME NEW s, NEW vs, \E p, q : vs = {p, q}, NEW scanned \in BOOLEAN,
         Claims(s, vs, scanned) # {}
  PROVE  /\ scanned
         /\ Granted(s, vs, scanned) \in [vs -> Free(s)]
         /\ \A x, y \in vs : Granted(s, vs, scanned)[x] = Granted(s, vs, scanned)[y] => x = y
<1> PICK p, q : vs = {p, q}
  OBVIOUS
<1> DEFINE F == Free(s)
           g == CHOOSE f \in [vs -> F] : \A x, y \in vs : f[x] = f[y] => x = y
<1>1. scanned /\ Cardinality(F) >= Cardinality(vs) /\ Claims(s, vs, scanned) = {g}
  BY DEF Claims
<1>2. \E f \in [vs -> F] : \A x, y \in vs : f[x] = f[y] => x = y
  <2>1. CASE p = q
    <3>1. Cardinality(vs) = 1 /\ Cardinality({}) = 0
      BY <2>1, FS_Singleton, FS_EmptySet
    <3>2. PICK i \in F : TRUE
      BY <1>1, <3>1
    <3>3. [x \in vs |-> i] \in [vs -> F]
      BY <3>2
    <3>4. QED
      BY <2>1, <3>3
  <2>2. CASE p # q
    <3>1. Cardinality(vs) = 2
      <4>1. IsFiniteSet({p}) /\ Cardinality({p}) = 1
        BY FS_Singleton
      <4>2. Cardinality({p} \cup {q}) = 2
        BY <2>2, <4>1, FS_AddElement
      <4>3. {p} \cup {q} = {p, q}
        OBVIOUS
      <4>4. QED
        BY <4>2, <4>3
    <3>2. Cardinality({}) = 0 /\ \A i : Cardinality({i}) = 1
      BY FS_EmptySet, FS_Singleton
    <3>3. PICK i \in F : TRUE
      BY <1>1, <3>1, <3>2
    <3>4. PICK j \in F : j # i
      <4>1. ASSUME F = {i} PROVE FALSE
        <5>1. Cardinality(F) = 1
          BY <3>2, <4>1
        <5>2. QED
          BY <1>1, <3>1, <5>1
      <4>2. QED
        BY <3>3, <4>1
    <3>5. [x \in vs |-> IF x = p THEN i ELSE j] \in [vs -> F]
      BY <3>3, <3>4
    <3>6. \A x, y \in vs :
            (IF x = p THEN i ELSE j) = (IF y = p THEN i ELSE j) => x = y
      BY <3>4
    <3>7. QED
      BY <3>5, <3>6
  <2>3. QED
    BY <2>1, <2>2
<1>3. g \in [vs -> F] /\ \A x, y \in vs : g[x] = g[y] => x = y
  BY <1>2
<1> HIDE DEF g
<1>4. Granted(s, vs, scanned) = g
  BY <1>1 DEF Granted
<1>5. QED
  BY <1>1, <1>3, <1>4

\* One string gets one free slot.
LEMMA ClaimedFree ==
  ASSUME NEW s, NEW p, NEW scanned \in BOOLEAN, Claims(s, {p}, scanned) # {}
  PROVE  scanned /\ Granted(s, {p}, scanned)[p] \in Free(s)
<1>1. \E x, y : {p} = {x, y}
  OBVIOUS
<1>2. scanned /\ Granted(s, {p}, scanned) \in [{p} -> Free(s)]
  BY <1>1, ClaimedSlots
<1>3. QED
  BY <1>2

\* Every step keeps the pins, pins a body or drops one.
LEMMA SlabStep ==
  ASSUME Types, BodyInHand, [Next]_vars
  PROVE  \/ PinsKept
         \/ \E w \in Workers, i \in PinSlots : Pins(w, i)
         \/ \E b \in wire : Unpins(b)
<1>1. CASE UNCHANGED <<slab, wire>>
  BY <1>1 DEF PinsKept
<1>2. ASSUME NEW w \in Workers, NEW scanned \in BOOLEAN, Put(w, scanned) PROVE PinsKept
  <2>1. wire' = wire
    BY <1>2 DEF Put
  <2>2. \/ UNCHANGED slab
        \/ \E x : slab' = [slab EXCEPT !["caches"] = x]
    BY <1>2 DEF Put, Insert, FillHost
  <2>3. QED
    BY <2>1, <2>2 DEF PinsKept, Types, Slabs
<1>3. ASSUME NEW w \in Workers, NEW large \in BOOLEAN, Respond(w, large)
      PROVE  PinsKept \/ \E i \in PinSlots : Pins(w, i)
  <2> DEFINE scanned == large /\ Pinnable(w)
             claims == Claims("pins", {"body"}, scanned)
             i == (CHOOSE f \in claims : TRUE)["body"]
             v == frame[w]["body"]
  <2>1. CASE claims = {}
    BY <1>3, <2>1 DEF Respond, PinsKept
  <2>2. CASE claims # {}
    <3>1. scanned /\ i \in Free("pins")
      BY <2>2, ClaimedFree DEF Granted
    <3>2. /\ at[w] = "respond" /\ UNCHANGED heap /\ slab' = [slab EXCEPT !["pins"][i] = v]
          /\ wire' = wire \cup {[slot |-> i, value |-> v, text |-> heap[v].text]}
      BY <1>3, <2>2 DEF Respond
    <3> HIDE DEF i, v
    <3>3. i \in PinSlots /\ slab["pins"][i] = 0
      BY <3>1 DEF Free, Types
    <3>4. DOMAIN slab' = DOMAIN slab /\ slab'["pins"] = [slab["pins"] EXCEPT ![i] = v]
      BY <3>2 DEF Types, Slabs
    <3>5. Pins(w, i)
      BY <3>1, <3>2, <3>3, <3>4 DEF Pins, v
    <3>6. QED
      BY <3>3, <3>5
  <2>3. QED
    BY <2>1, <2>2
<1>4. ASSUME NEW b \in wire, DropBuf(b) PROVE Unpins(b)
  <2>1. /\ wire' = wire \ {b} /\ UNCHANGED heap
        /\ slab' = [slab EXCEPT !["pins"] = Cleared(slab["pins"], {b.slot})]
    BY <1>4 DEF DropBuf
  <2>2. DOMAIN slab' = DOMAIN slab /\ slab'["pins"] = Cleared(slab["pins"], {b.slot})
    BY <2>1 DEF Types, Slabs
  <2>3. QED
    BY <2>1, <2>2 DEF Unpins, Cleared, Types
<1>5. ASSUME NEW w \in Workers,
             Lock(w) \/ Look(w) \/ Build(w) \/ Set(w) \/ Done(w) \/ StartGC(w) \/ LocalCollect(w)
             \/ (\E shareable \in BOOLEAN : App(w, shareable))
             \/ (\E r \in Requests : TakeRequest(w, r))
      PROVE  UNCHANGED <<slab, wire>>
  BY <1>5 DEF Lock, Look, Build, Set, Done, StartGC, LocalCollect, App, TakeRequest
<1>6. ASSUME Collect \/ UNCHANGED vars PROVE UNCHANGED <<slab, wire>>
  BY <1>6 DEF Collect, vars
<1>7. QED
  BY <1>1, <1>2, <1>3, <1>4, <1>5, <1>6 DEF Next, Step

-----------------------------------------------------------------------------
(* The invariant                                                           *)

\* A worker's frame and place change in its own steps only, and nobody
\* arrives at the response but with a body it has just made.
LEMMA FrameStep ==
  ASSUME Types, [Next]_vars
  PROVE  /\ DOMAIN at' = Workers /\ DOMAIN frame' = Workers
         /\ \A w \in Workers : at'[w] = "respond" =>
              \/ at[w] = "respond" /\ frame'[w] = frame[w]
              \/ /\ "body" \in DOMAIN frame'[w] /\ frame'[w]["body"] \in DOMAIN heap'
                 /\ heap'[frame'[w]["body"]].owner = w
<1> DEFINE Goal == /\ DOMAIN at' = Workers /\ DOMAIN frame' = Workers
                   /\ \A w \in Workers : at'[w] = "respond" =>
                        \/ at[w] = "respond" /\ frame'[w] = frame[w]
                        \/ /\ "body" \in DOMAIN frame'[w] /\ frame'[w]["body"] \in DOMAIN heap'
                           /\ heap'[frame'[w]["body"]].owner = w
<1>1. CASE UNCHANGED <<at, frame>>
  BY <1>1 DEF Types
<1>2. ASSUME NEW w \in Workers,
             \E q, f : /\ q # "respond" /\ at' = [at EXCEPT ![w] = q]
                       /\ frame' = [frame EXCEPT ![w] = f] \/ UNCHANGED frame
      PROVE  Goal
  BY <1>2 DEF Types
<1>3. ASSUME NEW w \in Workers, NEW shareable \in BOOLEAN, App(w, shareable) PROVE Goal
  <2> DEFINE new == Alloc(w, Text(req[w], "body"), shareable)
  <2>1. /\ FreeCells # {} /\ heap' = new.heap /\ at' = [at EXCEPT ![w] = "respond"]
        /\ frame' = [frame EXCEPT ![w] = [p \in {"body"} |-> new.value]]
    BY <1>3 DEF App
  <2>2. PICK v : new.value = v /\ new.heap = With(v, Text(req[w], "body"), w, shareable)
    BY <2>1, Allocated
  <2>3. v \in DOMAIN heap' /\ heap'[v].owner = w
    BY <2>1, <2>2 DEF With
  <2>4. frame' = [frame EXCEPT ![w] = [p \in {"body"} |-> v]]
    BY <2>1, <2>2
  <2> HIDE DEF new
  <2>5. QED
    BY <2>1, <2>3, <2>4 DEF Types
<1>4. ASSUME NEW w \in Workers, Look(w) \/ Build(w) \/ Set(w) \/ Done(w) PROVE Goal
  <2>1. CASE Look(w)
    BY <1>2, <2>1 DEF Look
  <2>2. CASE Build(w)
    BY <1>2, <2>2 DEF Build
  <2>3. CASE Set(w)
    BY <1>2, <2>3 DEF Set
  <2>4. CASE Done(w)
    BY <1>2, <2>4 DEF Done
  <2>5. QED
    BY <1>4, <2>1, <2>2, <2>3, <2>4
<1>5. ASSUME NEW w \in Workers, NEW scanned \in BOOLEAN, Put(w, scanned) PROVE Goal
  BY <1>2, <1>5 DEF Put
<1>6. ASSUME NEW w \in Workers, NEW large \in BOOLEAN, Respond(w, large) PROVE Goal
  BY <1>2, <1>6 DEF Respond
<1>7. ASSUME NEW w \in Workers, NEW r \in Requests, TakeRequest(w, r) PROVE Goal
  BY <1>2, <1>7 DEF TakeRequest
<1>8. ASSUME NEW w \in Workers, Lock(w) \/ StartGC(w) \/ LocalCollect(w)
      PROVE  UNCHANGED <<at, frame>>
  BY <1>8 DEF Lock, StartGC, LocalCollect, workVars
<1>9. ASSUME NEW b \in wire, DropBuf(b) PROVE UNCHANGED <<at, frame>>
  BY <1>9 DEF DropBuf, workVars
<1>10. ASSUME Collect \/ UNCHANGED vars PROVE UNCHANGED <<at, frame>>
  BY <1>10 DEF Collect, vars
<1>11. QED
  BY <1>1, <1>3, <1>4, <1>5, <1>6, <1>7, <1>8, <1>9, <1>10 DEF Next, Step

\* The invariant is inductive.
LEMMA InvStep ==
  ASSUME Inv, [Next]_vars
  PROVE  Inv'
<1>0. Types /\ BodyInHand /\ Pinned /\ OwnSlot
  BY DEF Inv
<1>1. \A v \in DOMAIN heap : Safe(v) \/ (\E w \in Workers : Held(w, v)) => Survives(v)
  BY <1>0, HeapStep
<1>2. BodyInHand'
  <2>1. SUFFICES ASSUME NEW w \in Workers, at'[w] = "respond"
                 PROVE  /\ "body" \in DOMAIN frame'[w] /\ frame'[w]["body"] \in DOMAIN heap'
                        /\ heap'[frame'[w]["body"]].owner = w
    BY DEF BodyInHand
  <2>2. CASE at[w] = "respond" /\ frame'[w] = frame[w]
    <3>1. frame[w]["body"] \in DOMAIN heap /\ Held(w, frame[w]["body"])
      BY <1>0, <2>2 DEF BodyInHand, Held, Stack, Rng
    <3>2. QED
      BY <1>0, <1>1, <2>2, <3>1 DEF BodyInHand, Survives
  <2>3. QED
    BY <1>0, <2>1, <2>2, FrameStep
<1>3. ASSUME NEW b \in wire
      PROVE  /\ b.value \in DOMAIN heap' /\ heap'[b.value].text = b.text
             /\ PerRactorGC => heap'[b.value].shareable
  <2>1. b.value \in DOMAIN heap /\ Safe(b.value)
    BY <1>0 DEF Pinned, Safe, Slabs, Types
  <2>2. QED
    BY <1>0, <1>1, <2>1 DEF Pinned, Survives
<1>4. CASE PinsKept
  <2>1. Types' /\ Pinned' /\ OwnSlot'
    BY <1>0, <1>3, <1>4, HeapStep, FrameStep DEF PinsKept, Types, Pinned, OwnSlot
  <2>2. QED
    BY <1>2, <2>1 DEF Inv
<1>5. ASSUME NEW w \in Workers, NEW i \in PinSlots, Pins(w, i) PROVE Inv'
  <2> DEFINE v == frame[w]["body"]
             c == [slot |-> i, value |-> v, text |-> heap[v].text]
  <2>1. /\ v \in DOMAIN heap /\ v \in Cells /\ (PerRactorGC => heap[v].shareable)
        /\ heap' = heap /\ slab["pins"][i] = 0 /\ wire' = wire \cup {c}
        /\ DOMAIN slab' = DOMAIN slab /\ slab'["pins"] = [slab["pins"] EXCEPT ![i] = v]
    BY <1>0, <1>5 DEF Pins, Pinnable, BodyInHand, Types
  <2>2. ASSUME NEW b \in wire PROVE b.slot # i
    <3>1. b.value \in Cells /\ slab["pins"][b.slot] = b.value
      BY <1>0 DEF Pinned, Types
    <3>2. 0 \notin Cells
      BY EnvStringsAssumption
    <3>3. QED
      BY <2>1, <3>1, <3>2
  <2>3. c.slot = i /\ c.value = v /\ c.text = heap[v].text
    OBVIOUS
  <2> HIDE DEF c, v
  <2>4. Types'
    BY <1>0, <2>1, HeapStep, FrameStep DEF Types
  <2>5. Pinned'
    BY <1>0, <2>1, <2>2, <2>3 DEF Pinned, Types
  <2>6. OwnSlot'
    BY <1>0, <2>1, <2>2, <2>3 DEF OwnSlot
  <2>7. QED
    BY <1>2, <2>4, <2>5, <2>6 DEF Inv
<1>6. ASSUME NEW b \in wire, Unpins(b) PROVE Inv'
  <2>1. /\ wire' = wire \ {b} /\ heap' = heap
        /\ DOMAIN slab' = DOMAIN slab /\ slab'["pins"] \in [PinSlots -> Cells \cup {0}]
        /\ \A i \in PinSlots : i # b.slot => slab'["pins"][i] = slab["pins"][i]
    BY <1>6 DEF Unpins
  <2>2. \A a \in wire' : a \in wire /\ a.slot # b.slot
    BY <1>0, <2>1 DEF OwnSlot
  <2>3. Types'
    BY <1>0, <2>1, HeapStep, FrameStep DEF Types
  <2>4. Pinned' /\ OwnSlot'
    BY <1>0, <2>1, <2>2 DEF Pinned, OwnSlot
  <2>5. QED
    BY <1>2, <2>3, <2>4 DEF Inv
<1>7. QED
  BY <1>0, <1>4, <1>5, <1>6, SlabStep

\* For any workers, heap, slabs and requests, with one collector for all
\* ractors or one for each: a body that went out without a copy stays where it
\* is until hyper has dropped it (pin.rs:12-40, 202-228).
THEOREM PinsHold == Spec => []PinnedLive
<1>1. Init => Inv
  BY DEF Init, Inv, Types, BodyInHand, Pinned, OwnSlot, Slabs
<1>2. Inv /\ [Next]_vars => Inv'
  BY InvStep
<1>3. Inv => PinnedLive
  BY DEF Inv, Pinned, PinnedLive
<1>4. QED
  BY <1>1, <1>2, <1>3, PTL DEF Spec

-----------------------------------------------------------------------------
(* The caches: what the inductive invariant says of them                   *)

Keys == {Key(r) : r \in Requests}

\* the parts an entry of a cache holds
Shapes(c) == IF c = "values" THEN {{"value"}} ELSE {{"pair"}, {"pair", "host"}}

Entries(c) ==
  UNION {[key : Keys, value : [ps -> Cells], slot : [ps -> CacheSlots]] : ps \in Shapes(c)}

Members(c) == Rng(cache[c])

Distinct(s) == \A i, j \in 1..Len(s) : s[i] = s[j] => i = j

\* a cache is a sequence of its entries, none twice, within its capacity
Sound(c) == cache[c] \in Seq(Entries(c)) /\ Len(cache[c]) <= Cap(c) /\ Distinct(cache[c])

CacheTypes ==
  /\ DOMAIN cache = Caches /\ DOMAIN lock = Caches
  /\ slab["caches"] \in [CacheSlots -> Cells \cup {0}]
  /\ \A c \in Caches :
       Sound(c) /\ lock[c] \in Workers \cup {NoOne}
  /\ gc \in Workers \cup {NoOne} /\ left \in 0..MaxRequests

\* Every cached string is in the slot its entry names,
RootsHeld ==
  \A c \in Caches : \A e \in Members(c) : \A p \in DOMAIN e.value :
    slab["caches"][e.slot[p]] = e.value[p]

\* which no other cached string has,
RootsOwn ==
  \A c, d \in Caches : \A e \in Members(c), f \in Members(d) :
    \A p \in DOMAIN e.value, q \in DOMAIN f.value :
      e.slot[p] = f.slot[q] => c = d /\ e = f /\ p = q

\* and the other slots are empty.
RootsUsed ==
  \A i \in CacheSlots : slab["caches"][i] # 0 =>
    \E c \in Caches : \E e \in Members(c) : \E p \in DOMAIN e.value : e.slot[p] = i

\* alive, and spared by every ractor's own collection
Lasting(v) == v \in DOMAIN heap /\ heap[v].shareable

CacheSays ==
  \A c \in Caches : \A e \in Members(c) : \A p \in DOMAIN e.value :
    Lasting(e.value[p]) /\ Says(e.value[p], e.key, p)

\* v may stand for part p in a worker's hands
Fits(w, p, v) ==
  /\ v \in DOMAIN heap /\ (heap[v].shareable \/ heap[v].owner = w)
  /\ IF p = "pair" THEN Says(v, Key(req[w]), p) ELSE heap[v].text = Text(req[w], p)

\* Each string in a worker's hands is alive and says what its request says,
Hand(w) ==
  /\ \A p \in DOMAIN frame[w] : Fits(w, p, frame[w][p])
  /\ \A p \in DOMAIN env[w] : Fits(w, p, env[w][p])

\* and where the worker stands says which of them it has.
Stand(w) ==
  /\ frame[w] \in [DOMAIN frame[w] -> Cells]
  /\ at[w] # "env" => DOMAIN env[w] = {}
  /\ at[w] \in {"idle", "look", "app", "env"} => DOMAIN frame[w] = {}
  /\ at[w] \in {"look", "build", "put", "set"} =>
       /\ req[w] \in Requests
       /\ \A p \in DOMAIN frame[w] : p \in Wanted(req[w]) /\ Lasting(frame[w][p])
  /\ at[w] = "build" => \E p \in Wanted(req[w]) : p \notin DOMAIN frame[w]
  /\ at[w] = "put" => DOMAIN frame[w] = Wanted(req[w])
  /\ at[w] \in {"build", "put"} /\ hit[w] => req[w].via = "authority"

Hands ==
  /\ DOMAIN env = Workers /\ DOMAIN req = Workers /\ DOMAIN hit = Workers
  /\ \A w \in Workers : Hand(w) /\ Stand(w)

CacheInv == Inv /\ CacheTypes /\ RootsHeld /\ RootsOwn /\ RootsUsed /\ CacheSays /\ Hands

-----------------------------------------------------------------------------
(* A cache as a sequence: what a lookup, a store and an eviction do to its *)
(* members.                                                                *)

\* A sequence and the set of its elements.
LEMMA SeqFacts ==
  ASSUME NEW S, NEW s \in Seq(S)
  PROVE  /\ DOMAIN s = 1..Len(s) /\ Len(s) \in Nat /\ Rng(s) = {s[i] : i \in 1..Len(s)}
         /\ Rng(s) \subseteq S /\ \A i \in 1..Len(s) : s[i] \in S
<1>1. DOMAIN s = 1..Len(s) /\ Len(s) \in Nat /\ \A i \in 1..Len(s) : s[i] \in S
  BY LenProperties, ElementOfSeq
<1>2. QED
  BY <1>1 DEF Rng

\* A new entry goes to the front.
LEMMA InFront ==
  ASSUME NEW S, NEW s \in Seq(S), NEW n \in S, Distinct(s)
  PROVE  /\ <<n>> \o s \in Seq(S) /\ Len(<<n>> \o s) = Len(s) + 1
         /\ Rng(<<n>> \o s) = {n} \cup Rng(s)
         /\ n \notin Rng(s) => Distinct(<<n>> \o s)
<1> DEFINE t == <<n>> \o s
           m == Len(s)
<1>1. m \in Nat /\ Rng(s) = {s[i] : i \in 1..m}
  BY SeqFacts
<1>2. <<n>> \in Seq(S) /\ Len(<<n>>) = 1 /\ <<n>>[1] = n
  OBVIOUS
<1>3. /\ t \in Seq(S) /\ Len(t) = m + 1
      /\ \A i \in 1..(m + 1) : t[i] = IF i <= 1 THEN <<n>>[i] ELSE s[i - 1]
  <2>1. /\ t \in Seq(S) /\ Len(t) = Len(<<n>>) + Len(s)
        /\ \A i \in 1..(Len(<<n>>) + Len(s)) :
             t[i] = IF i <= Len(<<n>>) THEN <<n>>[i] ELSE s[i - Len(<<n>>)]
    BY <1>2, ConcatProperties
  <2> HIDE DEF t
  <2>2. QED
    BY <1>1, <1>2, <2>1
<1>4. Rng(t) = {t[i] : i \in 1..(m + 1)}
  BY <1>3, SeqFacts
<1> HIDE DEF t, m
<1>5. t[1] = n /\ \A i \in 1..m : t[i + 1] = s[i] /\ i + 1 \in 1..(m + 1)
  BY <1>1, <1>2, <1>3
<1>6. \A i \in 1..(m + 1) : i = 1 \/ (i - 1 \in 1..m /\ (i - 1) + 1 = i)
  BY <1>1
<1>7. 1 \in 1..(m + 1)
  BY <1>1
<1>8. Rng(t) = {n} \cup Rng(s)
  <2>1. ASSUME NEW x \in Rng(t) PROVE x \in {n} \cup Rng(s)
    <3>1. PICK i \in 1..(m + 1) : x = t[i]
      BY <1>4
    <3>2. CASE i = 1
      BY <1>5, <3>1, <3>2
    <3>3. CASE i - 1 \in 1..m /\ (i - 1) + 1 = i
      BY <1>1, <1>5, <3>1, <3>3
    <3>4. QED
      BY <1>6, <3>2, <3>3
  <2>2. ASSUME NEW x \in {n} \cup Rng(s) PROVE x \in Rng(t)
    BY <1>1, <1>4, <1>5, <1>7
  <2>3. QED
    BY <2>1, <2>2
<1>9. ASSUME n \notin Rng(s) PROVE Distinct(t)
  <2> SUFFICES ASSUME NEW i \in 1..(m + 1), NEW j \in 1..(m + 1), t[i] = t[j] PROVE i = j
    BY <1>3 DEF Distinct
  <2>1. \A k \in 1..m : s[k] \in Rng(s)
    BY <1>1
  <2>2. CASE i = 1 /\ j # 1
    BY <1>5, <1>6, <1>9, <2>1, <2>2
  <2>3. CASE i # 1 /\ j = 1
    BY <1>5, <1>6, <1>9, <2>1, <2>3
  <2>4. CASE i # 1 /\ j # 1
    <3>1. i - 1 \in 1..m /\ j - 1 \in 1..m /\ t[i] = s[i - 1] /\ t[j] = s[j - 1]
      BY <1>5, <1>6, <2>4
    <3>2. i - 1 = j - 1
      BY <3>1 DEF Distinct, m
    <3>3. QED
      BY <3>2
  <2>5. QED
    BY <2>2, <2>3, <2>4
<1>10. QED
  BY <1>3, <1>8, <1>9 DEF t, m

\* Taking one position out.
LEMMA Without ==
  ASSUME NEW S, NEW s \in Seq(S), NEW k \in 1..Len(s), Distinct(s)
  PROVE  /\ RemoveAt(s, k) \in Seq(S) /\ Len(RemoveAt(s, k)) = Len(s) - 1
         /\ Rng(RemoveAt(s, k)) = Rng(s) \ {s[k]} /\ Distinct(RemoveAt(s, k))
<1> DEFINE t == RemoveAt(s, k)
           m == Len(s)
           a == SubSeq(s, 1, k - 1)
           b == SubSeq(s, k + 1, Len(s))
<1>0. m \in Nat /\ Rng(s) = {s[i] : i \in 1..m}
  BY SeqFacts
<1>1. a \in Seq(S) /\ Len(a) = k - 1 /\ \A j \in 1..(k - 1) : a[j] = s[j]
  BY <1>0, SubSeqProperties
<1>2. b \in Seq(S) /\ Len(b) = m - k /\ \A j \in 1..(m - k) : b[j] = s[k + j]
  BY <1>0, SubSeqProperties
<1>3. t = a \o b
  BY DEF RemoveAt
<1> HIDE DEF a, b, t
<1>4. /\ t \in Seq(S) /\ Len(t) = Len(a) + Len(b)
      /\ \A j \in 1..(Len(a) + Len(b)) : t[j] = IF j <= Len(a) THEN a[j] ELSE b[j - Len(a)]
  BY <1>1, <1>2, <1>3, ConcatProperties
<1> HIDE DEF m
<1>5. k \in 1..m
  BY DEF m
<1>6. /\ Len(t) = m - 1
      /\ \A j \in 1..(m - 1) : j < k => t[j] = s[j]
      /\ \A j \in 1..(m - 1) : ~(j < k) => t[j] = s[j + 1]
  <2>1. Len(t) = m - 1
    BY <1>0, <1>1, <1>2, <1>4, <1>5
  <2>2. ASSUME NEW j \in 1..(m - 1), j < k PROVE t[j] = s[j]
    BY <1>0, <1>1, <1>2, <1>4, <1>5, <2>2
  <2>3. ASSUME NEW j \in 1..(m - 1), ~(j < k) PROVE t[j] = s[j + 1]
    <3>1. j - (k - 1) \in 1..(m - k) /\ k + (j - (k - 1)) = j + 1
      BY <1>0, <1>5, <2>3
    <3>2. t[j] = b[j - (k - 1)]
      BY <1>0, <1>1, <1>2, <1>4, <1>5, <2>3
    <3>3. QED
      BY <1>2, <3>1, <3>2
  <2>4. QED
    BY <2>1, <2>2, <2>3
<1>7. Rng(t) = {t[i] : i \in 1..(m - 1)}
  BY <1>4, <1>6, SeqFacts
<1>8. \A i, j \in 1..m : s[i] = s[j] => i = j
  BY DEF Distinct, m
<1>9. Rng(t) = Rng(s) \ {s[k]}
  <2>1. ASSUME NEW x \in Rng(t) PROVE x \in Rng(s) \ {s[k]}
    <3>1. PICK i \in 1..(m - 1) : x = t[i]
      BY <1>7
    <3>2. CASE i < k
      <4>1. i \in 1..m /\ i # k /\ x = s[i]
        BY <1>0, <1>5, <1>6, <3>1, <3>2
      <4>2. QED
        BY <1>0, <1>5, <1>8, <4>1
    <3>3. CASE ~(i < k)
      <4>1. i + 1 \in 1..m /\ i + 1 # k /\ x = s[i + 1]
        BY <1>0, <1>5, <1>6, <3>1, <3>3
      <4>2. QED
        BY <1>0, <1>5, <1>8, <4>1
    <3>4. QED
      BY <3>2, <3>3
  <2>2. ASSUME NEW x \in Rng(s) \ {s[k]} PROVE x \in Rng(t)
    <3>1. PICK i \in 1..m : x = s[i] /\ i # k
      BY <1>0
    <3>2. CASE i < k
      <4>1. i \in 1..(m - 1) /\ t[i] = s[i]
        BY <1>0, <1>5, <1>6, <3>2
      <4>2. QED
        BY <1>7, <3>1, <4>1
    <3>3. CASE ~(i < k)
      <4>1. i - 1 \in 1..(m - 1) /\ ~(i - 1 < k) /\ (i - 1) + 1 = i
        BY <1>0, <1>5, <3>1, <3>3
      <4>2. t[i - 1] = s[i]
        BY <1>6, <4>1
      <4>3. QED
        BY <1>7, <3>1, <4>1, <4>2
    <3>4. QED
      BY <3>2, <3>3
  <2>3. QED
    BY <2>1, <2>2
<1>10. Distinct(t)
  <2> SUFFICES ASSUME NEW i \in 1..(m - 1), NEW j \in 1..(m - 1), t[i] = t[j] PROVE i = j
    BY <1>6 DEF Distinct
  <2>1. PICK x \in 1..m : t[i] = s[x] /\ ((i < k /\ x = i) \/ (~(i < k) /\ x = i + 1))
    BY <1>0, <1>5, <1>6
  <2>2. PICK y \in 1..m : t[j] = s[y] /\ ((j < k /\ y = j) \/ (~(j < k) /\ y = j + 1))
    BY <1>0, <1>5, <1>6
  <2>3. x = y
    BY <1>8, <2>1, <2>2
  <2>4. QED
    BY <1>0, <1>5, <2>1, <2>2, <2>3
<1>11. QED
  BY <1>4, <1>6, <1>9, <1>10 DEF t, m

\* The eviction's SubSeq is the removal of the last position.
LEMMA WithoutLast ==
  ASSUME NEW S, NEW s \in Seq(S), NEW m \in Nat \ {0}, Len(s) = m
  PROVE  RemoveAt(s, m) = SubSeq(s, 1, m - 1)
<1> DEFINE a == SubSeq(s, 1, m - 1)
<1>1. a \in Seq(S)
  BY SubSeqProperties
<1>2. SubSeq(s, m + 1, Len(s)) = <<>>
  BY SubSeqProperties
<1>3. a \o <<>> = a
  BY <1>1, ConcatEmptySeq
<1>4. QED
  BY <1>2, <1>3 DEF RemoveAt

-----------------------------------------------------------------------------
(* The caches and their slab                                               *)

\* What a request wants is what an entry of its cache may hold.
LEMMA RequestFacts ==
  ASSUME NEW r \in Requests
  PROVE  /\ CacheOf(r) \in Caches /\ Key(r) \in Keys
         /\ \/ CacheOf(r) = "values" /\ r.via = "value" /\ Wanted(r) = {"value"}
            \/ CacheOf(r) = "hosts" /\ r.via = "authority" /\ Wanted(r) = {"pair", "host"}
            \/ CacheOf(r) = "hosts" /\ r.via # "value" /\ Wanted(r) = {"pair"}
         /\ Wanted(r) \in Shapes(CacheOf(r))
<1>1. r.via \in {"authority", "host", "socket", "value", "body"}
  BY EnvStringsAssumption
<1>2. CacheOf(r) \in Caches /\ Key(r) \in Keys
  BY DEF CacheOf, Caches, Keys
<1>3. QED
  BY <1>1, <1>2 DEF CacheOf, Wanted, Shapes

\* The fields of an entry.
LEMMA EntryFacts ==
  ASSUME NEW c \in Caches, NEW e \in Entries(c)
  PROVE  /\ e.key \in Keys /\ DOMAIN e.value \in Shapes(c)
         /\ e.value \in [DOMAIN e.value -> Cells] /\ e.slot \in [DOMAIN e.value -> CacheSlots]
         /\ c = "values" => DOMAIN e.value = {"value"}
         /\ c = "hosts" => "pair" \in DOMAIN e.value /\ DOMAIN e.value \subseteq {"pair", "host"}
<1>1. PICK ps \in Shapes(c) :
        e \in [key : Keys, value : [ps -> Cells], slot : [ps -> CacheSlots]]
  BY DEF Entries
<1>2. /\ e.key \in Keys /\ DOMAIN e.value = ps
      /\ e.value \in [ps -> Cells] /\ e.slot \in [ps -> CacheSlots]
  BY <1>1
<1>3. QED
  BY <1>2 DEF Shapes

\* An entry made of fitting fields.
LEMMA EntryMade ==
  ASSUME NEW c \in Caches, NEW k \in Keys, NEW ps \in Shapes(c), NEW f \in [ps -> Cells],
         NEW g \in [ps -> CacheSlots]
  PROVE  /\ [key |-> k, value |-> f, slot |-> g] \in Entries(c)
  BY DEF Entries

\* What a lookup finds.
LEMMA FoundFacts ==
  ASSUME CacheTypes, NEW c \in Caches, NEW k, Found(c, k)
  PROVE  /\ Place(c, k) \in 1..Len(cache[c]) /\ Entry(c, k) = cache[c][Place(c, k)]
         /\ Entry(c, k) \in Members(c) /\ Entry(c, k).key = k /\ Entry(c, k) \in Entries(c)
<1>1. cache[c] \in Seq(Entries(c))
  BY DEF CacheTypes, Sound
<1>2. DOMAIN cache[c] = 1..Len(cache[c]) /\ \A i \in 1..Len(cache[c]) : cache[c][i] \in Entries(c)
  BY <1>1, SeqFacts
<1>3. Place(c, k) \in DOMAIN cache[c] /\ cache[c][Place(c, k)].key = k
  BY DEF Found, Place
<1>4. QED
  BY <1>2, <1>3 DEF Entry, Members, Rng

\* A lookup, with the entry as it is or as it becomes.
LEMMA PromotedFacts ==
  ASSUME CacheTypes, NEW c \in Caches, NEW k, Found(c, k), NEW n \in Entries(c), n.key = k,
         n \notin Members(c) \ {Entry(c, k)}
  PROVE  /\ Promoted(c, n) \in Seq(Entries(c)) /\ Len(Promoted(c, n)) = Len(cache[c])
         /\ Distinct(Promoted(c, n))
         /\ Rng(Promoted(c, n)) = {n} \cup (Members(c) \ {Entry(c, k)})
<1> DEFINE s == cache[c]
           i == Place(c, k)
           t == RemoveAt(s, i)
<1>1. s \in Seq(Entries(c)) /\ Distinct(s) /\ Len(s) \in Nat
  BY SeqFacts DEF CacheTypes, Sound
<1>2. i \in 1..Len(s) /\ Entry(c, k) = s[i]
  BY FoundFacts
<1>3. Promoted(c, n) = <<n>> \o t
  BY DEF Promoted
<1> HIDE DEF s, i
<1>4. t \in Seq(Entries(c)) /\ Len(t) = Len(s) - 1 /\ Rng(t) = Rng(s) \ {s[i]} /\ Distinct(t)
  BY <1>1, <1>2, Without
<1> HIDE DEF t
<1>5. Rng(s) = Members(c)
  BY DEF Members, s
<1>6. n \notin Rng(t)
  BY <1>2, <1>4, <1>5
<1>7. /\ <<n>> \o t \in Seq(Entries(c)) /\ Len(<<n>> \o t) = Len(t) + 1
      /\ Rng(<<n>> \o t) = {n} \cup Rng(t) /\ Distinct(<<n>> \o t)
  BY <1>4, <1>6, InFront
<1>8. Len(t) + 1 = Len(s)
  BY <1>1, <1>4
<1>9. QED
  BY <1>2, <1>3, <1>4, <1>5, <1>7, <1>8 DEF s

\* A cache in which n takes the place of out: n's strings are in slots that
\* were free or are out's for the same part, out's other slots are cleared,
\* and the rest of the slab is as it was.
Replaced(c, out, n) ==
  LET old == slab["caches"]
      new == slab'["caches"] IN
  /\ c \in Caches /\ out \subseteq Members(c) /\ n \in Entries(c)
  /\ Members(c)' = {n} \cup (Members(c) \ out)
  /\ \A d \in Caches : d # c => Members(d)' = Members(d)
  /\ new \in [CacheSlots -> Cells \cup {0}]
  /\ \A p, q \in DOMAIN n.value : n.slot[p] = n.slot[q] => p = q
  /\ \A p \in DOMAIN n.value :
       /\ new[n.slot[p]] = n.value[p]
       /\ \/ old[n.slot[p]] = 0
          \/ \E e \in out : p \in DOMAIN e.value /\ e.slot[p] = n.slot[p]
  /\ \A i \in CacheSlots : (\A p \in DOMAIN n.value : n.slot[p] # i) =>
       \/ new[i] = 0 /\ \E e \in out : \E p \in DOMAIN e.value : e.slot[p] = i
       \/ new[i] = old[i] /\ \A e \in out : \A p \in DOMAIN e.value : e.slot[p] # i

\* No string of an entry that stays shares a slot with the new entry or with
\* the one that goes.
LEMMA StaysApart ==
  ASSUME CacheTypes, RootsHeld, RootsOwn, NEW c, NEW out, NEW n, Replaced(c, out, n),
         NEW d \in Caches, NEW f \in Members(d), ~(d = c /\ f \in out), NEW q \in DOMAIN f.value
  PROVE  /\ f.slot[q] \in CacheSlots /\ f.value[q] \in Cells
         /\ \A p \in DOMAIN n.value : n.slot[p] # f.slot[q]
         /\ \A e \in out : \A p \in DOMAIN e.value : e.slot[p] # f.slot[q]
<1>1. cache[d] \in Seq(Entries(d))
  BY DEF CacheTypes, Sound
<1>2. f \in Entries(d)
  BY <1>1, SeqFacts DEF Members
<1>3. f.slot[q] \in CacheSlots /\ f.value[q] \in Cells
  BY <1>2, EntryFacts
<1>4. slab["caches"][f.slot[q]] # 0
  BY <1>3, EnvStringsAssumption DEF RootsHeld
<1>5. \A e \in out : \A p \in DOMAIN e.value : e.slot[p] # f.slot[q]
  BY DEF Replaced, RootsOwn
<1>6. \A p \in DOMAIN n.value : n.slot[p] # f.slot[q]
  BY <1>4, <1>5 DEF Replaced
<1>7. QED
  BY <1>3, <1>5, <1>6

\* The slab and the caches agree after a replacement.
LEMMA ReplacedRoots ==
  ASSUME CacheTypes, RootsHeld, RootsOwn, RootsUsed, NEW c, NEW out, NEW n, Replaced(c, out, n)
  PROVE  RootsHeld' /\ RootsOwn' /\ RootsUsed'
<1>1. ASSUME NEW d \in Caches, NEW f \in Members(d)'
      PROVE  (d = c /\ f = n) \/ (f \in Members(d) /\ ~(d = c /\ f \in out))
  BY <1>1 DEF Replaced
<1>2. RootsHeld'
  <2> SUFFICES ASSUME NEW d \in Caches, NEW f \in Members(d)', NEW q \in DOMAIN f.value
               PROVE  slab'["caches"][f.slot[q]] = f.value[q]
    BY DEF RootsHeld
  <2>1. CASE d = c /\ f = n
    BY <2>1 DEF Replaced
  <2>2. CASE f \in Members(d) /\ ~(d = c /\ f \in out)
    <3>1. /\ f.slot[q] \in CacheSlots /\ \A p \in DOMAIN n.value : n.slot[p] # f.slot[q]
          /\ \A e \in out : \A p \in DOMAIN e.value : e.slot[p] # f.slot[q]
      BY <2>2, StaysApart
    <3>2. slab'["caches"][f.slot[q]] = slab["caches"][f.slot[q]]
      BY <3>1 DEF Replaced
    <3>3. QED
      BY <2>2, <3>2 DEF RootsHeld
  <2>3. QED
    BY <1>1, <2>1, <2>2
<1>3. RootsOwn'
  <2> SUFFICES ASSUME NEW d \in Caches, NEW b \in Caches, NEW e \in Members(d)',
                      NEW f \in Members(b)', NEW p \in DOMAIN e.value, NEW q \in DOMAIN f.value,
                      e.slot[p] = f.slot[q]
               PROVE  d = b /\ e = f /\ p = q
    BY DEF RootsOwn
  <2>1. CASE d = c /\ e = n /\ b = c /\ f = n
    BY <2>1 DEF Replaced
  <2>2. CASE d = c /\ e = n /\ f \in Members(b) /\ ~(b = c /\ f \in out)
    BY <2>2, StaysApart
  <2>3. CASE b = c /\ f = n /\ e \in Members(d) /\ ~(d = c /\ e \in out)
    <3>1. \A x \in DOMAIN n.value : n.slot[x] # e.slot[p]
      BY <2>3, StaysApart
    <3>2. QED
      BY <2>3, <3>1
  <2>4. CASE e \in Members(d) /\ f \in Members(b)
    BY <2>4 DEF RootsOwn
  <2>5. QED
    BY <1>1, <2>1, <2>2, <2>3, <2>4
<1>4. RootsUsed'
  <2> SUFFICES ASSUME NEW i \in CacheSlots, slab'["caches"][i] # 0
               PROVE  \E d \in Caches : \E f \in Members(d)' : \E q \in DOMAIN f.value : f.slot[q] = i
    BY DEF RootsUsed
  <2>1. CASE \E p \in DOMAIN n.value : n.slot[p] = i
    <3>1. c \in Caches /\ n \in Members(c)'
      BY DEF Replaced
    <3>2. QED
      BY <2>1, <3>1
  <2>2. CASE \A p \in DOMAIN n.value : n.slot[p] # i
    <3>1. /\ slab["caches"][i] # 0
          /\ \A e \in out : \A p \in DOMAIN e.value : e.slot[p] # i
      BY <2>2 DEF Replaced
    <3>2. PICK d \in Caches : \E f \in Members(d) : \E q \in DOMAIN f.value : f.slot[q] = i
      BY <3>1 DEF RootsUsed
    <3>3. PICK f \in Members(d) : \E q \in DOMAIN f.value : f.slot[q] = i
      BY <3>2
    <3>4. f \notin out
      BY <3>1, <3>3
    <3>5. f \in Members(d)'
      BY <3>4 DEF Replaced
    <3>6. QED
      BY <3>3, <3>5
  <2>3. QED
    BY <2>1, <2>2
<1>5. QED
  BY <1>2, <1>3, <1>4

\* The caches and their slab stay as they are, whatever the order of use.
EntriesKept ==
  slab'["caches"] = slab["caches"] /\ \A c \in Caches : Sound(c)' /\ Members(c)' = Members(c)

\* One entry is stored or extended, by strings that last and say its key.
EntryChanged ==
  /\ \A c \in Caches : Sound(c)'
  /\ \E c, out, n :
       /\ Replaced(c, out, n)
       /\ \A p \in DOMAIN n.value : Lasting(n.value[p]) /\ Says(n.value[p], n.key, p)

\* Only one cache is assigned.
LEMMA OneCache ==
  ASSUME CacheTypes, NEW c \in Caches, NEW s, cache' = [cache EXCEPT ![c] = s],
         s \in Seq(Entries(c)), Len(s) <= Cap(c), Distinct(s)
  PROVE  /\ Members(c)' = Rng(s) /\ \A d \in Caches : Sound(d)'
         /\ \A d \in Caches : d # c => Members(d)' = Members(d)
<1>1. cache'[c] = s /\ \A d \in Caches : d # c => cache'[d] = cache[d]
  BY DEF CacheTypes
<1>2. QED
  BY <1>1 DEF Sound, Members, CacheTypes

\* A lookup that finds an entry promotes it and nothing else.
LEMMA PromotionKeeps ==
  ASSUME CacheTypes, NEW c \in Caches, NEW k, Found(c, k), UNCHANGED slab,
         cache' = [cache EXCEPT ![c] = Promoted(c, Entry(c, k))]
  PROVE  EntriesKept
<1> DEFINE e == Entry(c, k)
<1>1. e \in Members(c) /\ e.key = k /\ e \in Entries(c)
  BY FoundFacts
<1>2. /\ Promoted(c, e) \in Seq(Entries(c)) /\ Len(Promoted(c, e)) = Len(cache[c])
      /\ Distinct(Promoted(c, e)) /\ Rng(Promoted(c, e)) = {e} \cup (Members(c) \ {e})
  BY <1>1, PromotedFacts
<1>3. Len(cache[c]) <= Cap(c)
  BY DEF CacheTypes, Sound
<1> HIDE DEF e
<1>4. cache' = [cache EXCEPT ![c] = Promoted(c, e)]
  BY DEF e
<1>5. /\ Members(c)' = Rng(Promoted(c, e)) /\ \A d \in Caches : Sound(d)'
      /\ \A d \in Caches : d # c => Members(d)' = Members(d)
  BY <1>2, <1>3, <1>4, OneCache
<1>6. QED
  BY <1>1, <1>2, <1>5 DEF EntriesKept

\* No entry names a free slot.
LEMMA FreeUnnamed ==
  ASSUME CacheTypes, RootsHeld, NEW c \in Caches, NEW e \in Members(c), NEW p \in DOMAIN e.value
  PROVE  e.slot[p] \in CacheSlots /\ slab["caches"][e.slot[p]] # 0
<1>1. cache[c] \in Seq(Entries(c))
  BY DEF CacheTypes, Sound
<1>2. e \in Entries(c)
  BY <1>1, SeqFacts DEF Members
<1>3. e.slot[p] \in CacheSlots /\ e.value[p] \in Cells
  BY <1>2, EntryFacts
<1>4. QED
  BY <1>3, EnvStringsAssumption DEF RootsHeld

\* A value or a host says its key's text.
LEMMA PlainSays ==
  ASSUME NEW v, NEW k, NEW p, p # "pair"
  PROVE  Says(v, k, p) <=> heap[v].text = k[2]
  BY DEF Says

\* What a worker is about to put into a cache.
LEMMA PutFacts ==
  ASSUME CacheInv, NEW w \in Workers, at[w] = "put"
  PROVE  LET r == req[w] IN
         /\ r \in Requests /\ DOMAIN frame[w] = Wanted(r) /\ frame[w] \in [Wanted(r) -> Cells]
         /\ hit[w] => r.via = "authority"
         /\ \A p \in Wanted(r) : Lasting(frame[w][p]) /\ Says(frame[w][p], Key(r), p)
<1> DEFINE r == req[w]
<1>1. /\ r \in Requests /\ DOMAIN frame[w] = Wanted(r) /\ frame[w] \in [Wanted(r) -> Cells]
      /\ hit[w] => r.via = "authority"
      /\ \A p \in Wanted(r) : Lasting(frame[w][p]) /\ Fits(w, p, frame[w][p])
  BY DEF CacheInv, Hands, Hand, Stand
<1>2. ASSUME NEW p \in Wanted(r) PROVE Says(frame[w][p], Key(r), p)
  <2>1. CASE p = "pair"
    BY <1>1, <2>1 DEF Fits
  <2>2. CASE p # "pair"
    <3>1. r.via \in {"value", "authority"}
      BY <1>1, <2>2, RequestFacts
    <3>2. Key(r)[2] = r.text /\ Text(r, p) = r.text
      BY <2>2, <3>1 DEF Key, Text
    <3>3. heap[frame[w][p]].text = Text(r, p)
      BY <1>1, <2>2 DEF Fits
    <3>4. QED
      BY <2>2, <3>2, <3>3, PlainSays
  <2>3. QED
    BY <2>1, <2>2
<1>3. QED
  BY <1>1, <1>2

\* Storing what a worker built.
LEMMA InsertStep ==
  ASSUME CacheInv, NEW w \in Workers, at[w] = "put", NEW scanned \in BOOLEAN,
         NEW c, c = CacheOf(req[w]), Insert(w, c, Key(req[w]), frame[w], scanned)
  PROVE  EntriesKept \/ EntryChanged
<1> DEFINE r == req[w]
           k == Key(r)
           strs == frame[w]
           ps == DOMAIN strs
           claims == Claims("caches", ps, scanned)
           g == Granted("caches", ps, scanned)
           s == cache[c]
           full == Len(s) = Cap(c)
           kept == IF full THEN SubSeq(s, 1, Cap(c) - 1) ELSE s
           gone == IF full THEN Slots(s[Cap(c)]) ELSE {}
           out == IF full THEN {s[Cap(c)]} ELSE {}
           n == [key |-> k, value |-> strs, slot |-> g]
           root == [i \in CacheSlots |->
                      IF \E p \in ps : g[p] = i
                      THEN strs[CHOOSE p \in ps : g[p] = i]
                      ELSE slab["caches"][i]]
<1>0. CacheTypes /\ RootsHeld /\ RootsOwn /\ Types
  BY DEF CacheInv, Inv
<1>1. /\ r \in Requests /\ ps = Wanted(r) /\ strs \in [ps -> Cells]
      /\ \A p \in ps : Lasting(strs[p]) /\ Says(strs[p], k, p)
  BY PutFacts
<1>2. /\ c \in Caches /\ k \in Keys /\ ps \in Shapes(c)
      /\ (ps = {"value", "value"} \/ ps = {"pair", "host"} \/ ps = {"pair", "pair"})
  BY <1>1, RequestFacts
<1>3. CASE claims = {}
  <2>1. UNCHANGED <<slab, cache>>
    BY <1>3 DEF Insert
  <2>2. EntriesKept
    BY <1>0, <2>1 DEF EntriesKept, CacheTypes, Sound, Members
  <2>3. QED
    BY <2>2
<1>4. CASE claims # {}
  <2>1. /\ slab' = [slab EXCEPT !["caches"] = Cleared(root, gone)]
        /\ cache' = [cache EXCEPT ![c] = <<n>> \o kept]
    BY <1>4 DEF Insert, Granted
  <2>2. g \in [ps -> Free("caches")] /\ \A x, y \in ps : g[x] = g[y] => x = y
    <3> HIDE DEF ps
    <3>1. \E p, q : ps = {p, q}
      BY <1>2
    <3>2. QED
      BY <1>4, <3>1, ClaimedSlots
  <2> HIDE DEF g, claims, strs, ps, k, r
  <2>3. Free("caches") = {i \in CacheSlots : slab["caches"][i] = 0}
    BY <1>0 DEF Free, CacheTypes
  <2>4. /\ g \in [ps -> CacheSlots] /\ \A p \in ps : slab["caches"][g[p]] = 0
    BY <2>2, <2>3
  <2>5. n \in Entries(c) /\ n.key = k /\ n.value = strs /\ n.slot = g /\ DOMAIN n.value = ps
    BY <1>1, <1>2, <2>4, EntryMade DEF ps
  <2>6. s \in Seq(Entries(c)) /\ Len(s) <= Cap(c) /\ Distinct(s) /\ Len(s) \in Nat
    BY <1>0, <1>2, SeqFacts DEF CacheTypes, Sound
  <2>7. Cap(c) \in Nat \ {0}
    BY EnvStringsAssumption DEF Cap
  <2>8. n \notin Members(c)
    <3>1. PICK p \in ps : TRUE
      BY <1>2
    <3>2. QED
      BY <1>0, <1>2, <2>4, <2>5, <3>1, FreeUnnamed
  <2> HIDE DEF n
  <2>9. /\ kept \in Seq(Entries(c)) /\ Len(kept) <= Cap(c) - 1 /\ Len(kept) \in Nat
        /\ Distinct(kept) /\ out \subseteq Members(c) /\ Rng(kept) = Members(c) \ out
    <3>1. CASE full
      <4>1. RemoveAt(s, Cap(c)) = SubSeq(s, 1, Cap(c) - 1)
        BY <2>6, <2>7, <3>1, WithoutLast
      <4>2. Cap(c) \in 1..Len(s)
        BY <2>7, <3>1
      <4>3. /\ RemoveAt(s, Cap(c)) \in Seq(Entries(c))
            /\ Len(RemoveAt(s, Cap(c))) = Len(s) - 1
            /\ Rng(RemoveAt(s, Cap(c))) = Rng(s) \ {s[Cap(c)]} /\ Distinct(RemoveAt(s, Cap(c)))
        BY <2>6, <4>2, Without
      <4>4. s[Cap(c)] \in Rng(s)
        BY <2>6, <4>2, SeqFacts
      <4>5. QED
        BY <2>7, <3>1, <4>1, <4>3, <4>4 DEF Members
    <3>2. CASE ~full
      BY <2>6, <2>7, <3>2 DEF Members
    <3>3. QED
      BY <3>1, <3>2
  <2>10. gone = UNION {Slots(e) : e \in out}
    OBVIOUS
  <2> HIDE DEF kept, gone, out, full
  <2>11. /\ <<n>> \o kept \in Seq(Entries(c)) /\ Len(<<n>> \o kept) = Len(kept) + 1
         /\ Rng(<<n>> \o kept) = {n} \cup Rng(kept) /\ Distinct(<<n>> \o kept)
    BY <2>5, <2>8, <2>9, InFront
  <2>12. Len(kept) + 1 <= Cap(c)
    BY <2>7, <2>9
  <2>13. /\ Members(c)' = {n} \cup (Members(c) \ out) /\ \A d \in Caches : Sound(d)'
         /\ \A d \in Caches : d # c => Members(d)' = Members(d)
    <3> DEFINE t == <<n>> \o kept
    <3>1. /\ t \in Seq(Entries(c)) /\ Len(t) <= Cap(c) /\ Distinct(t)
          /\ Rng(t) = {n} \cup (Members(c) \ out) /\ cache' = [cache EXCEPT ![c] = t]
      BY <2>1, <2>9, <2>11, <2>12
    <3> HIDE DEF t
    <3>2. QED
      BY <1>0, <1>2, <3>1, OneCache
  <2>14. \A i \in CacheSlots :
           i \in gone <=> \E e \in out : \E p \in DOMAIN e.value : e.slot[p] = i
    <3>1. ASSUME NEW e \in out PROVE Slots(e) = {e.slot[p] : p \in DOMAIN e.value}
      <4>1. e \in Entries(c)
        BY <2>6, <2>9, SeqFacts DEF Members
      <4>2. DOMAIN e.slot = DOMAIN e.value
        BY <1>2, <4>1, EntryFacts
      <4>3. QED
        BY <4>2 DEF Slots, Rng
    <3>2. QED
      BY <2>10, <3>1
  <2>15. \A i \in CacheSlots : i \in gone => slab["caches"][i] # 0
    BY <1>0, <1>2, <2>9, <2>14, FreeUnnamed
  <2>16. slab'["caches"] = [i \in CacheSlots |-> IF i \in gone THEN 0 ELSE root[i]]
    <3>1. slab'["caches"] = Cleared(root, gone)
      BY <1>0, <2>1 DEF Types, Slabs
    <3>2. QED
      BY <3>1 DEF Cleared
  <2>17. \A p \in ps : root[g[p]] = strs[p]
    <3> SUFFICES ASSUME NEW p \in ps PROVE root[g[p]] = strs[p]
      OBVIOUS
    <3>1. g[p] \in CacheSlots
      BY <2>4
    <3>2. (CHOOSE q \in ps : g[q] = g[p]) = p
      BY <2>2
    <3>3. QED
      BY <3>1, <3>2
  <2>18. \A i \in CacheSlots : (\A p \in ps : g[p] # i) => root[i] = slab["caches"][i]
    OBVIOUS
  <2>19. \A i \in CacheSlots : root[i] \in Cells \cup {0}
    <3> SUFFICES ASSUME NEW i \in CacheSlots PROVE root[i] \in Cells \cup {0}
      OBVIOUS
    <3>1. CASE \E p \in ps : g[p] = i
      BY <1>1, <2>17, <3>1
    <3>2. CASE \A p \in ps : g[p] # i
      BY <1>0, <2>18, <3>2 DEF CacheTypes
    <3>3. QED
      BY <3>1, <3>2
  <2> HIDE DEF root
  <2>20. Replaced(c, out, n)
    <3>1. slab'["caches"] \in [CacheSlots -> Cells \cup {0}]
      BY <2>16, <2>19
    <3>2. \A p \in ps : slab'["caches"][g[p]] = strs[p]
      BY <2>4, <2>15, <2>16, <2>17
    <3>3. \A i \in CacheSlots : (\A p \in ps : g[p] # i) =>
            \/ slab'["caches"][i] = 0 /\ i \in gone
            \/ slab'["caches"][i] = slab["caches"][i] /\ i \notin gone
      BY <2>16, <2>18
    <3>4. QED
      BY <1>2, <2>2, <2>4, <2>5, <2>9, <2>13, <2>14, <3>1, <3>2, <3>3 DEF Replaced
  <2>21. \A p \in DOMAIN n.value : Lasting(n.value[p]) /\ Says(n.value[p], n.key, p)
    BY <1>1, <2>5
  <2>22. EntryChanged
    BY <2>13, <2>20, <2>21 DEF EntryChanged
  <2>23. QED
    BY <2>22
<1>5. QED
  BY <1>3, <1>4

\* fill_host adds the host to an entry that has none.
LEMMA FillStep ==
  ASSUME CacheInv, NEW w \in Workers, at[w] = "put", NEW scanned \in BOOLEAN,
         NEW c, c = CacheOf(req[w]), NEW k, k = Key(req[w]), Found(c, k),
         "host" \in Wanted(req[w]),
         FillHost(w, c, Entry(c, k), frame[w]["host"], scanned)
  PROVE  EntriesKept \/ EntryChanged
<1> DEFINE r == req[w]
           e == Entry(c, k)
           v == frame[w]["host"]
           claims == Claims("caches", {"host"}, scanned)
           i == Granted("caches", {"host"}, scanned)["host"]
           n == [key |-> e.key, value |-> Over(e.value, [p \in {"host"} |-> v]),
                 slot |-> Over(e.slot, [p \in {"host"} |-> i])]
<1>0. CacheTypes /\ RootsHeld /\ RootsOwn /\ Types /\ CacheSays
  BY DEF CacheInv, Inv
<1>1. r \in Requests /\ v \in Cells /\ Lasting(v) /\ Says(v, k, "host")
  BY PutFacts
<1>2. c = "hosts" /\ c \in Caches /\ k \in Keys
  BY <1>1, RequestFacts
<1>3. e \in Members(c) /\ e.key = k /\ e \in Entries(c)
  BY <1>0, <1>2, FoundFacts
<1>4. CASE "host" \in DOMAIN e.value \/ claims = {}
  <2>1. UNCHANGED slab /\ cache' = [cache EXCEPT ![c] = Promoted(c, Entry(c, k))]
    BY <1>4 DEF FillHost
  <2>2. EntriesKept
    BY <1>0, <1>2, <2>1, PromotionKeeps
  <2>3. QED
    BY <2>2
<1>5. CASE "host" \notin DOMAIN e.value /\ claims # {}
  <2>1. /\ slab' = [slab EXCEPT !["caches"][i] = v]
        /\ cache' = [cache EXCEPT ![c] = Promoted(c, n)]
    BY <1>5 DEF FillHost, Granted
  <2>2. i \in Free("caches")
    BY <1>5, ClaimedFree
  <2> HIDE DEF i, v, r, e
  <2>3. i \in CacheSlots /\ slab["caches"][i] = 0
    BY <1>0, <2>2 DEF Free, CacheTypes
  <2>4. DOMAIN e.value = {"pair"} /\ e.value \in [{"pair"} -> Cells] /\ e.slot \in [{"pair"} -> CacheSlots]
    <3>1. /\ DOMAIN e.value \subseteq {"pair", "host"} /\ "pair" \in DOMAIN e.value
          /\ e.value \in [DOMAIN e.value -> Cells] /\ e.slot \in [DOMAIN e.value -> CacheSlots]
      BY <1>2, <1>3, EntryFacts
    <3>2. DOMAIN e.value = {"pair"}
      BY <1>5, <3>1
    <3>3. QED
      BY <3>1, <3>2
  <2>5. n.key = k /\ n.value = Over(e.value, [p \in {"host"} |-> v])
        /\ n.slot = Over(e.slot, [p \in {"host"} |-> i])
    BY <1>3
  <2>6. /\ n.value \in [{"pair", "host"} -> Cells] /\ n.slot \in [{"pair", "host"} -> CacheSlots]
        /\ n.value["pair"] = e.value["pair"] /\ n.value["host"] = v
        /\ n.slot["pair"] = e.slot["pair"] /\ n.slot["host"] = i
    BY <1>1, <2>3, <2>4, <2>5 DEF Over
  <2>7. n \in Entries(c)
    <3>1. {"pair", "host"} \in Shapes(c)
      BY <1>2 DEF Shapes
    <3>2. [key |-> k, value |-> n.value, slot |-> n.slot] \in Entries(c)
      BY <1>2, <2>6, <3>1, EntryMade
    <3>3. n = [key |-> k, value |-> n.value, slot |-> n.slot]
      BY <1>3
    <3>4. QED
      BY <3>2, <3>3
  <2> HIDE DEF n
  <2>8. DOMAIN n.value = {"pair", "host"}
    BY <2>6
  <2>9. e.slot["pair"] \in CacheSlots /\ slab["caches"][e.slot["pair"]] # 0
    BY <1>0, <1>2, <1>3, <2>4, FreeUnnamed
  <2>10. n \notin Members(c)
    BY <1>0, <1>2, <2>3, <2>6, <2>8, FreeUnnamed
  <2>11. /\ Promoted(c, n) \in Seq(Entries(c)) /\ Len(Promoted(c, n)) = Len(cache[c])
         /\ Distinct(Promoted(c, n)) /\ Rng(Promoted(c, n)) = {n} \cup (Members(c) \ {e})
    BY <1>0, <1>2, <2>5, <2>7, <2>10, PromotedFacts DEF e
  <2>12. Len(cache[c]) <= Cap(c)
    BY <1>0, <1>2 DEF CacheTypes, Sound
  <2>13. /\ Members(c)' = {n} \cup (Members(c) \ {e}) /\ \A d \in Caches : Sound(d)'
         /\ \A d \in Caches : d # c => Members(d)' = Members(d)
    <3> DEFINE t == Promoted(c, n)
    <3>1. /\ t \in Seq(Entries(c)) /\ Len(t) <= Cap(c) /\ Distinct(t)
          /\ Rng(t) = {n} \cup (Members(c) \ {e}) /\ cache' = [cache EXCEPT ![c] = t]
      BY <2>1, <2>11, <2>12
    <3> HIDE DEF t
    <3>2. QED
      BY <1>0, <1>2, <3>1, OneCache
  <2>14. slab'["caches"] = [slab["caches"] EXCEPT ![i] = v]
    BY <1>0, <2>1 DEF Types, Slabs
  <2>15. Replaced(c, {e}, n)
    <3>1. slab'["caches"] \in [CacheSlots -> Cells \cup {0}]
      BY <1>0, <1>1, <2>14 DEF CacheTypes
    <3>2. slab'["caches"][i] = v /\ \A j \in CacheSlots : j # i => slab'["caches"][j] = slab["caches"][j]
      BY <1>0, <2>3, <2>14 DEF CacheTypes
    <3>3. slab["caches"][e.slot["pair"]] = e.value["pair"]
      BY <1>0, <1>2, <1>3, <2>4 DEF RootsHeld
    <3>4. slab'["caches"][n.slot["pair"]] = n.value["pair"] /\ slab'["caches"][n.slot["host"]] = n.value["host"]
      BY <2>3, <2>6, <2>9, <3>2, <3>3
    <3>5. \A p, q \in DOMAIN n.value : n.slot[p] = n.slot[q] => p = q
      BY <2>3, <2>6, <2>8, <2>9
    <3>6. \A p \in DOMAIN n.value :
            /\ slab'["caches"][n.slot[p]] = n.value[p]
            /\ \/ slab["caches"][n.slot[p]] = 0
               \/ p \in DOMAIN e.value /\ e.slot[p] = n.slot[p]
      BY <2>3, <2>4, <2>6, <2>8, <3>4
    <3>7. \A j \in CacheSlots : (\A p \in DOMAIN n.value : n.slot[p] # j) =>
            slab'["caches"][j] = slab["caches"][j] /\ \A p \in DOMAIN e.value : e.slot[p] # j
      BY <2>4, <2>6, <2>8, <3>2
    <3>8. {e} \subseteq Members(c)
      BY <1>3
    <3>9. QED
      BY <1>2, <2>7, <2>13, <3>1, <3>5, <3>6, <3>7, <3>8 DEF Replaced
  <2>16. \A p \in DOMAIN n.value : Lasting(n.value[p]) /\ Says(n.value[p], n.key, p)
    <3>1. Lasting(e.value["pair"]) /\ Says(e.value["pair"], k, "pair")
      BY <1>0, <1>2, <1>3, <2>4 DEF CacheSays
    <3>2. QED
      BY <1>1, <2>5, <2>6, <2>8, <3>1
  <2>17. EntryChanged
    BY <2>13, <2>15, <2>16 DEF EntryChanged
  <2>18. QED
    BY <2>17
<1>6. QED
  BY <1>4, <1>5

\* The second lookup.
LEMMA PutStep ==
  ASSUME CacheInv, NEW w \in Workers, NEW scanned \in BOOLEAN, Put(w, scanned)
  PROVE  EntriesKept \/ EntryChanged
<1> PICK c, k : c = CacheOf(req[w]) /\ k = Key(req[w])
  OBVIOUS
<1>0. CacheTypes
  BY DEF CacheInv
<1>1. at[w] = "put"
  BY DEF Put
<1>2. c \in Caches
  BY <1>1, PutFacts, RequestFacts
<1>3. CASE Found(c, k) /\ "host" \in Wanted(req[w])
  <2>1. FillHost(w, c, Entry(c, k), frame[w]["host"], scanned)
    BY <1>3 DEF Put
  <2>2. QED
    BY <1>1, <1>3, <2>1, FillStep
<1>4. CASE Found(c, k) /\ "host" \notin Wanted(req[w])
  <2>1. UNCHANGED slab /\ cache' = [cache EXCEPT ![c] = Promoted(c, Entry(c, k))]
    BY <1>4 DEF Put
  <2>2. QED
    BY <1>0, <1>2, <1>4, <2>1, PromotionKeeps
<1>5. CASE UNCHANGED <<slab, cache>>
  BY <1>0, <1>5 DEF EntriesKept, CacheTypes, Sound, Members
<1>6. CASE Insert(w, c, k, frame[w], scanned)
  BY <1>1, <1>6, InsertStep
<1>7. QED
  BY <1>3, <1>4, <1>5, <1>6 DEF Put

\* Every step keeps the entries, or stores or extends one.
LEMMA CacheStep ==
  ASSUME CacheInv, [Next]_vars
  PROVE  EntriesKept \/ (EntryChanged /\ UNCHANGED heap)
<1>0. CacheTypes /\ Types
  BY DEF CacheInv, Inv
<1>1. ASSUME slab'["caches"] = slab["caches"], cache' = cache PROVE EntriesKept
  BY <1>0, <1>1 DEF EntriesKept, CacheTypes, Sound, Members
<1>2. ASSUME NEW w \in Workers, Look(w) PROVE EntriesKept
  <2> PICK c, k : c = CacheOf(req[w]) /\ k = Key(req[w])
    OBVIOUS
  <2>1. c \in Caches
    BY DEF CacheOf, Caches
  <2>2. CASE Found(c, k)
    <3>1. UNCHANGED slab /\ cache' = [cache EXCEPT ![c] = Promoted(c, Entry(c, k))]
      BY <1>2, <2>2 DEF Look
    <3>2. QED
      BY <1>0, <2>1, <2>2, <3>1, PromotionKeeps
  <2>3. CASE ~Found(c, k)
    BY <1>1, <1>2, <2>3 DEF Look
  <2>4. QED
    BY <2>2, <2>3
<1>3. ASSUME NEW w \in Workers, NEW scanned \in BOOLEAN, Put(w, scanned)
      PROVE  EntriesKept \/ (EntryChanged /\ UNCHANGED heap)
  <2>1. UNCHANGED heap
    BY <1>3 DEF Put
  <2>2. QED
    BY <1>3, <2>1, PutStep
<1>4. ASSUME NEW w \in Workers, NEW large \in BOOLEAN, Respond(w, large) PROVE EntriesKept
  <2>1. cache' = cache /\ (slab' = slab \/ \E x : slab' = [slab EXCEPT !["pins"] = x])
    <3>1. \A i, v : [slab EXCEPT !["pins"][i] = v]
                      = [slab EXCEPT !["pins"] = [slab["pins"] EXCEPT ![i] = v]]
      OBVIOUS
    <3>2. QED
      BY <1>4, <3>1 DEF Respond
  <2>2. slab'["caches"] = slab["caches"]
    BY <1>0, <2>1 DEF Types, Slabs
  <2>3. QED
    BY <1>1, <2>1, <2>2
<1>5. ASSUME NEW b \in wire, DropBuf(b) PROVE EntriesKept
  <2>1. cache' = cache /\ slab'["caches"] = slab["caches"]
    BY <1>0, <1>5 DEF DropBuf, Types, Slabs
  <2>2. QED
    BY <1>1, <2>1
<1>6. ASSUME NEW w \in Workers,
             Lock(w) \/ Build(w) \/ Set(w) \/ Done(w) \/ StartGC(w) \/ LocalCollect(w)
             \/ (\E shareable \in BOOLEAN : App(w, shareable))
             \/ (\E r \in Requests : TakeRequest(w, r))
      PROVE  UNCHANGED <<slab, cache>>
  BY <1>6 DEF Lock, Build, Set, Done, StartGC, LocalCollect, App, TakeRequest
<1>7. ASSUME Collect \/ UNCHANGED vars PROVE UNCHANGED <<slab, cache>>
  BY <1>7 DEF Collect, vars
<1>8. QED
  BY <1>1, <1>2, <1>3, <1>4, <1>5, <1>6, <1>7 DEF Next, Step

-----------------------------------------------------------------------------
(* The workers' hands                                                      *)

\* A string that survives says what it said.
LEMMA SaysKept ==
  ASSUME NEW v, NEW k, NEW p, Survives(v), Says(v, k, p)
  PROVE  Says(v, k, p)'
  BY DEF Survives, Says

\* What a worker holds survives any step.
LEMMA HeldSurvives ==
  ASSUME CacheInv, [Next]_vars, NEW u \in Workers, NEW p
  PROVE  /\ p \in DOMAIN frame[u] => Survives(frame[u][p]) /\ frame[u][p] \in DOMAIN heap
         /\ p \in DOMAIN env[u] => Survives(env[u][p]) /\ env[u][p] \in DOMAIN heap
<1>1. Types /\ Hand(u)
  BY DEF CacheInv, Inv, Hands
<1>2. \A v \in DOMAIN heap : Held(u, v) => Survives(v)
  BY <1>1, HeapStep
<1>3. ASSUME p \in DOMAIN frame[u] PROVE Survives(frame[u][p]) /\ frame[u][p] \in DOMAIN heap
  <2>1. frame[u][p] \in DOMAIN heap /\ Held(u, frame[u][p])
    BY <1>1, <1>3 DEF Hand, Fits, Held, Stack, Rng
  <2>2. QED
    BY <1>2, <2>1
<1>4. ASSUME p \in DOMAIN env[u] PROVE Survives(env[u][p]) /\ env[u][p] \in DOMAIN heap
  <2>1. env[u][p] \in DOMAIN heap /\ Held(u, env[u][p])
    BY <1>1, <1>4 DEF Hand, Fits, Held, Stack, Rng
  <2>2. QED
    BY <1>2, <2>1
<1>5. QED
  BY <1>3, <1>4

\* A string that survives fits as it did.
LEMMA FitsKept ==
  ASSUME NEW u \in Workers, NEW p, NEW v, Survives(v), req'[u] = req[u], Fits(u, p, v)
  PROVE  Fits(u, p, v)'
<1>1. v \in DOMAIN heap' /\ heap'[v] = heap[v]
  BY DEF Survives
<1>2. CASE p = "pair"
  <2>1. PICK k : k = Key(req[u])
    OBVIOUS
  <2>2. Says(v, k, p)
    BY <1>2, <2>1 DEF Fits
  <2>3. Says(v, k, p)'
    BY <2>2, SaysKept
  <2>4. Key(req'[u]) = k
    BY <2>1
  <2>5. QED
    BY <1>1, <1>2, <2>3, <2>4 DEF Fits, Says
<1>3. CASE p # "pair"
  BY <1>1, <1>3 DEF Fits, Text
<1>4. QED
  BY <1>2, <1>3

\* A worker that does not move keeps what it has.
LEMMA BystanderStep ==
  ASSUME CacheInv, [Next]_vars, NEW u \in Workers, frame'[u] = frame[u], env'[u] = env[u],
         req'[u] = req[u], at'[u] = at[u], hit'[u] = hit[u]
  PROVE  Hand(u)' /\ Stand(u)'
<1>1. Hand(u) /\ Stand(u)
  BY DEF CacheInv, Hands
<1>2. Hand(u)'
  <2>1. ASSUME NEW p \in DOMAIN frame'[u] PROVE Fits(u, p, frame[u][p])'
    <3>1. PICK v : v = frame[u][p]
      OBVIOUS
    <3>2. Survives(v) /\ Fits(u, p, v)
      BY <1>1, <2>1, <3>1, HeldSurvives DEF Hand
    <3>3. Fits(u, p, v)'
      BY <3>2, FitsKept
    <3>4. QED
      BY <3>1, <3>3 DEF Fits
  <2>2. ASSUME NEW p \in DOMAIN env'[u] PROVE Fits(u, p, env[u][p])'
    <3>1. PICK v : v = env[u][p]
      OBVIOUS
    <3>2. Survives(v) /\ Fits(u, p, v)
      BY <1>1, <2>2, <3>1, HeldSurvives DEF Hand
    <3>3. Fits(u, p, v)'
      BY <3>2, FitsKept
    <3>4. QED
      BY <3>1, <3>3 DEF Fits
  <2>3. QED
    BY <2>1, <2>2 DEF Hand
<1>3. \A p \in DOMAIN frame[u] : Lasting(frame[u][p]) => Lasting(frame[u][p])'
  BY HeldSurvives DEF Survives, Lasting
<1>4. Stand(u)'
  BY <1>1, <1>3 DEF Stand, Lasting
<1>5. QED
  BY <1>2, <1>4

\* With nothing in the env, the frame is all a worker has in hand.
LEMMA NewHand ==
  ASSUME NEW w \in Workers, NEW f, frame'[w] = f, DOMAIN env'[w] = {},
         \A p \in DOMAIN f : Fits(w, p, f[p])'
  PROVE  Hand(w)'
  BY DEF Hand, Fits

\* What an entry under the request's key holds fits the request.
LEMMA CachedFits ==
  ASSUME CacheInv, NEW w \in Workers, req[w] \in Requests, NEW c, c = CacheOf(req[w]),
         NEW k, k = Key(req[w]), Found(c, k), NEW e, e = Entry(c, k),
         NEW p \in Wanted(req[w]), p \in DOMAIN e.value
  PROVE  Lasting(e.value[p]) /\ Fits(w, p, e.value[p]) /\ e.value[p] \in Cells
<1>0. CacheTypes /\ CacheSays /\ Types
  BY DEF CacheInv, Inv
<1>1. c \in Caches
  BY RequestFacts
<1>2. e \in Members(c) /\ e.key = k
  BY <1>0, <1>1, FoundFacts
<1>3. Lasting(e.value[p]) /\ Says(e.value[p], k, p)
  BY <1>0, <1>1, <1>2 DEF CacheSays
<1>4. CASE p = "pair"
  BY <1>0, <1>3, <1>4 DEF Fits, Lasting, Types
<1>5. CASE p # "pair"
  <2>1. req[w].via \in {"value", "authority"}
    BY <1>5, RequestFacts
  <2>2. k[2] = req[w].text /\ Text(req[w], p) = req[w].text
    BY <1>5, <2>1 DEF Key, Text
  <2>3. heap[e.value[p]].text = k[2]
    BY <1>3, <1>5, PlainSays
  <2>4. QED
    BY <1>0, <1>3, <1>5, <2>2, <2>3 DEF Fits, Lasting, Types
<1>6. QED
  BY <1>4, <1>5

\* The first lookup.
LEMMA LookHands ==
  ASSUME CacheInv, NEW w \in Workers, Look(w)
  PROVE  Hand(w)' /\ Stand(w)'
<1> PICK r, c, k, ps : /\ r = req[w] /\ c = CacheOf(req[w]) /\ k = Key(req[w])
                       /\ ps = Wanted(req[w])
  OBVIOUS
<1> PICK f : f = IF Found(c, k) THEN Read(Entry(c, k), ps) ELSE Nothing
  OBVIOUS
<1>0. /\ Types /\ CacheTypes /\ Stand(w) /\ DOMAIN req = Workers /\ DOMAIN hit = Workers
      /\ DOMAIN env = Workers
  BY DEF CacheInv, Inv, Hands
<1>1. /\ at[w] = "look" /\ heap' = heap /\ req' = req /\ env' = env
      /\ frame' = [frame EXCEPT ![w] = f] /\ hit' = [hit EXCEPT ![w] = Found(c, k)]
      /\ at' = [at EXCEPT ![w] = IF DOMAIN f = ps THEN "set" ELSE "build"]
  BY DEF Look
<1>2. r \in Requests /\ DOMAIN env[w] = {}
  BY <1>0, <1>1 DEF Stand
<1>3. ASSUME NEW p \in DOMAIN f
      PROVE  p \in ps /\ Lasting(f[p]) /\ Fits(w, p, f[p]) /\ f[p] \in Cells
  <2>1. Found(c, k)
    BY <1>3 DEF Nothing
  <2>2. PICK e : e = Entry(c, k)
    OBVIOUS
  <2>3. p \in ps /\ p \in DOMAIN e.value /\ f[p] = e.value[p]
    BY <1>3, <2>1, <2>2 DEF Read
  <2>4. QED
    BY <1>2, <2>1, <2>2, <2>3, CachedFits
<1>4. f \in [DOMAIN f -> Cells]
  <2>1. f = [p \in DOMAIN f |-> f[p]]
    BY DEF Read, Nothing
  <2>2. QED
    BY <1>3, <2>1
<1>5. \A p \in DOMAIN f : Fits(w, p, f[p])'
  BY <1>1, <1>3, FitsKept DEF Survives, Fits
<1>6. frame'[w] = f /\ DOMAIN env'[w] = {}
  BY <1>0, <1>1, <1>2 DEF Types
<1>7. Hand(w)'
  BY <1>5, <1>6, NewHand
<1>8. at'[w] = (IF DOMAIN f = ps THEN "set" ELSE "build") /\ (hit'[w] <=> Found(c, k))
  BY <1>0, <1>1 DEF Types
<1>9. DOMAIN f # ps => \E p \in ps : p \notin DOMAIN f
  BY <1>3
<1>10. ASSUME DOMAIN f # ps, Found(c, k) PROVE r.via = "authority"
  <2>1. PICK e : e = Entry(c, k)
    OBVIOUS
  <2>2. c \in Caches
    BY <1>2, RequestFacts
  <2>3. e \in Entries(c)
    BY <1>0, <1>10, <2>1, <2>2, FoundFacts
  <2>4. DOMAIN f = ps \cap DOMAIN e.value
    BY <1>10, <2>1 DEF Read
  <2>5. /\ c = "values" => DOMAIN e.value = {"value"}
        /\ c = "hosts" => "pair" \in DOMAIN e.value
    BY <2>2, <2>3, EntryFacts
  <2>6. QED
    BY <1>2, <1>10, <2>4, <2>5, RequestFacts
<1>11. \A p \in DOMAIN f : Lasting(f[p])'
  BY <1>1, <1>3 DEF Lasting
<1>12. Stand(w)'
  BY <1>1, <1>2, <1>3, <1>4, <1>6, <1>8, <1>9, <1>10, <1>11 DEF Stand, Lasting
<1>13. QED
  BY <1>7, <1>12

\* A pair built for a request says the request's key.
LEMMA BuiltSays ==
  ASSUME NEW r \in Requests, NEW v, heap'[v].text = Text(r, "pair")
  PROVE  Says(v, Key(r), "pair")'
<1>1. heap'[v].text = <<Name(r), Port(r)>>
  BY DEF Text
<1>2. CASE r.via = "socket"
  BY <1>1, <1>2 DEF Says, Key, Name, Port
<1>3. CASE r.via # "socket"
  <2>1. Key(r) = <<"text", r.text>> /\ Name(r) = r.text[1]
    BY <1>3 DEF Key, Name
  <2>2. r.text[2] \in {0, Port(r)}
    BY <1>3 DEF Port
  <2>3. QED
    BY <1>1, <2>1, <2>2 DEF Says
<1>4. QED
  BY <1>2, <1>3

\* A fresh string in hand beside those that were there.
LEMMA BuildHands ==
  ASSUME CacheInv, NEW w \in Workers, Build(w)
  PROVE  Hand(w)' /\ Stand(w)'
<1> PICK r, ps, g : r = req[w] /\ ps = Wanted(req[w]) /\ g = frame[w]
  OBVIOUS
<1> PICK p : p = CHOOSE x \in ps : x \notin DOMAIN g
  OBVIOUS
<1>0. /\ Types /\ Stand(w) /\ Hand(w) /\ DOMAIN req = Workers /\ DOMAIN hit = Workers
      /\ DOMAIN env = Workers
  BY DEF CacheInv, Inv, Hands
<1>1. at[w] = "build" /\ FreeCells # {} /\ req' = req /\ env' = env /\ hit' = hit
  BY DEF Build
<1>2. /\ r \in Requests /\ DOMAIN env[w] = {} /\ p \in ps /\ p \notin DOMAIN g
      /\ g \in [DOMAIN g -> Cells] /\ \A q \in DOMAIN g : q \in ps /\ Lasting(g[q])
      /\ hit[w] => r.via = "authority"
  BY <1>0, <1>1 DEF Stand
<1>3. PICK t : t = Text(r, p)
  OBVIOUS
<1>4. PICK v \in Cells \ DOMAIN heap :
        Alloc(w, t, TRUE).value = v /\ Alloc(w, t, TRUE).heap = With(v, t, w, TRUE)
  BY <1>1, StringAllocated
<1>5. PICK f : f = Over(g, [x \in {p} |-> v])
  OBVIOUS
<1>6. /\ heap'[v].text = t /\ heap'[v].shareable /\ v \in DOMAIN heap'
      /\ \A x \in DOMAIN heap : x \in DOMAIN heap' /\ heap'[x] = heap[x]
      /\ frame' = [frame EXCEPT ![w] = f]
      /\ at' = [at EXCEPT ![w] = IF DOMAIN f = ps THEN "put" ELSE "build"]
  <2> DEFINE q == CHOOSE x \in Wanted(req[w]) : x \notin DOMAIN frame[w]
             new == Alloc(w, Text(req[w], q), TRUE)
             h == Over(frame[w], [x \in {q} |-> new.value])
  <2>1. /\ heap' = new.heap /\ frame' = [frame EXCEPT ![w] = h]
        /\ at' = [at EXCEPT ![w] = IF DOMAIN h = Wanted(req[w]) THEN "put" ELSE "build"]
    BY DEF Build
  <2>2. q = p /\ new = Alloc(w, t, TRUE)
    BY <1>3
  <2> HIDE DEF q, new
  <2>3. new.value = v /\ new.heap = With(v, t, w, TRUE)
    BY <1>4, <2>2
  <2>4. h = f
    BY <1>5, <2>2, <2>3, Zenon
  <2> HIDE DEF h
  <2>5. /\ heap'[v].text = t /\ heap'[v].shareable /\ v \in DOMAIN heap'
        /\ \A x \in DOMAIN heap : x \in DOMAIN heap' /\ heap'[x] = heap[x]
    BY <2>1, <2>3 DEF With
  <2>6. QED
    BY <2>1, <2>4, <2>5
<1>7. /\ DOMAIN f = DOMAIN g \cup {p} /\ f[p] = v /\ \A q \in DOMAIN g : f[q] = g[q]
      /\ f \in [DOMAIN f -> Cells]
  BY <1>2, <1>4, <1>5 DEF Over
<1>8. Fits(w, p, v)'
  <2>1. CASE p = "pair"
    <3>1. Says(v, Key(r), "pair")'
      BY <1>2, <1>6, <1>3, <2>1, BuiltSays
    <3>2. Key(req'[w]) = Key(r)
      BY <1>1
    <3>3. QED
      BY <1>6, <2>1, <3>1, <3>2 DEF Fits, Says
  <2>2. CASE p # "pair"
    BY <1>1, <1>6, <1>3, <2>2 DEF Fits
  <2>3. QED
    BY <2>1, <2>2
<1>9. ASSUME NEW q \in DOMAIN g PROVE Fits(w, q, g[q])'
  <2>1. PICK x : x = g[q]
    OBVIOUS
  <2>2. Fits(w, q, x) /\ Survives(x)
    BY <1>0, <1>6, <2>1 DEF Hand, Fits, Survives
  <2>3. Fits(w, q, x)'
    BY <1>1, <2>2, FitsKept
  <2>4. QED
    BY <2>1, <2>3
<1>10. \A q \in DOMAIN f : Fits(w, q, f[q])'
  BY <1>7, <1>8, <1>9
<1>11. frame'[w] = f /\ DOMAIN env'[w] = {} /\ at'[w] = IF DOMAIN f = ps THEN "put" ELSE "build"
  BY <1>0, <1>1, <1>2, <1>6 DEF Types
<1>12. Hand(w)'
  BY <1>11, <1>10, NewHand
<1>13. ASSUME NEW q \in DOMAIN f PROVE q \in ps /\ Lasting(f[q])'
  <2>1. CASE q = p
    BY <1>2, <1>7, <1>6, <2>1 DEF Lasting
  <2>2. CASE q \in DOMAIN g
    BY <1>2, <1>7, <1>6, <2>2 DEF Lasting
  <2>3. QED
    BY <1>7, <2>1, <2>2
<1>14. DOMAIN f # ps => \E q \in ps : q \notin DOMAIN f
  BY <1>13
<1>15. Stand(w)'
  BY <1>1, <1>2, <1>11, <1>7, <1>13, <1>14 DEF Stand, Lasting
<1>16. QED
  BY <1>12, <1>15

\* The second lookup: what the entry has meanwhile takes the place of what was
\* built.
LEMMA PutHands ==
  ASSUME CacheInv, NEW w \in Workers, NEW scanned \in BOOLEAN, Put(w, scanned)
  PROVE  Hand(w)' /\ Stand(w)'
<1>1. PICK c, k, ps, g : c = CacheOf(req[w]) /\ k = Key(req[w]) /\ ps = Wanted(req[w]) /\ g = frame[w]
  OBVIOUS
<1>2. /\ Types /\ CacheTypes /\ Stand(w) /\ Hand(w) /\ DOMAIN req = Workers
      /\ DOMAIN hit = Workers /\ DOMAIN env = Workers
  BY DEF CacheInv, Inv, Hands
<1>3. /\ at[w] = "put" /\ heap' = heap /\ req' = req /\ env' = env /\ hit' = hit
      /\ at' = [at EXCEPT ![w] = "set"]
  BY DEF Put
<1>4. /\ req[w] \in Requests /\ DOMAIN env[w] = {} /\ DOMAIN g = ps /\ g \in [ps -> Cells]
      /\ \A p \in ps : Lasting(g[p]) /\ Fits(w, p, g[p])
      /\ hit[w] => req[w].via = "authority"
  BY <1>1, <1>2, <1>3 DEF Stand, Hand
<1>5. PICK f : /\ frame'[w] = f /\ DOMAIN f = ps
               /\ \A p \in ps : Lasting(f[p]) /\ Fits(w, p, f[p]) /\ f[p] \in Cells
               /\ f \in [ps -> Cells]
  <2>1. CASE UNCHANGED frame
    BY <1>1, <1>4, <2>1
  <2>2. CASE Found(c, k)
    <3>1. PICK e : e = Entry(c, k)
      OBVIOUS
    <3>2. PICK xs : xs \subseteq ps /\ frame' = [frame EXCEPT ![w] = Over(Read(e, xs), g)]
      <4>1. CASE hit[w]
        <5>1. {"host"} \subseteq ps
          BY <1>1, <1>4, <4>1, RequestFacts DEF Wanted
        <5>2. frame' = [frame EXCEPT ![w] = Over(Read(e, {"host"}), g)]
          BY <1>1, <2>2, <3>1, <4>1 DEF Put
        <5>3. QED
          BY <5>1, <5>2
      <4>2. CASE ~hit[w]
        <5>1. frame' = [frame EXCEPT ![w] = Over(Read(e, ps), g)]
          BY <1>1, <2>2, <3>1, <4>2 DEF Put
        <5>2. QED
          BY <5>1
      <4>3. QED
        BY <4>1, <4>2
    <3>3. PICK f : f = Over(Read(e, xs), g)
      OBVIOUS
    <3>4. frame'[w] = f
      BY <1>2, <3>2, <3>3 DEF Types
    <3>5. DOMAIN f = ps /\ f = [p \in ps |-> f[p]]
      BY <1>4, <3>2, <3>3 DEF Over, Read
    <3>6. ASSUME NEW p \in ps PROVE Lasting(f[p]) /\ Fits(w, p, f[p]) /\ f[p] \in Cells
      <4>1. CASE p \in xs /\ p \in DOMAIN e.value
        <5>1. f[p] = e.value[p]
          BY <3>3, <4>1 DEF Over, Read
        <5>2. Lasting(e.value[p]) /\ Fits(w, p, e.value[p]) /\ e.value[p] \in Cells
          BY <1>1, <1>4, <2>2, <3>1, <3>6, <4>1, CachedFits
        <5>3. QED
          BY <5>1, <5>2
      <4>2. CASE ~(p \in xs /\ p \in DOMAIN e.value)
        <5>1. f[p] = g[p]
          BY <1>4, <3>3, <3>6, <4>2 DEF Over, Read
        <5>2. QED
          BY <1>4, <3>6, <5>1
      <4>3. QED
        BY <4>1, <4>2
    <3>7. f \in [ps -> Cells]
      BY <3>5, <3>6
    <3>8. QED
      BY <3>4, <3>5, <3>6, <3>7
  <2>3. CASE ~Found(c, k)
    BY <1>1, <2>1, <2>3 DEF Put
  <2>4. QED
    BY <2>2, <2>3
<1>6. \A p \in ps : Lasting(f[p])' /\ Fits(w, p, f[p])'
  BY <1>3, <1>5, FitsKept DEF Survives, Fits, Lasting
<1>7. DOMAIN env'[w] = {} /\ at'[w] = "set"
  BY <1>2, <1>3, <1>4 DEF Types
<1>8. Hand(w)'
  BY <1>5, <1>6, <1>7, NewHand
<1>9. Stand(w)'
  BY <1>1, <1>3, <1>4, <1>5, <1>6, <1>7 DEF Stand, Lasting
<1>10. QED
  BY <1>8, <1>9

\* The strings move from the frame to the env.
LEMMA SetHands ==
  ASSUME CacheInv, NEW w \in Workers, Set(w)
  PROVE  Hand(w)' /\ Stand(w)'
<1>1. PICK g : g = frame[w]
  OBVIOUS
<1>2. Types /\ Stand(w) /\ Hand(w) /\ DOMAIN env = Workers
  BY DEF CacheInv, Inv, Hands
<1>3. /\ at[w] = "set" /\ heap' = heap /\ req' = req /\ at' = [at EXCEPT ![w] = "env"]
      /\ env' = [env EXCEPT ![w] = Over(frame[w], env[w])]
      /\ frame' = [frame EXCEPT ![w] = Nothing]
  BY DEF Set
<1>4. DOMAIN env[w] = {} /\ g \in [DOMAIN g -> Cells]
  BY <1>1, <1>2, <1>3 DEF Stand
<1>5. Over(frame[w], env[w]) = g
  BY <1>1, <1>4 DEF Over
<1>6. env'[w] = g /\ frame'[w] = Nothing /\ at'[w] = "env"
  BY <1>2, <1>3, <1>5 DEF Types
<1>7. ASSUME NEW p \in DOMAIN g PROVE Fits(w, p, g[p])'
  BY <1>1, <1>2, <1>3, FitsKept DEF Hand, Survives, Fits
<1>8. DOMAIN frame'[w] = {} /\ frame'[w] \in [{} -> Cells]
  BY <1>6 DEF Nothing
<1>9. Hand(w)'
  BY <1>6, <1>7, <1>8 DEF Hand, Fits
<1>10. Stand(w)'
  BY <1>6, <1>8 DEF Stand
<1>11. QED
  BY <1>9, <1>10

\* Empty hands are in order.
LEMMA EmptyHands ==
  ASSUME NEW w \in Workers, NEW f, f \in [{} -> Cells], frame'[w] = f, DOMAIN env'[w] = {},
         at'[w] \in {"idle", "app"} \/ (at'[w] = "look" /\ req'[w] \in Requests)
  PROVE  Hand(w)' /\ Stand(w)'
<1>1. DOMAIN f = {}
  OBVIOUS
<1>2. Hand(w)'
  BY <1>1 DEF Hand, Fits
<1>3. Stand(w)'
  BY <1>1 DEF Stand
<1>4. QED
  BY <1>2, <1>3

\* A body the app has made.
LEMMA AppHands ==
  ASSUME CacheInv, NEW w \in Workers, NEW shareable \in BOOLEAN, App(w, shareable)
  PROVE  Hand(w)' /\ Stand(w)'
<1>1. Types /\ Stand(w) /\ DOMAIN env = Workers
  BY DEF CacheInv, Inv, Hands
<1>2. PICK t : t = Text(req[w], "body")
  OBVIOUS
<1> DEFINE new == Alloc(w, t, shareable)
<1>3. /\ at[w] = "app" /\ FreeCells # {} /\ heap' = new.heap /\ req' = req /\ env' = env
      /\ at' = [at EXCEPT ![w] = "respond"]
      /\ frame' = [frame EXCEPT ![w] = [p \in {"body"} |-> new.value]]
  BY <1>2 DEF App
<1>4. PICK v \in Cells \ DOMAIN heap : new.value = v /\ new.heap = With(v, t, w, shareable)
  BY <1>3, Allocated
<1> HIDE DEF new
<1>5. v \in DOMAIN heap' /\ heap'[v].owner = w /\ heap'[v].text = t
  BY <1>3, <1>4 DEF With
<1>6. PICK f : f = [p \in {"body"} |-> v]
  OBVIOUS
<1>7. /\ frame'[w] = f /\ at'[w] = "respond" /\ DOMAIN env'[w] = {} /\ f \in [{"body"} -> Cells]
      /\ DOMAIN f = {"body"} /\ f["body"] = v
  BY <1>1, <1>3, <1>4, <1>6 DEF Types, Stand
<1>8. Fits(w, "body", v)'
  BY <1>2, <1>3, <1>5 DEF Fits
<1>9. Hand(w)'
  BY <1>7, <1>8, NewHand
<1>10. Stand(w)'
  BY <1>7 DEF Stand
<1>11. QED
  BY <1>9, <1>10

\* The request's end, its answer and the next request find empty hands.
LEMMA RestHands ==
  ASSUME CacheInv, NEW w \in Workers,
         Done(w) \/ (\E large \in BOOLEAN : Respond(w, large))
         \/ (\E r \in Requests : TakeRequest(w, r))
  PROVE  Hand(w)' /\ Stand(w)'
<1>1. Types /\ Stand(w) /\ DOMAIN env = Workers /\ DOMAIN req = Workers
  BY DEF CacheInv, Inv, Hands
<1>2. CASE Done(w)
  <2>1. /\ at[w] = "env" /\ frame' = frame /\ env' = [env EXCEPT ![w] = Nothing]
        /\ at' = [at EXCEPT ![w] = "idle"]
    BY <1>2 DEF Done
  <2>2. frame'[w] \in [{} -> Cells] /\ DOMAIN env'[w] = {} /\ at'[w] = "idle"
    BY <1>1, <2>1 DEF Stand, Types, Nothing
  <2>3. PICK f : f = frame'[w]
    OBVIOUS
  <2>4. QED
    BY <2>2, <2>3, EmptyHands
<1>3. ASSUME NEW large \in BOOLEAN, Respond(w, large) PROVE Hand(w)' /\ Stand(w)'
  <2>1. /\ at[w] = "respond" /\ frame' = [frame EXCEPT ![w] = Nothing] /\ env' = env
        /\ at' = [at EXCEPT ![w] = "idle"]
    BY <1>3 DEF Respond
  <2>2. frame'[w] \in [{} -> Cells] /\ DOMAIN env'[w] = {} /\ at'[w] = "idle"
    BY <1>1, <2>1 DEF Stand, Types, Nothing
  <2>3. PICK f : f = frame'[w]
    OBVIOUS
  <2>4. QED
    BY <2>2, <2>3, EmptyHands
<1>4. ASSUME NEW r \in Requests, TakeRequest(w, r) PROVE Hand(w)' /\ Stand(w)'
  <2>1. /\ at[w] = "idle" /\ frame' = frame /\ env' = env /\ req' = [req EXCEPT ![w] = r]
        /\ at' = [at EXCEPT ![w] = IF r.via = "body" THEN "app" ELSE "look"]
    BY <1>4 DEF TakeRequest
  <2>2. /\ frame'[w] \in [{} -> Cells] /\ DOMAIN env'[w] = {} /\ at'[w] \in {"app", "look"}
        /\ req'[w] \in Requests
    BY <1>1, <2>1 DEF Stand, Types
  <2>3. PICK f : f = frame'[w]
    OBVIOUS
  <2>4. QED
    BY <2>2, <2>3, EmptyHands
<1>5. QED
  BY <1>2, <1>3, <1>4

\* A worker's hands change in its own steps only.
LEMMA HandsApart ==
  ASSUME CacheInv, [Next]_vars
  PROVE  /\ DOMAIN env' = Workers /\ DOMAIN req' = Workers /\ DOMAIN hit' = Workers
         /\ \A u \in Workers :
              \/ /\ frame'[u] = frame[u] /\ env'[u] = env[u] /\ req'[u] = req[u]
                 /\ at'[u] = at[u] /\ hit'[u] = hit[u]
              \/ Look(u) \/ Build(u) \/ Set(u) \/ Done(u)
              \/ (\E scanned \in BOOLEAN : Put(u, scanned))
              \/ (\E shareable \in BOOLEAN : App(u, shareable))
              \/ (\E large \in BOOLEAN : Respond(u, large))
              \/ (\E r \in Requests : TakeRequest(u, r))
<1> DEFINE Still(u) == /\ frame'[u] = frame[u] /\ env'[u] = env[u] /\ req'[u] = req[u]
                       /\ at'[u] = at[u] /\ hit'[u] = hit[u]
           Doms == DOMAIN env' = Workers /\ DOMAIN req' = Workers /\ DOMAIN hit' = Workers
<1>0. /\ DOMAIN frame = Workers /\ DOMAIN at = Workers /\ DOMAIN env = Workers
      /\ DOMAIN req = Workers /\ DOMAIN hit = Workers
  BY DEF CacheInv, Inv, Types, Hands
<1>1. CASE UNCHANGED <<frame, env, req, at, hit>>
  BY <1>0, <1>1
<1>2. ASSUME NEW w \in Workers, NEW f, NEW e, NEW r, NEW q, NEW h,
             frame' = [frame EXCEPT ![w] = f] \/ frame' = frame,
             env' = [env EXCEPT ![w] = e] \/ env' = env,
             req' = [req EXCEPT ![w] = r] \/ req' = req,
             at' = [at EXCEPT ![w] = q],
             hit' = [hit EXCEPT ![w] = h] \/ hit' = hit
      PROVE  Doms /\ \A u \in Workers : u # w => Still(u)
  BY <1>0, <1>2
<1> DEFINE Moved(w) == Doms /\ \A u \in Workers : u # w => Still(u)
<1>3. ASSUME NEW w \in Workers, Look(w) PROVE Moved(w)
  BY <1>2, <1>3 DEF Look
<1>4. ASSUME NEW w \in Workers, Build(w) PROVE Moved(w)
  BY <1>2, <1>4 DEF Build
<1>5. ASSUME NEW w \in Workers, Set(w) PROVE Moved(w)
  BY <1>2, <1>5 DEF Set
<1>6. ASSUME NEW w \in Workers, Done(w) PROVE Moved(w)
  BY <1>2, <1>6 DEF Done
<1>7. ASSUME NEW w \in Workers, NEW scanned \in BOOLEAN, Put(w, scanned) PROVE Moved(w)
  BY <1>2, <1>7 DEF Put
<1>8. ASSUME NEW w \in Workers, NEW shareable \in BOOLEAN, App(w, shareable) PROVE Moved(w)
  BY <1>2, <1>8 DEF App
<1>9. ASSUME NEW w \in Workers, NEW large \in BOOLEAN, Respond(w, large) PROVE Moved(w)
  BY <1>2, <1>9 DEF Respond
<1>10. ASSUME NEW w \in Workers, NEW r \in Requests, TakeRequest(w, r) PROVE Moved(w)
  BY <1>2, <1>10 DEF TakeRequest
<1>11. ASSUME NEW w \in Workers, Lock(w) \/ StartGC(w) \/ LocalCollect(w)
       PROVE  UNCHANGED <<frame, env, req, at, hit>>
  BY <1>11 DEF Lock, StartGC, LocalCollect, workVars
<1>12. ASSUME NEW b \in wire, DropBuf(b) PROVE UNCHANGED <<frame, env, req, at, hit>>
  BY <1>12 DEF DropBuf, workVars
<1>13. ASSUME Collect \/ UNCHANGED vars PROVE UNCHANGED <<frame, env, req, at, hit>>
  BY <1>13 DEF Collect, vars
<1>14. QED
  BY <1>1, <1>3, <1>4, <1>5, <1>6, <1>7, <1>8, <1>9, <1>10, <1>11, <1>12, <1>13 DEF Next, Step

\* Every step keeps the workers' hands in order.
LEMMA HandsStep ==
  ASSUME CacheInv, [Next]_vars
  PROVE  Hands'
<1>1. ASSUME NEW u \in Workers PROVE Hand(u)' /\ Stand(u)'
  BY BystanderStep, LookHands, BuildHands, SetHands, PutHands, AppHands, RestHands, HandsApart
<1>2. QED
  BY <1>1, HandsApart DEF Hands

-----------------------------------------------------------------------------
(* The caches' theorems                                                    *)

\* A step assigns one lock at most, to its worker or to nobody, and counts
\* requests down.
LEMMA LockStep ==
  ASSUME CacheInv, [Next]_vars
  PROVE  /\ DOMAIN cache' = Caches /\ DOMAIN lock' = Caches
         /\ \A c \in Caches : lock'[c] \in Workers \cup {NoOne}
         /\ gc' \in Workers \cup {NoOne} /\ left' \in 0..MaxRequests
<1>0. CacheTypes /\ \A w : CacheOf(req[w]) \in Caches
  BY DEF CacheInv, CacheOf, Caches
<1> DEFINE Locks == DOMAIN lock' = Caches /\ \A c \in Caches : lock'[c] \in Workers \cup {NoOne}
<1>1. ASSUME NEW w \in Workers, NEW c \in Caches,
             lock' = [lock EXCEPT ![c] = w] \/ lock' = [lock EXCEPT ![c] = NoOne]
      PROVE  Locks
  BY <1>0, <1>1 DEF CacheTypes
<1>2. ASSUME UNCHANGED lock PROVE Locks
  BY <1>0, <1>2 DEF CacheTypes
<1>3. Locks
  <2>1. ASSUME NEW w \in Workers, Lock(w) \/ Look(w) \/ \E scanned \in BOOLEAN : Put(w, scanned)
        PROVE  Locks
    <3>1. CASE Lock(w)
      BY <1>0, <1>1, <3>1 DEF Lock
    <3>2. CASE Look(w)
      BY <1>0, <1>1, <3>2 DEF Look
    <3>3. ASSUME NEW scanned \in BOOLEAN, Put(w, scanned) PROVE Locks
      BY <1>0, <1>1, <3>3 DEF Put
    <3>4. QED
      BY <2>1, <3>1, <3>2, <3>3
  <2>2. ASSUME NEW w \in Workers,
               Build(w) \/ Set(w) \/ Done(w) \/ StartGC(w) \/ LocalCollect(w)
               \/ (\E shareable \in BOOLEAN : App(w, shareable))
               \/ (\E large \in BOOLEAN : Respond(w, large))
               \/ (\E r \in Requests : TakeRequest(w, r))
        PROVE  UNCHANGED lock
    BY <2>2 DEF Build, Set, Done, StartGC, LocalCollect, App, Respond, TakeRequest, workVars
  <2>3. ASSUME NEW b \in wire, DropBuf(b) PROVE UNCHANGED lock
    BY <2>3 DEF DropBuf, workVars
  <2>4. ASSUME Collect \/ UNCHANGED vars PROVE UNCHANGED lock
    BY <2>4 DEF Collect, vars
  <2>5. QED
    BY <1>2, <2>1, <2>2, <2>3, <2>4 DEF Next, Step
<1>4. DOMAIN cache' = Caches
  <2>1. ASSUME NEW w \in Workers, Look(w) PROVE DOMAIN cache' = Caches
    BY <1>0, <2>1 DEF Look, CacheTypes
  <2>2. ASSUME NEW w \in Workers, NEW scanned \in BOOLEAN, Put(w, scanned)
        PROVE  DOMAIN cache' = Caches
    BY <1>0, <2>2 DEF Put, FillHost, Insert, CacheTypes
  <2>3. ASSUME NEW w \in Workers,
               Lock(w) \/ Build(w) \/ Set(w) \/ Done(w) \/ StartGC(w) \/ LocalCollect(w)
               \/ (\E shareable \in BOOLEAN : App(w, shareable))
               \/ (\E large \in BOOLEAN : Respond(w, large))
               \/ (\E r \in Requests : TakeRequest(w, r))
        PROVE  UNCHANGED cache
    BY <2>3 DEF Lock, Build, Set, Done, StartGC, LocalCollect, App, Respond, TakeRequest
  <2>4. ASSUME NEW b \in wire, DropBuf(b) PROVE UNCHANGED cache
    BY <2>4 DEF DropBuf
  <2>5. ASSUME Collect \/ UNCHANGED vars PROVE UNCHANGED cache
    BY <2>5 DEF Collect, vars
  <2>6. QED
    BY <1>0, <2>1, <2>2, <2>3, <2>4, <2>5 DEF Next, Step, CacheTypes
<1>5. gc' \in Workers \cup {NoOne} /\ left' \in 0..MaxRequests
  <2>1. gc \in Workers \cup {NoOne} /\ left \in 0..MaxRequests /\ MaxRequests \in Nat
    BY <1>0, EnvStringsAssumption DEF CacheTypes
  <2>2. ASSUME NEW w \in Workers, NEW r \in Requests, TakeRequest(w, r)
        PROVE  gc' = gc /\ left' \in 0..MaxRequests
    BY <2>1, <2>2 DEF TakeRequest
  <2>3. ASSUME NEW w \in Workers, StartGC(w) PROVE gc' \in Workers /\ left' = left
    BY <2>3 DEF StartGC
  <2>4. ASSUME Collect PROVE gc' = NoOne /\ left' = left
    BY <2>4 DEF Collect
  <2>5. ASSUME NEW w \in Workers,
               Lock(w) \/ Look(w) \/ Build(w) \/ Set(w) \/ Done(w) \/ LocalCollect(w)
               \/ (\E scanned \in BOOLEAN : Put(w, scanned))
               \/ (\E shareable \in BOOLEAN : App(w, shareable))
               \/ (\E large \in BOOLEAN : Respond(w, large))
        PROVE  UNCHANGED <<gc, left>>
    BY <2>5 DEF Lock, Look, Build, Set, Done, LocalCollect, Put, App, Respond, workVars
  <2>6. ASSUME NEW b \in wire, DropBuf(b) PROVE UNCHANGED <<gc, left>>
    BY <2>6 DEF DropBuf, workVars
  <2>7. ASSUME UNCHANGED vars PROVE UNCHANGED <<gc, left>>
    BY <2>7 DEF vars
  <2>8. QED
    BY <2>1, <2>2, <2>3, <2>4, <2>5, <2>6, <2>7 DEF Next, Step
<1>6. QED
  BY <1>3, <1>4, <1>5

\* The invariant is inductive.
LEMMA CacheInvStep ==
  ASSUME CacheInv, [Next]_vars
  PROVE  CacheInv'
<1>0. Inv /\ Types /\ CacheTypes /\ RootsHeld /\ RootsOwn /\ RootsUsed /\ CacheSays
  BY DEF CacheInv, Inv
<1>1. Inv'
  BY <1>0, InvStep
<1>2. \A c \in Caches : Sound(c)'
  BY CacheStep DEF EntriesKept, EntryChanged
<1>3. CacheTypes'
  <2>1. slab'["caches"] \in [CacheSlots -> Cells \cup {0}]
    BY <1>0, CacheStep DEF EntriesKept, EntryChanged, Replaced, CacheTypes
  <2>2. QED
    BY <1>2, <2>1, LockStep DEF CacheTypes
<1>4. RootsHeld' /\ RootsOwn' /\ RootsUsed'
  <2>1. CASE EntriesKept
    BY <1>0, <2>1 DEF EntriesKept, RootsHeld, RootsOwn, RootsUsed
  <2>2. CASE EntryChanged
    BY <1>0, <2>2, ReplacedRoots DEF EntryChanged
  <2>3. QED
    BY <2>1, <2>2, CacheStep
<1>5. ASSUME NEW c \in Caches, NEW e \in Members(c), NEW p \in DOMAIN e.value
      PROVE  Lasting(e.value[p])' /\ Says(e.value[p], e.key, p)'
  <2>1. PICK v, k : v = e.value[p] /\ k = e.key
    OBVIOUS
  <2>2. Lasting(v) /\ Says(v, k, p)
    BY <1>0, <1>5, <2>1 DEF CacheSays
  <2>3. "caches" \in Slabs /\ e.slot[p] \in CacheSlots /\ DOMAIN slab["caches"] = CacheSlots
    BY <1>0, <1>5, FreeUnnamed DEF Slabs, CacheTypes
  <2>4. slab["caches"][e.slot[p]] = v
    BY <1>0, <1>5, <2>1 DEF RootsHeld
  <2>5. Safe(v)
    BY <2>2, <2>3, <2>4 DEF Safe, Lasting
  <2>6. Survives(v)
    BY <1>0, <2>2, <2>5, HeapStep DEF Lasting
  <2>7. Lasting(v)' /\ Says(v, k, p)'
    BY <2>2, <2>6, SaysKept DEF Lasting, Survives
  <2>8. QED
    BY <2>1, <2>7
<1>6. CacheSays'
  <2>1. CASE EntriesKept
    BY <1>5, <2>1 DEF EntriesKept, CacheSays
  <2>2. CASE EntryChanged /\ UNCHANGED heap
    <3>1. PICK c, out, n :
            /\ Replaced(c, out, n)
            /\ \A p \in DOMAIN n.value : Lasting(n.value[p]) /\ Says(n.value[p], n.key, p)
      BY <2>2 DEF EntryChanged
    <3>2. \A p \in DOMAIN n.value : Lasting(n.value[p])' /\ Says(n.value[p], n.key, p)'
      BY <2>2, <3>1 DEF Lasting, Says
    <3>3. \A d \in Caches : \A f \in Members(d)' : f \in Members(d) \/ f = n
      BY <3>1 DEF Replaced
    <3>4. QED
      BY <1>5, <3>2, <3>3 DEF CacheSays
  <2>3. QED
    BY <2>1, <2>2, CacheStep
<1>7. QED
  BY <1>1, <1>3, <1>4, <1>6, HandsStep DEF CacheInv

\* The invariant holds at the start.
LEMMA CacheInvInit ==
  ASSUME Init
  PROVE  CacheInv
<1>1. Inv
  BY DEF Init, Inv, Types, BodyInHand, Pinned, OwnSlot, Slabs
<1>2. ASSUME NEW c \in Caches PROVE cache[c] = <<>>
  BY <1>2 DEF Init
<1>3. \A c \in Caches : Sound(c) /\ Members(c) = {}
  <2>1. ASSUME NEW c \in Caches PROVE Sound(c) /\ Members(c) = {}
    <3>1. Cap(c) \in Nat
      BY EnvStringsAssumption DEF Cap
    <3>2. cache[c] = <<>> /\ <<>> \in Seq(Entries(c)) /\ Len(<<>>) = 0
      BY <1>2
    <3>3. Distinct(<<>>) /\ Rng(<<>>) = {}
      BY DEF Distinct, Rng
    <3>4. QED
      BY <3>1, <3>2, <3>3 DEF Sound, Members
  <2>2. QED
    BY <2>1
<1>4. CacheTypes
  <2>1. slab["caches"] = [i \in CacheSlots |-> 0]
    BY DEF Init, Slabs
  <2>2. QED
    BY <1>3, <2>1, EnvStringsAssumption DEF Init, CacheTypes
<1>5. RootsHeld /\ RootsOwn /\ RootsUsed /\ CacheSays
  <2>1. slab["caches"] = [i \in CacheSlots |-> 0]
    BY DEF Init, Slabs
  <2>2. QED
    BY <1>3, <2>1 DEF RootsHeld, RootsOwn, RootsUsed, CacheSays
<1>6. Hands
  <2>1. ASSUME NEW w \in Workers PROVE Hand(w) /\ Stand(w)
    <3>1. frame[w] = Nothing /\ env[w] = Nothing /\ at[w] = "idle"
      BY DEF Init
    <3>2. DOMAIN frame[w] = {} /\ DOMAIN env[w] = {} /\ frame[w] \in [{} -> Cells]
      BY <3>1 DEF Nothing
    <3>3. QED
      BY <3>1, <3>2 DEF Hand, Stand
  <2>2. QED
    BY <2>1 DEF Init, Hands
<1>7. QED
  BY <1>1, <1>4, <1>5, <1>6 DEF CacheInv

\* A cached string is a part of some entry.
LEMMA CachedEntry ==
  ASSUME NEW x \in Cached
  PROVE  \E c \in Caches : \E e \in Members(c) : \E p \in DOMAIN e.value :
           x = [value |-> e.value[p], slot |-> e.slot[p], key |-> e.key, part |-> p]
  BY DEF Cached, Caches, Members

\* For any workers, requests, capacities, slabs and collector: the caches'
\* slab roots exactly the cached strings, each in a slot of its own, whoever
\* inserts, upgrades and evicts at once and whichever scan fails
\* (env_strings.rs:210-228, 449-455).
THEOREM SlabAgrees == Spec => []SlabExact
<1>1. CacheInv => SlabExact
  <2> SUFFICES ASSUME CacheInv PROVE SlabExact
    OBVIOUS
  <2>0. Types /\ CacheTypes /\ RootsHeld /\ RootsOwn /\ RootsUsed /\ Hands
    BY DEF CacheInv, Inv
  <2>1. TypeOK
    <3>1. \A w \in Workers : Stack(w) \subseteq Cells
      BY <2>0 DEF Hands, Hand, Fits, Stack, Rng, Types
    <3>2. \A s \in Slabs : \A i \in DOMAIN slab[s] : slab[s][i] \in Cells \cup {0}
      BY <2>0 DEF Types, CacheTypes, Slabs
    <3>3. QED
      BY <2>0, <3>1, <3>2 DEF TypeOK, Types, CacheTypes, Sound
  <2>2. \A x \in Cached : slab["caches"][x.slot] = x.value
    BY <2>0, CachedEntry DEF RootsHeld
  <2>3. ASSUME NEW x \in Cached, NEW y \in Cached, x.slot = y.slot PROVE x = y
    <3>1. PICK c \in Caches : \E e \in Members(c) : \E p \in DOMAIN e.value :
            x = [value |-> e.value[p], slot |-> e.slot[p], key |-> e.key, part |-> p]
      BY CachedEntry
    <3>2. PICK e \in Members(c) : \E p \in DOMAIN e.value :
            x = [value |-> e.value[p], slot |-> e.slot[p], key |-> e.key, part |-> p]
      BY <3>1
    <3>3. PICK p \in DOMAIN e.value :
            x = [value |-> e.value[p], slot |-> e.slot[p], key |-> e.key, part |-> p]
      BY <3>2
    <3>4. PICK d \in Caches : \E f \in Members(d) : \E q \in DOMAIN f.value :
            y = [value |-> f.value[q], slot |-> f.slot[q], key |-> f.key, part |-> q]
      BY CachedEntry
    <3>5. PICK f \in Members(d) : \E q \in DOMAIN f.value :
            y = [value |-> f.value[q], slot |-> f.slot[q], key |-> f.key, part |-> q]
      BY <3>4
    <3>6. PICK q \in DOMAIN f.value :
            y = [value |-> f.value[q], slot |-> f.slot[q], key |-> f.key, part |-> q]
      BY <3>5
    <3>7. e = f /\ p = q
      BY <2>0, <2>3, <3>3, <3>6 DEF RootsOwn
    <3>8. QED
      BY <3>3, <3>6, <3>7
  <2>4. ASSUME NEW i \in CacheSlots, slab["caches"][i] # 0 PROVE \E x \in Cached : x.slot = i
    <3>1. PICK c \in Caches : \E e \in Members(c) : \E p \in DOMAIN e.value : e.slot[p] = i
      BY <2>0, <2>4 DEF RootsUsed
    <3>2. PICK e \in Members(c) : \E p \in DOMAIN e.value : e.slot[p] = i
      BY <3>1
    <3>3. PICK p \in DOMAIN e.value : e.slot[p] = i
      BY <3>2
    <3>4. PICK x : x = [value |-> e.value[p], slot |-> e.slot[p], key |-> e.key, part |-> p]
      OBVIOUS
    <3>5. x \in Cached
      BY <3>4 DEF Cached, Members, Caches
    <3>6. QED
      BY <3>3, <3>4, <3>5
  <2>5. QED
    BY <2>1, <2>2, <2>3, <2>4 DEF SlabExact
<1>2. Init => CacheInv
  BY CacheInvInit
<1>3. CacheInv /\ [Next]_vars => CacheInv'
  BY CacheInvStep
<1>4. QED
  BY <1>1, <1>2, <1>3, PTL DEF Spec

\* For any workers, requests, capacities, slabs and collector: no collection
\* ever takes a cached string, and it says what its key says
\* (env_strings.rs:19-30, 190-201).
THEOREM CachedStringsLive == Spec => []CachedLive
<1>1. CacheInv => CachedLive
  BY CachedEntry DEF CacheInv, CacheSays, CachedLive, Lasting
<1>2. Init => CacheInv
  BY CacheInvInit
<1>3. CacheInv /\ [Next]_vars => CacheInv'
  BY CacheInvStep
<1>4. QED
  BY <1>1, <1>2, <1>3, PTL DEF Spec

\* For any workers, requests, capacities, slabs and collector: the strings a
\* worker puts into an env are alive and its own request's, from the first
\* lookup to the response, whatever happens to the entries they came from.
THEOREM EnvIsOwn == Spec => []EnvOwn
<1>1. CacheInv => EnvOwn
  <2> SUFFICES ASSUME CacheInv, NEW w \in Workers, NEW p \in Parts, NEW f \in {frame[w], env[w]},
                      p \in DOMAIN f
               PROVE  /\ f[p] \in DOMAIN heap
                      /\ IF p = "pair" THEN Says(f[p], Key(req[w]), p)
                                        ELSE heap[f[p]].text = Text(req[w], p)
    BY DEF EnvOwn
  <2>1. Fits(w, p, f[p])
    BY DEF CacheInv, Hands, Hand
  <2>2. QED
    BY <2>1 DEF Fits
<1>2. Init => CacheInv
  BY CacheInvInit
<1>3. CacheInv /\ [Next]_vars => CacheInv'
  BY CacheInvStep
<1>4. QED
  BY <1>1, <1>2, <1>3, PTL DEF Spec
=============================================================================
