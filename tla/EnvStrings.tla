------------------------------ MODULE EnvStrings ------------------------------
(***************************************************************************)
(* What keeps a Ruby string alive that Rust refers to: the LRU caches of   *)
(* env strings that every worker ractor reads, fills and evicts in         *)
(* parallel (env_strings.rs), the slabs of GC roots under them and under   *)
(* zero-copy response bodies (pin.rs), and the collections that sweep what *)
(* no root reaches.                                                        *)
(*                                                                         *)
(* SERVER_NAME and SERVER_PORT are built, rooted, read and dropped         *)
(* together and are one string here, the "pair".  One cache, "values",     *)
(* stands for the address and the header-value caches, which are the same  *)
(* code.  A slab hands out its free slots in the order of a rotating       *)
(* cursor; which free slot it is makes no difference, so it is any one.    *)
(* The lookups of one build_env do not depend on each other: a request     *)
(* makes one of them here, or is answered with a body.                     *)
(***************************************************************************)
EXTENDS Naturals, Sequences, FiniteSets, SequencesExt

CONSTANTS
  Workers,      \* worker ractors
  Requests,     \* what a request looks up: [via, text, port], port being
                \* the one its socket listens on
  MaxRequests,  \* requests served in all
  Cells,        \* heap cells: a VALUE is the number of a cell
  CacheSlots,   \* slots of the caches' slab
  PinSlots,     \* slots of the response slab
  HostCap,      \* capacity of the hosts cache
  ValueCap,     \* capacity of the values cache
  PerRactorGC,  \* Ruby 4.1: each ractor also collects its own strings
  NoOne

Parts == {"value", "pair", "host", "body"}
Caches == {"values", "hosts"}
Slabs == {"caches", "pins"}

ASSUME EnvStringsAssumption ==
  /\ IsFiniteSet(Workers) /\ NoOne \notin Workers
  /\ Cells \subseteq Nat \ {0} /\ MaxRequests \in Nat
  /\ PerRactorGC \in BOOLEAN
  /\ HostCap \in Nat \ {0} /\ ValueCap \in Nat \ {0}
  /\ CacheSlots \cap PinSlots = {} /\ NoOne \notin CacheSlots \cup PinSlots
  /\ \A r \in Requests : r.via \in {"authority", "host", "socket", "value", "body"}

VARIABLES
  heap,    \* the live strings: VALUE -> [text, owner, shareable]
  slab,    \* slab -> slot -> the VALUE it roots, 0 for none
  cache,   \* cache -> its entries, most recently used first
  lock,    \* cache -> the worker that holds its mutex
  at,      \* worker -> where it stands in build_env and the response
  hit,     \* worker -> the pair in hand came out of the cache
  req,     \* worker -> its request
  frame,   \* worker -> the VALUEs in its native frame, by part
  env,     \* worker -> the VALUEs its env hash refers to
  wire,    \* pinned bodies hyper still holds: [slot, value, text]
  gc,      \* the worker whose Ruby call wants a collection
  left     \* requests still to come

vars == <<heap, slab, cache, lock, at, hit, req, frame, env, wire, gc, left>>
workVars == <<lock, at, hit, req, frame, env, gc, left>>

Nothing == [p \in {} |-> 0]

Init ==
  /\ heap = [v \in {} |-> 0]
  /\ slab = [s \in Slabs |-> [i \in (IF s = "caches" THEN CacheSlots ELSE PinSlots) |-> 0]]
  /\ cache = [c \in Caches |-> <<>>] /\ lock = [c \in Caches |-> NoOne]
  /\ at = [w \in Workers |-> "idle"] /\ hit = [w \in Workers |-> FALSE]
  /\ req = [w \in Workers |-> NoOne]
  /\ frame = [w \in Workers |-> Nothing] /\ env = [w \in Workers |-> Nothing]
  /\ wire = {} /\ gc = NoOne /\ left = MaxRequests

-----------------------------------------------------------------------------
(* What a request's strings say                                            *)

\* mutant: the port a text names is not part of the key
KeyName(r) == IF r.via = "socket" THEN <<"socket", r.port>> ELSE <<"text", <<r.text[1], 0>>>>

\* The host a request names: the URI's authority or the Host header, or
\* nothing, and then the socket it came in on.  The key is the text alone.
Key(r) == IF r.via = "socket" THEN <<"socket", r.port>> ELSE <<"text", r.text>>

CacheOf(r) == IF r.via = "value" THEN "values" ELSE "hosts"

\* A text without a port takes the socket's.  Texts are well formed: on others
\* the header's and the authority's parser may differ.
Port(r) == IF r.via = "socket" \/ r.text[2] = 0 THEN r.port ELSE r.text[2]
Name(r) == IF r.via = "socket" THEN "ip" ELSE r.text[1]

\* HTTP_HOST is the cache's business only where no header carries it
Wanted(r) ==
  CASE r.via = "value" -> {"value"}
    [] r.via = "authority" -> {"pair", "host"}
    [] OTHER -> {"pair"}

Text(r, p) ==
  IF p = "pair" THEN <<Name(r), Port(r)>> ELSE r.text

-----------------------------------------------------------------------------
(* Ruby calls and collections                                              *)

\* a worker here is about to make a Ruby call, or is in Ruby code
InRuby(w) == at[w] \in {"idle", "build", "set", "env", "app", "respond"}

\* any Ruby call stops for a collection somebody wants
Runs(w) == gc = NoOne

FreeCells == Cells \ DOMAIN heap

Alloc(w, text, shareable) ==
  LET v == CHOOSE x \in FreeCells : TRUE IN
  [value |-> v,
   heap |-> [x \in DOMAIN heap \cup {v} |->
               IF x = v THEN [text |-> text, owner |-> w, shareable |-> shareable] ELSE heap[x]]]

Rng(f) == {f[x] : x \in DOMAIN f}

\* machine stacks are scanned, and an env is a Ruby object on one
Stack(w) == Rng(frame[w]) \cup Rng(env[w])

\* what the keepers mark, until shutdown lets go of them
Rooted == UNION {Rng(slab[s]) : s \in Slabs}

StartGC(w) ==
  /\ gc = NoOne /\ InRuby(w) /\ at[w] # "idle"
  /\ gc' = w
  /\ UNCHANGED <<heap, slab, cache, lock, at, hit, req, frame, env, wire, left>>

\* every ractor has reached the barrier: mark from all stacks and both
\* keepers, sweep the rest
Collect ==
  /\ gc # NoOne /\ \A w \in Workers : InRuby(w)
  /\ heap' = [v \in DOMAIN heap \cap (Rooted \cup UNION {Stack(w) : w \in Workers}) |-> heap[v]]
  /\ gc' = NoOne
  /\ UNCHANGED <<slab, cache, lock, at, hit, req, frame, env, wire, left>>

\* a ractor's own collection sees its own roots and spares shareable strings
LocalCollect(w) ==
  /\ PerRactorGC /\ Runs(w) /\ InRuby(w) /\ at[w] # "idle"
  /\ heap' = [v \in {x \in DOMAIN heap :
                       heap[x].owner # w \/ heap[x].shareable \/ x \in Stack(w)} |-> heap[v]]
  /\ UNCHANGED <<slab, cache, wire, workVars>>

-----------------------------------------------------------------------------
(* The slab                                                                *)

Free(s) == {i \in DOMAIN slab[s] : slab[s][i] = 0}

\* insert claims as many free slots as there are strings; a scan that other
\* claims and releases overtake may find none although the slab is not full
Claims(s, vs, scanned) ==
  IF scanned /\ Cardinality(Free(s)) >= Cardinality(vs)
  THEN {CHOOSE f \in [vs -> Free(s)] : \A x, y \in vs : f[x] = f[y] => x = y}
  ELSE {}

\* mutant: a dropped entry forgets its slots
ClearedNot(slots, is) == slots

\* release: whatever the slot holds is no longer rooted
Cleared(slots, is) == [i \in DOMAIN slots |-> IF i \in is THEN 0 ELSE slots[i]]

-----------------------------------------------------------------------------
(* The caches                                                              *)

Cap(c) == IF c = "values" THEN ValueCap ELSE HostCap

Found(c, k) == \E i \in DOMAIN cache[c] : cache[c][i].key = k
Place(c, k) == CHOOSE i \in DOMAIN cache[c] : cache[c][i].key = k
Entry(c, k) == cache[c][Place(c, k)]

\* a lookup makes the entry the most recently used one
Promoted(c, e) == <<e>> \o RemoveAt(cache[c], Place(c, e.key))

\* what an entry holds of the parts asked for
Read(e, ps) == [p \in ps \cap DOMAIN e.value |-> e.value[p]]

\* f's bindings, and g's where f has none
Over(f, g) == [p \in DOMAIN f \cup DOMAIN g |-> IF p \in DOMAIN f THEN f[p] ELSE g[p]]

Slots(e) == Rng(e.slot)

TakeRequest(w, r) ==
  /\ at[w] = "idle" /\ Runs(w) /\ left > 0
  /\ left' = left - 1
  /\ req' = [req EXCEPT ![w] = r]
  /\ at' = [at EXCEPT ![w] = IF r.via = "body" THEN "app" ELSE "look"]
  /\ UNCHANGED <<heap, slab, cache, lock, hit, frame, env, wire, gc>>

\* the mutex is taken with the GVL held: a worker that waits here reaches
\* no barrier
Lock(w) ==
  /\ at[w] \in {"look", "put"} /\ lock[CacheOf(req[w])] = NoOne
  /\ lock' = [lock EXCEPT ![CacheOf(req[w])] = w]
  /\ UNCHANGED <<heap, slab, cache, at, hit, req, frame, env, wire, gc, left>>

\* mutant: the guard lives on into the arms that build
LookKeepsLock(w) ==
  LET c == CacheOf(req[w])
      k == Key(req[w])
      ps == Wanted(req[w])
      f == IF Found(c, k) THEN Read(Entry(c, k), ps) ELSE Nothing IN
  /\ at[w] = "look" /\ lock[c] = w
  /\ cache' = IF Found(c, k) THEN [cache EXCEPT ![c] = Promoted(c, Entry(c, k))] ELSE cache
  /\ frame' = [frame EXCEPT ![w] = f]
  /\ hit' = [hit EXCEPT ![w] = Found(c, k)]
  /\ at' = [at EXCEPT ![w] = IF DOMAIN f = ps THEN "set" ELSE "build"]
  /\ lock' = IF DOMAIN f = ps THEN [lock EXCEPT ![c] = NoOne] ELSE lock
  /\ UNCHANGED <<heap, slab, req, env, wire, gc, left>>

\* the first lookup: a whole hit is used, else the missing strings are built
Look(w) ==
  LET c == CacheOf(req[w])
      k == Key(req[w])
      ps == Wanted(req[w])
      f == IF Found(c, k) THEN Read(Entry(c, k), ps) ELSE Nothing IN
  /\ at[w] = "look" /\ lock[c] = w
  /\ cache' = IF Found(c, k) THEN [cache EXCEPT ![c] = Promoted(c, Entry(c, k))] ELSE cache
  /\ frame' = [frame EXCEPT ![w] = f]
  /\ hit' = [hit EXCEPT ![w] = Found(c, k)]
  /\ at' = [at EXCEPT ![w] = IF DOMAIN f = ps THEN "set" ELSE "build"]
  /\ lock' = [lock EXCEPT ![c] = NoOne]
  /\ UNCHANGED <<heap, slab, req, env, wire, gc, left>>

\* one fresh frozen string, flagged shareable, rooted by the stack alone
Build(w) ==
  LET p == CHOOSE x \in Wanted(req[w]) : x \notin DOMAIN frame[w]
      new == Alloc(w, Text(req[w], p), TRUE)
      f == Over(frame[w], [x \in {p} |-> new.value]) IN
  /\ at[w] = "build" /\ Runs(w) /\ FreeCells # {}
  /\ heap' = new.heap
  /\ frame' = [frame EXCEPT ![w] = f]
  /\ at' = [at EXCEPT ![w] = IF DOMAIN f = Wanted(req[w]) THEN "put" ELSE "build"]
  /\ UNCHANGED <<slab, cache, lock, hit, req, env, wire, gc, left>>

\* someone else is inserting or evicting in the other cache
Overtaken(w) == \E c \in Caches : lock[c] \notin {w, NoOne}

\* The entry is rooted before it is stored; storing it in a full cache
\* evicts the least recently used one, whose slots are cleared.  Roots are
\* claimed string by string; a claim that fails gives the earlier ones back
\* before the lock is released, which is a claim of nothing.
Insert(w, c, k, strs, scanned) ==
  LET claims == Claims("caches", DOMAIN strs, scanned)
      slot == CHOOSE f \in claims : TRUE
      full == Len(cache[c]) = Cap(c)
      kept == IF full THEN SubSeq(cache[c], 1, Cap(c) - 1) ELSE cache[c]
      out == IF full THEN Slots(cache[c][Cap(c)]) ELSE {}
      rooted == [i \in CacheSlots |->
                   IF \E p \in DOMAIN strs : slot[p] = i
                   THEN strs[CHOOSE p \in DOMAIN strs : slot[p] = i]
                   ELSE slab["caches"][i]] IN
  IF claims = {}
  THEN UNCHANGED <<slab, cache>>
  ELSE /\ slab' = [slab EXCEPT !["caches"] = Cleared(rooted, out)]
       /\ cache' = [cache EXCEPT ![c] = <<[key |-> k, value |-> strs, slot |-> slot]>> \o kept]

\* mutant: the host is adopted without a root
FillHostUnrooted(w, c, e, v, scanned) ==
  /\ cache' = [cache EXCEPT ![c] = Promoted(c,
       [key |-> e.key, value |-> Over(e.value, [p \in {"host"} |-> v]), slot |-> Over(e.slot, [p \in {"host"} |-> e.slot["pair"]])])]
  /\ UNCHANGED slab

\* fill_host: an entry made by a Host header adopts the full authority
FillHost(w, c, e, v, scanned) ==
  LET claims == Claims("caches", {"host"}, scanned)
      i == (CHOOSE f \in claims : TRUE)["host"] IN
  IF "host" \in DOMAIN e.value \/ claims = {}
  THEN /\ cache' = [cache EXCEPT ![c] = Promoted(c, e)]
       /\ UNCHANGED slab
  ELSE /\ slab' = [slab EXCEPT !["caches"][i] = v]
       /\ cache' = [cache EXCEPT ![c] = Promoted(c,
            [key |-> e.key, value |-> Over(e.value, [p \in {"host"} |-> v]),
             slot |-> Over(e.slot, [p \in {"host"} |-> i])])]

\* The second lookup, strings in hand.  An entry that is there by now is
\* shared; a pair that came out of the cache is kept, and not put back when
\* its entry was evicted meanwhile.
Put(w, scanned) ==
  LET c == CacheOf(req[w])
      k == Key(req[w])
      ps == Wanted(req[w])
      e == Entry(c, k) IN
  /\ at[w] = "put" /\ lock[c] = w
  /\ scanned \/ Overtaken(w)
  /\ IF Found(c, k)
     THEN /\ IF "host" \in ps THEN FillHost(w, c, e, frame[w]["host"], scanned)
             ELSE cache' = [cache EXCEPT ![c] = Promoted(c, e)] /\ UNCHANGED slab
          /\ frame' = [frame EXCEPT ![w] =
               IF hit[w] THEN Over(Read(e, {"host"}), frame[w])
                         ELSE Over(Read(e, ps), frame[w])]
     ELSE /\ IF hit[w] THEN UNCHANGED <<slab, cache>>
             ELSE Insert(w, c, k, frame[w], scanned)
          /\ UNCHANGED frame
  /\ at' = [at EXCEPT ![w] = "set"]
  /\ lock' = [lock EXCEPT ![c] = NoOne]
  /\ UNCHANGED <<heap, hit, req, env, wire, gc, left>>

\* the aset calls, outside the lock, after which the env holds the strings
Set(w) ==
  /\ at[w] = "set" /\ Runs(w)
  /\ env' = [env EXCEPT ![w] = Over(frame[w], @)]
  /\ frame' = [frame EXCEPT ![w] = Nothing]
  /\ at' = [at EXCEPT ![w] = "env"]
  /\ UNCHANGED <<heap, slab, cache, lock, hit, req, wire, gc, left>>

\* the request is over and its env with it
Done(w) ==
  /\ at[w] = "env" /\ Runs(w)
  /\ env' = [env EXCEPT ![w] = Nothing]
  /\ at' = [at EXCEPT ![w] = "idle"]
  /\ req' = [req EXCEPT ![w] = NoOne] /\ hit' = [hit EXCEPT ![w] = FALSE]
  /\ UNCHANGED <<heap, slab, cache, lock, frame, wire, gc, left>>

-----------------------------------------------------------------------------
(* Zero-copy bodies                                                        *)

\* the app makes its body: flagged shareable or not
App(w, shareable) ==
  LET new == Alloc(w, Text(req[w], "body"), shareable) IN
  /\ at[w] = "app" /\ Runs(w) /\ FreeCells # {}
  /\ heap' = new.heap
  /\ frame' = [frame EXCEPT ![w] = [p \in {"body"} |-> new.value]]
  /\ at' = [at EXCEPT ![w] = "respond"]
  /\ UNCHANGED <<slab, cache, lock, hit, req, env, wire, gc, left>>

\* mutant: any large body is pinned, whatever collects it
PinnableAny(w) == TRUE

\* a local collection would not see the root of a string that is its own
Pinnable(w) == PerRactorGC => heap[frame[w]["body"]].shareable

\* pinned_bytes roots a large body in the response slab for as long as hyper
\* holds it; a small one, or one that finds no slot, is copied.  The
\* worker's frame ends with the call.
Respond(w, large) ==
  LET v == frame[w]["body"]
      claims == Claims("pins", {"body"}, large /\ Pinnable(w))
      i == (CHOOSE f \in claims : TRUE)["body"] IN
  /\ at[w] = "respond" /\ Runs(w)
  /\ IF claims = {}
     THEN UNCHANGED <<slab, wire>>
     ELSE /\ slab' = [slab EXCEPT !["pins"][i] = v]
          /\ wire' = wire \cup {[slot |-> i, value |-> v, text |-> heap[v].text]}
  /\ frame' = [frame EXCEPT ![w] = Nothing]
  /\ at' = [at EXCEPT ![w] = "idle"]
  /\ req' = [req EXCEPT ![w] = NoOne]
  /\ UNCHANGED <<heap, cache, lock, hit, env, gc, left>>

\* hyper drops the buffer, on a tokio thread, collection or not
DropBuf(b) ==
  /\ wire' = wire \ {b}
  /\ slab' = [slab EXCEPT !["pins"] = Cleared(@, {b.slot})]
  /\ UNCHANGED <<heap, cache, workVars>>

-----------------------------------------------------------------------------

Step(w) ==
  \/ Lock(w) \/ Look(w) \/ Build(w) \/ Set(w) \/ Done(w)
  \/ \E scanned \in BOOLEAN : Put(w, scanned)
  \/ \E shareable \in BOOLEAN : App(w, shareable)
  \/ \E large \in BOOLEAN : Respond(w, large)

Next ==
  \/ \E w \in Workers : Step(w) \/ StartGC(w) \/ LocalCollect(w)
  \/ \E w \in Workers, r \in Requests : TakeRequest(w, r)
  \/ \E b \in wire : DropBuf(b)
  \/ Collect

Spec == Init /\ [][Next]_vars

LiveSpec == Spec /\ WF_vars(Collect) /\ \A w \in Workers : WF_vars(Step(w))
-----------------------------------------------------------------------------
(* Properties                                                              *)

TypeOK ==
  /\ DOMAIN heap \subseteq Cells
  /\ \A s \in Slabs : \A i \in DOMAIN slab[s] : slab[s][i] \in Cells \cup {0}
  /\ \A c \in Caches : Len(cache[c]) <= Cap(c) /\ lock[c] \in Workers \cup {NoOne}
  /\ gc \in Workers \cup {NoOne} /\ left \in 0 .. MaxRequests
  /\ \A w \in Workers : Stack(w) \subseteq Cells

\* every string a cache holds: [value, slot, key, part]
Cached ==
  UNION {{[value |-> e.value[p], slot |-> e.slot[p], key |-> e.key, part |-> p] :
            p \in DOMAIN e.value} : e \in Rng(cache["values"]) \cup Rng(cache["hosts"])}

(* The caches' slab and the caches agree: each cached string has a slot of *)
(* its own that holds it, and no slot is left behind by an eviction, a     *)
(* lost race or a full slab (CachedStr::root and drop, env_strings.rs:210- *)
(* 228; LRU put, 449-455).                                                 *)
SlabExact ==
  /\ TypeOK
  /\ \A x \in Cached : slab["caches"][x.slot] = x.value
  /\ \A x, y \in Cached : x.slot = y.slot => x = y
  /\ \A i \in CacheSlots : slab["caches"][i] # 0 => \E x \in Cached : x.slot = i

\* A cached string says what its key says.  Where the key names no port
\* the pair carries that of the socket it was first built for, whatever
\* socket it is used on (README, "Observations"), and its port is left aside.
Says(v, k, p) ==
  CASE p # "pair" -> heap[v].text = k[2]
    [] p = "pair" /\ k[1] = "socket" -> heap[v].text = <<"ip", k[2]>>
    [] OTHER -> heap[v].text[1] = k[2][1] /\ k[2][2] \in {0, heap[v].text[2]}

(* No collection ever takes a cached string, whoever built it and whoever  *)
(* evicts what, so a hit is never a dead VALUE or another string that got  *)
(* its cell (env_strings.rs:19-30, 190-201).                               *)
CachedLive ==
  \A x \in Cached : x.value \in DOMAIN heap /\ Says(x.value, x.key, x.part)

(* An env is its request's own: from the first lookup to the response each *)
(* string in hand or in the env is alive and says what this request says,  *)
(* also when the entry it came from is evicted or upgraded in between.     *)
EnvOwn ==
  \A w \in Workers : \A p \in Parts : \A f \in {frame[w], env[w]} :
    p \in DOMAIN f =>
      /\ f[p] \in DOMAIN heap
      /\ IF p = "pair" THEN Says(f[p], Key(req[w]), p)
                        ELSE heap[f[p]].text = Text(req[w], p)

(* A body that went out without a copy stays where it is until hyper has   *)
(* dropped it, under one collection for all ractors and under one for each *)
(* (pin.rs:12-40, 202-228).                                                *)
PinnedLive ==
  \A b \in wire : /\ slab["pins"][b.slot] = b.value
                  /\ b.value \in DOMAIN heap /\ heap[b.value].text = b.text

(* Every collection gets its barrier: no ractor waits for a cache mutex    *)
(* whose holder waits in a Ruby call (env_strings.rs:25-30).               *)
GcCompletes == gc # NoOne ~> gc = NoOne
=============================================================================
