------------------------- MODULE SharedQueueProofs -------------------------
(***************************************************************************)
(* Proofs about SharedQueue for every set of requests and workers, every   *)
(* queue depth and batch size.  First type correctness, the single owner   *)
(* of a request context, and that no client is left waiting on a oneshot   *)
(* nobody can complete.  Then what the queue promises: it implements       *)
(* RequestPromise, its gauge counts the running futures, nothing is left   *)
(* in it when the workers have left in time, and a batch is answered       *)
(* before its worker lets go of it.                                        *)
(***************************************************************************)
EXTENDS SharedQueue, SequenceTheorems, FiniteSetTheorems, TLAPS

-----------------------------------------------------------------------------
(* Facts about the sequences that hold contexts.                           *)

\* Receiving takes the first element and shifts the others down.
LEMMA TailFacts ==
  ASSUME NEW S, NEW s \in Seq(S), s # <<>>
  PROVE  /\ Head(s) = s[1] /\ Head(s) \in S
         /\ Tail(s) \in Seq(S) /\ Len(s) \in Nat \ {0} /\ Len(Tail(s)) = Len(s) - 1
         /\ \A i \in 1..Len(Tail(s)) : Tail(s)[i] = s[i + 1]
  BY HeadTailProperties, LenProperties, ElementOfSeq

\* The last request of a batch leaves an empty one.
LEMMA EmptyTail ==
  ASSUME NEW S, NEW s \in Seq(S), s # <<>>
  PROVE  Len(s) = 1 <=> Tail(s) = <<>>
  <1> DEFINE t == Tail(s)
  <1>1. t \in Seq(S) /\ Len(s) \in Nat \ {0} /\ Len(t) = Len(s) - 1
    BY TailFacts
  <1> HIDE DEF t
  <1>2. t = <<>> <=> Len(t) = 0
    BY <1>1, EmptySeq
  <1>3. QED
    BY <1>1, <1>2 DEF t

\* Sending puts the context behind the others.
LEMMA AppendFacts ==
  ASSUME NEW S, NEW s \in Seq(S), NEW e \in S
  PROVE  /\ Append(s, e) \in Seq(S) /\ Len(s) \in Nat /\ Len(Append(s, e)) = Len(s) + 1
         /\ \A i \in 1..Len(s) : Append(s, e)[i] = s[i]
         /\ Append(s, e)[Len(s) + 1] = e
  BY AppendProperties, LenProperties

\* The members of a sequence.
LEMMA SetFacts ==
  ASSUME NEW S, NEW s \in Seq(S)
  PROVE  /\ ToSet(s) = {s[i] : i \in 1..Len(s)} /\ ToSet(s) \subseteq S
         /\ s = <<>> => ToSet(s) = {}
         /\ IsInjective(s) <=> \A i, j \in 1..Len(s) : s[i] = s[j] => i = j
  <1>1. DOMAIN s = 1..Len(s) /\ Len(s) \in Nat
    BY LenProperties
  <1>2. \A i \in 1..Len(s) : s[i] \in S
    BY ElementOfSeq
  <1>3. s = <<>> => 1..Len(s) = {}
    BY <1>1, EmptySeq
  <1>4. QED
    BY <1>1, <1>2, <1>3 DEF ToSet, IsInjective

\* Unparking removes one position and keeps the order of the others.
LEMMA RemoveAtFacts ==
  ASSUME NEW S, NEW s \in Seq(S), NEW i \in 1..Len(s)
  PROVE  /\ RemoveAt(s, i) \in Seq(S) /\ Len(s) \in Nat
         /\ Len(RemoveAt(s, i)) = Len(s) - 1
         /\ \A j \in 1..(Len(s) - 1) :
              RemoveAt(s, i)[j] = IF j < i THEN s[j] ELSE s[j + 1]
  <1>0. Len(s) \in Nat
    BY LenProperties
  <1> DEFINE a == SubSeq(s, 1, i - 1)
             b == SubSeq(s, i + 1, Len(s))
  <1>1. a \in Seq(S) /\ Len(a) = i - 1 /\ \A j \in 1..(i - 1) : a[j] = s[j]
    BY <1>0, SubSeqProperties
  <1>2. /\ b \in Seq(S) /\ Len(b) = Len(s) - i
        /\ \A j \in 1..(Len(s) - i) : b[j] = s[i + j]
    BY <1>0, SubSeqProperties
  <1> HIDE DEF a, b
  <1>3. /\ a \o b \in Seq(S) /\ Len(a \o b) = Len(a) + Len(b)
        /\ \A j \in 1..(Len(a) + Len(b)) :
             (a \o b)[j] = IF j <= Len(a) THEN a[j] ELSE b[j - Len(a)]
    BY <1>1, <1>2, ConcatProperties
  <1>4. \A j \in 1..(Len(s) - 1) : (a \o b)[j] = IF j < i THEN s[j] ELSE s[j + 1]
    <2> SUFFICES ASSUME NEW j \in 1..(Len(s) - 1)
                 PROVE  (a \o b)[j] = IF j < i THEN s[j] ELSE s[j + 1]
      OBVIOUS
    <2>1. CASE j < i
      BY <1>0, <1>1, <1>2, <1>3, <2>1
    <2>2. CASE ~(j < i)
      <3>1. j - (i - 1) \in 1..(Len(s) - i) /\ i + (j - (i - 1)) = j + 1
        BY <1>0, <2>2
      <3>2. (a \o b)[j] = b[j - (i - 1)]
        BY <1>0, <1>1, <1>2, <1>3, <2>2
      <3>3. QED
        BY <1>2, <2>2, <3>1, <3>2
    <2>3. QED
      BY <2>1, <2>2
  <1>5. RemoveAt(s, i) = a \o b
    BY DEF RemoveAt, a, b
  <1>6. Len(a \o b) = Len(s) - 1
    BY <1>0, <1>1, <1>2, <1>3
  <1>7. QED
    BY <1>0, <1>3, <1>4, <1>5, <1>6, Zenon

\* Teardown keeps the buffered prefix.
LEMMA PrefixFacts ==
  ASSUME NEW S, NEW s \in Seq(S), NEW n \in 0..Len(s)
  PROVE  /\ SubSeq(s, 1, n) \in Seq(S) /\ Len(s) \in Nat /\ Len(SubSeq(s, 1, n)) = n
         /\ \A j \in 1..n : SubSeq(s, 1, n)[j] = s[j]
  BY SubSeqProperties, LenProperties

\* The request a worker has just received.
LEMMA LastFacts ==
  ASSUME NEW S, NEW s \in Seq(S), s # <<>>
  PROVE  Last(s) \in ToSet(s) /\ Last(s) \in S
  <1>1. Len(s) \in Nat \ {0}
    BY TailFacts
  <1>2. Len(s) \in 1..Len(s)
    BY <1>1
  <1>3. QED
    BY <1>2, SetFacts DEF Last

\* What each operation on a duplicate-free sequence does to its members.
LEMMA AppendMembers ==
  ASSUME NEW S, NEW s \in Seq(S), NEW e \in S
  PROVE  /\ ToSet(Append(s, e)) = ToSet(s) \cup {e} /\ Last(Append(s, e)) = e
         /\ IsInjective(s) /\ e \notin ToSet(s) => IsInjective(Append(s, e))
  <1> DEFINE t == Append(s, e)
             n == Len(s)
  <1>1. /\ t \in Seq(S) /\ n \in Nat /\ Len(t) = n + 1
        /\ \A i \in 1..n : t[i] = s[i]
        /\ t[n + 1] = e
    BY AppendFacts
  <1>2. ToSet(s) = {s[i] : i \in 1..n} /\ ToSet(t) = {t[i] : i \in 1..(n + 1)}
    BY <1>1, SetFacts
  <1>3. /\ IsInjective(s) <=> \A i, j \in 1..n : s[i] = s[j] => i = j
        /\ IsInjective(t) <=> \A i, j \in 1..(n + 1) : t[i] = t[j] => i = j
    BY <1>1, SetFacts
  <1>4. Last(t) = e
    BY <1>1 DEF Last
  <1> HIDE DEF t, n
  <1>5. \A i \in 1..(n + 1) : i \in 1..n \/ i = n + 1
    BY <1>1
  <1>6. 1..n \subseteq 1..(n + 1) /\ n + 1 \in 1..(n + 1)
    BY <1>1
  <1>7. ToSet(t) = ToSet(s) \cup {e}
    BY <1>1, <1>2, <1>5, <1>6
  <1>8. ASSUME IsInjective(s), e \notin ToSet(s) PROVE IsInjective(t)
    <2> SUFFICES ASSUME NEW i \in 1..(n + 1), NEW j \in 1..(n + 1), t[i] = t[j]
                 PROVE  i = j
      BY <1>3
    <2>1. \A k \in 1..n : t[k] # e
      BY <1>1, <1>2, <1>8
    <2>2. QED
      BY <1>1, <1>3, <1>5, <1>8, <2>1
  <1>9. QED
    BY <1>4, <1>7, <1>8 DEF t

\* Taking the head of a duplicate-free sequence removes just that member.
LEMMA TailMembers ==
  ASSUME NEW S, NEW s \in Seq(S), s # <<>>
  PROVE  /\ Head(s) \in ToSet(s)
         /\ IsInjective(s) => /\ IsInjective(Tail(s))
                              /\ ToSet(Tail(s)) = ToSet(s) \ {Head(s)}
  <1> DEFINE t == Tail(s)
             n == Len(s)
  <1>1. /\ Head(s) = s[1] /\ t \in Seq(S) /\ n \in Nat \ {0} /\ Len(t) = n - 1
        /\ \A i \in 1..(n - 1) : t[i] = s[i + 1]
    BY TailFacts
  <1>2. ToSet(s) = {s[i] : i \in 1..n} /\ ToSet(t) = {t[i] : i \in 1..(n - 1)}
    BY <1>1, SetFacts
  <1>3. /\ IsInjective(s) <=> \A i, j \in 1..n : s[i] = s[j] => i = j
        /\ IsInjective(t) <=> \A i, j \in 1..(n - 1) : t[i] = t[j] => i = j
    BY <1>1, SetFacts
  <1> HIDE DEF t, n
  <1>4. 1 \in 1..n /\ \A i \in 1..(n - 1) : i + 1 \in 1..n /\ i + 1 # 1
    BY <1>1
  <1>5. \A i \in 1..n : i = 1 \/ (i - 1 \in 1..(n - 1) /\ (i - 1) + 1 = i)
    BY <1>1
  <1>6. Head(s) \in ToSet(s)
    BY <1>1, <1>2, <1>4
  <1>7. ASSUME IsInjective(s) PROVE IsInjective(t)
    <2> SUFFICES ASSUME NEW i \in 1..(n - 1), NEW j \in 1..(n - 1), t[i] = t[j]
                 PROVE  i = j
      BY <1>3
    <2>1. i + 1 = j + 1
      BY <1>1, <1>3, <1>4, <1>7
    <2>2. QED
      BY <1>1, <2>1
  <1>8. ASSUME IsInjective(s) PROVE ToSet(t) = ToSet(s) \ {Head(s)}
    <2>1. \A i \in 1..(n - 1) : t[i] \in ToSet(s) /\ t[i] # Head(s)
      BY <1>1, <1>2, <1>3, <1>4, <1>8
    <2>2. ASSUME NEW i \in 1..n, s[i] # Head(s) PROVE s[i] \in ToSet(t)
      <3>1. i - 1 \in 1..(n - 1) /\ t[i - 1] = s[i]
        BY <1>1, <1>5, <2>2
      <3>2. QED
        BY <1>2, <3>1
    <2>3. QED
      BY <1>2, <2>1, <2>2
  <1>9. QED
    BY <1>6, <1>7, <1>8 DEF t

\* Removing one position of a duplicate-free sequence removes just its member.
LEMMA RemoveAtMembers ==
  ASSUME NEW S, NEW s \in Seq(S), NEW k \in 1..Len(s), IsInjective(s)
  PROVE  IsInjective(RemoveAt(s, k)) /\ ToSet(RemoveAt(s, k)) = ToSet(s) \ {s[k]}
  <1> DEFINE t == RemoveAt(s, k)
             n == Len(s)
             From(j) == IF j < k THEN j ELSE j + 1
  <1>1. /\ t \in Seq(S) /\ n \in Nat /\ Len(t) = n - 1 /\ k \in 1..n
        /\ \A j \in 1..(n - 1) : t[j] = s[From(j)]
    BY RemoveAtFacts
  <1>2. ToSet(s) = {s[i] : i \in 1..n} /\ ToSet(t) = {t[i] : i \in 1..(n - 1)}
    BY <1>1, SetFacts
  <1>3. /\ \A i, j \in 1..n : s[i] = s[j] => i = j
        /\ IsInjective(t) <=> \A i, j \in 1..(n - 1) : t[i] = t[j] => i = j
    BY <1>1, SetFacts
  <1> HIDE DEF t, n
  <1>4. /\ \A j \in 1..(n - 1) : From(j) \in 1..n /\ From(j) # k
        /\ \A i, j \in 1..(n - 1) : From(i) = From(j) => i = j
        /\ \A i \in 1..n : i = k \/ \E j \in 1..(n - 1) : From(j) = i
    <2>1. \A j \in 1..(n - 1) : From(j) \in 1..n /\ From(j) # k
      BY <1>1
    <2>2. \A i, j \in 1..(n - 1) : From(i) = From(j) => i = j
      BY <1>1
    <2>3. ASSUME NEW i \in 1..n, i # k PROVE \E j \in 1..(n - 1) : From(j) = i
      <3>1. CASE i < k
        <4>1. i \in 1..(n - 1) /\ From(i) = i
          BY <1>1, <3>1
        <4>2. QED
          BY <4>1
      <3>2. CASE i > k
        <4>1. i - 1 \in 1..(n - 1) /\ From(i - 1) = i
          BY <1>1, <3>2
        <4>2. QED
          BY <4>1
      <3>3. QED
        BY <1>1, <2>3, <3>1, <3>2
    <2>4. QED
      BY <2>1, <2>2, <2>3
  <1> HIDE DEF From
  <1>5. IsInjective(t)
    BY <1>1, <1>3, <1>4
  <1>6. ASSUME NEW j \in 1..(n - 1) PROVE t[j] \in ToSet(s) \ {s[k]}
    <2>1. From(j) \in 1..n /\ From(j) # k /\ t[j] = s[From(j)]
      BY <1>1, <1>4
    <2>2. QED
      BY <1>1, <1>2, <1>3, <2>1
  <1>7. ASSUME NEW i \in 1..n, s[i] # s[k] PROVE s[i] \in ToSet(t)
    <2>1. PICK j \in 1..(n - 1) : From(j) = i
      BY <1>4, <1>7
    <2>2. t[j] = s[i]
      BY <1>1, <2>1
    <2>3. QED
      BY <1>2, <2>2
  <1>8. QED
    BY <1>2, <1>5, <1>6, <1>7 DEF t

\* A prefix of a duplicate-free sequence is duplicate-free.
LEMMA PrefixMembers ==
  ASSUME NEW S, NEW s \in Seq(S), NEW n \in 0..Len(s), IsInjective(s)
  PROVE  IsInjective(SubSeq(s, 1, n)) /\ ToSet(SubSeq(s, 1, n)) \subseteq ToSet(s)
  <1> DEFINE t == SubSeq(s, 1, n)
  <1>1. t \in Seq(S) /\ Len(s) \in Nat /\ Len(t) = n /\ \A j \in 1..n : t[j] = s[j]
    BY PrefixFacts
  <1>2. ToSet(s) = {s[i] : i \in 1..Len(s)} /\ ToSet(t) = {t[i] : i \in 1..n}
    BY <1>1, SetFacts
  <1>3. /\ \A i, j \in 1..Len(s) : s[i] = s[j] => i = j
        /\ IsInjective(t) <=> \A i, j \in 1..n : t[i] = t[j] => i = j
    BY <1>1, SetFacts
  <1>4. 1..n \subseteq 1..Len(s)
    BY <1>1
  <1> HIDE DEF t
  <1>5. QED
    BY <1>1, <1>2, <1>3, <1>4 DEF t

-----------------------------------------------------------------------------
(* Type correctness.                                                       *)

\* Every disjunct of Next, one case per action of the code.
LEMMA NextCases ==
  ASSUME Next
  PROVE  \/ \E r \in Requests :
              \/ Arrive(r) \/ ArriveOversize(r) \/ ClientAbort(r) \/ Send(r)
              \/ SendCompletes(r) \/ QueueTimerFires(r) \/ QueueTimeout(r)
              \/ HeadArrives(r) \/ HeadTimeout(r) \/ Written(r) \/ Collect(r)
         \/ \E w \in Workers :
              \/ Checkout(w) \/ TryReceive(w) \/ WaitTick(w) \/ Admit(w) \/ Fill(w)
              \/ CloseBody(w) \/ CloseBodyRaises(w) \/ RespondFused(w) \/ Respond(w)
              \/ AppRaises(w) \/ Crash(w) \/ AbortInflight(w) \/ Respawn(w) \/ Retire(w)
         \/ StopAccepting \/ Deadline \/ SampleQueued \/ SampleInFlight \/ DrainDeadline
         \/ CloseQueue \/ JoinWorkers \/ AbortNext \/ InterruptAll \/ KillStragglers
         \/ ShutdownRuntime
  BY DEF Next, Client, FrontStep, TakeStep, ServeStep, Supervise, Drain

\* A worker's hands hold requests, and none when its batch is empty.
LEMMA HandsFacts ==
  ASSUME TypeOK, NEW w \in Workers
  PROVE  Hands(w) \subseteq Requests /\ (held[w] = <<>> => Hands(w) = {})
  <1>1. held[w] \in Seq(Requests)
    BY DEF TypeOK
  <1>2. QED
    BY <1>1, SetFacts DEF Hands

\* A claim keeps the types of the responder's two fields.
LEMMA ClaimFacts ==
  ASSUME TypeOK, NEW rs, NEW how \in {"app", "error"}, Claim(rs, how)
  PROVE  /\ responded' \in [Requests -> BOOLEAN]
         /\ head' \in [Requests -> {"empty", "app", "error"}]
         /\ \A r \in Requests : responded'[r] <=> responded[r] \/ r \in rs
         /\ \A r \in Requests :
              head'[r] = IF r \in rs /\ ~responded[r] THEN how ELSE head[r]
  BY DEF TypeOK, Claim

\* Receiving keeps types and leaves the worker with something to admit.
LEMMA ReceiveFacts ==
  ASSUME TypeOK, NEW w \in Workers, Receive(w)
  PROVE  /\ Head(line) = line[1] /\ line[1] \in Requests
         /\ line' \in Seq(Requests) /\ line' = Tail(line) /\ line # <<>>
         /\ held' = [held EXCEPT ![w] = Append(held[w], line[1])]
         /\ held' \in [Workers -> Seq(Requests)] /\ held'[w] # <<>>
         /\ \A v \in Workers : v # w => held'[v] = held[v]
         /\ pc' = [pc EXCEPT ![w] = "admit"] /\ UNCHANGED fused
  <1>1. line \in Seq(Requests) /\ line # <<>> /\ held[w] \in Seq(Requests)
    BY DEF TypeOK, Receive
  <1>2. Head(line) = line[1] /\ Head(line) \in Requests /\ Tail(line) \in Seq(Requests)
    BY <1>1, TailFacts
  <1>3. /\ Append(held[w], line[1]) \in Seq(Requests)
        /\ Len(Append(held[w], line[1])) = Len(held[w]) + 1 /\ Len(held[w]) \in Nat
    BY <1>1, <1>2, AppendFacts
  <1>4. Append(held[w], line[1]) # <<>>
    BY <1>3, EmptySeq
  <1>5. QED
    BY <1>1, <1>2, <1>3, <1>4 DEF TypeOK, Receive, Goto

\* Moving on to the next request of the batch.
LEMMA AdvanceFacts ==
  ASSUME TypeOK, NEW w \in Workers, held[w] # <<>>, Advance(w)
  PROVE  /\ Head(held[w]) = held[w][1] /\ held[w][1] \in Requests
         /\ held' = [held EXCEPT ![w] = Tail(held[w])]
         /\ held' \in [Workers -> Seq(Requests)]
         /\ \A v \in Workers : v # w => held'[v] = held[v]
         /\ \/ pc' = [pc EXCEPT ![w] = "checkout"] /\ held'[w] = <<>>
            \/ pc' = [pc EXCEPT ![w] = "serve"] /\ held'[w] # <<>>
         /\ UNCHANGED fused
  <1>1. held[w] \in Seq(Requests)
    BY DEF TypeOK
  <1>2. /\ Head(held[w]) = held[w][1] /\ Head(held[w]) \in Requests
        /\ Tail(held[w]) \in Seq(Requests) /\ Len(held[w]) \in Nat \ {0}
        /\ Len(Tail(held[w])) = Len(held[w]) - 1
    BY <1>1, TailFacts
  <1>3. Len(held[w]) = 1 <=> Tail(held[w]) = <<>>
    BY <1>1, EmptyTail
  <1>4. QED
    BY <1>1, <1>2, <1>3 DEF TypeOK, Advance, Goto

\* Unparking a context leaves a queue of requests.
LEMMA UnparkFacts ==
  ASSUME TypeOK, NEW r \in Requests, Unpark(r)
  PROVE  line' \in Seq(Requests)
  <1>1. PICK i \in (QueueDepth + 1)..Len(line) : line[i] = r /\ line' = RemoveAt(line, i)
    BY DEF Unpark
  <1>2. line \in Seq(Requests) /\ Len(line) \in Nat
    BY LenProperties DEF TypeOK
  <1>3. i \in 1..Len(line)
    BY <1>2, SharedQueueAssumption
  <1>4. QED
    BY <1>1, <1>2, <1>3, RemoveAtFacts

\* What the runtime teardown leaves in the channel.
LEMMA QueuedFacts ==
  ASSUME TypeOK
  PROVE  Queued \in 0..Len(line) /\ Queued <= QueueDepth
  <1>1. Len(line) \in Nat
    BY LenProperties DEF TypeOK
  <1>2. QED
    BY <1>1, SharedQueueAssumption DEF Queued

\* The inductive part of type correctness: what a worker may hold where it stands.
Shape == TypeOK /\ HandsMatchPc

\* Every step keeps the types and the hands' agreement with the program counter.
LEMMA ShapeStep ==
  ASSUME Shape, [Next]_vars
  PROVE  Shape'
  <1>0. TypeOK /\ HandsMatchPc
    BY DEF Shape
  <1> USE SharedQueueAssumption
  <1> USE DEF FutureStates, Answers, PcStates, Phases, clientVars, queueVars, respVars,
              slotVars, workerVars, mainVars, Claim, Return, Goto
  <1>1. ASSUME NEW r \in Requests, Arrive(r) PROVE Shape'
    <2>1. CASE open
      <3>1. UNCHANGED <<answer, respVars, queueVars, slotVars, workerVars, garbage, mainVars>>
        BY <1>1, <2>1 DEF Arrive
      <3>2. future' = [future EXCEPT ![r] = "cloned"] /\ inFlight' = inFlight + 1
        BY <1>1, <2>1 DEF Arrive
      <3>3. future' \in [Requests -> FutureStates]
        BY <1>0, <3>2 DEF TypeOK
      <3>4. inFlight' \in Int
        BY <1>0, <3>2 DEF TypeOK
      <3>5. QED
        BY <1>0, <3>1, <3>3, <3>4 DEF Shape, TypeOK, HandsMatchPc
    <2>2. CASE ~open
      <3>1. /\ responded' \in [Requests -> BOOLEAN]
            /\ head' \in [Requests -> {"empty", "app", "error"}]
        BY <1>0, <1>1, <2>2, ClaimFacts DEF Arrive
      <3>2. QED
        BY <1>0, <1>1, <2>2, <3>1 DEF Arrive, Shape, TypeOK, HandsMatchPc
    <2>3. QED
      BY <1>0, <2>1, <2>2
  <1>2. ASSUME NEW r \in Requests, ArriveOversize(r) PROVE Shape'
    BY <1>0, <1>2 DEF ArriveOversize, Shape, TypeOK, HandsMatchPc
  <1>3. ASSUME NEW r \in Requests, ClientAbort(r) PROVE Shape'
    <2>1. CASE Unpark(r)
      <3>1. line' \in Seq(Requests)
        BY <1>0, <2>1, UnparkFacts
      <3>2. /\ responded' \in [Requests -> BOOLEAN]
            /\ head' \in [Requests -> {"empty", "app", "error"}]
        BY <1>0, <1>3, <2>1, ClaimFacts DEF ClientAbort, TypeOK
      <3>3. TypeOK'
        <4>1. future' \in [Requests -> FutureStates] /\ answer' = answer
          BY <1>0, <1>3 DEF ClientAbort, TypeOK
        <4>2. inFlight' \in Int
          BY <1>0, <1>3 DEF ClientAbort, TypeOK
        <4>3. UNCHANGED <<open, slotVars, workerVars, garbage, mainVars>>
          BY <1>3 DEF ClientAbort
        <4>4. QED
          BY <1>0, <3>1, <3>2, <4>1, <4>2, <4>3 DEF TypeOK
      <3>4. HandsMatchPc'
        BY <1>0, <1>3 DEF ClientAbort, HandsMatchPc
      <3>5. QED
        BY <3>3, <3>4 DEF Shape
    <2>2. CASE UNCHANGED <<line, respVars>>
      BY <1>0, <1>3, <2>2 DEF ClientAbort, Shape, TypeOK, HandsMatchPc
    <2>3. QED
      BY <1>0, <1>3, <2>1, <2>2 DEF ClientAbort, Shape, TypeOK, HandsMatchPc
  <1>4. ASSUME NEW r \in Requests, Send(r) PROVE Shape'
    BY <1>0, <1>4 DEF Send, Shape, TypeOK, HandsMatchPc
  <1>5. ASSUME NEW r \in Requests, SendCompletes(r) PROVE Shape'
    BY <1>0, <1>5 DEF SendCompletes, Shape, TypeOK, HandsMatchPc
  <1>6. ASSUME NEW r \in Requests, QueueTimerFires(r) PROVE Shape'
    BY <1>0, <1>6 DEF QueueTimerFires, Shape, TypeOK, HandsMatchPc
  <1>7. ASSUME NEW r \in Requests, QueueTimeout(r) PROVE Shape'
    <2>1. CASE Unpark(r)
      <3>1. line' \in Seq(Requests)
        BY <1>0, <2>1, UnparkFacts
      <3>2. /\ responded' \in [Requests -> BOOLEAN]
            /\ head' \in [Requests -> {"empty", "app", "error"}]
        BY <1>0, <1>7, <2>1, ClaimFacts DEF QueueTimeout, TypeOK
      <3>3. TypeOK'
        <4>1. future' \in [Requests -> FutureStates] /\ answer' \in [Requests -> Answers]
          BY <1>0, <1>7 DEF QueueTimeout, TypeOK
        <4>2. inFlight' \in Int
          BY <1>0, <1>7 DEF QueueTimeout, TypeOK
        <4>3. UNCHANGED <<open, slotVars, workerVars, garbage, mainVars>>
          BY <1>7 DEF QueueTimeout
        <4>4. QED
          BY <1>0, <3>1, <3>2, <4>1, <4>2, <4>3 DEF TypeOK
      <3>4. HandsMatchPc'
        BY <1>0, <1>7 DEF QueueTimeout, HandsMatchPc
      <3>5. QED
        BY <3>3, <3>4 DEF Shape
    <2>2. CASE UNCHANGED <<line, respVars>>
      BY <1>0, <1>7, <2>2 DEF QueueTimeout, Shape, TypeOK, HandsMatchPc
    <2>3. QED
      BY <1>0, <1>7, <2>1, <2>2 DEF QueueTimeout, Shape, TypeOK, HandsMatchPc
  <1>8. ASSUME NEW r \in Requests, HeadArrives(r) PROVE Shape'
    BY <1>0, <1>8 DEF HeadArrives, Shape, TypeOK, HandsMatchPc
  <1>9. ASSUME NEW r \in Requests, HeadTimeout(r) PROVE Shape'
    BY <1>0, <1>9 DEF HeadTimeout, Shape, TypeOK, HandsMatchPc
  <1>10. ASSUME NEW r \in Requests, Written(r) PROVE Shape'
    BY <1>0, <1>10 DEF Written, Shape, TypeOK, HandsMatchPc
  <1>11. ASSUME NEW r \in Requests, Collect(r) PROVE Shape'
    BY <1>0, <1>11 DEF Collect, Shape, TypeOK, HandsMatchPc
  <1>12. ASSUME NEW w \in Workers, Checkout(w) PROVE Shape'
    <2>1. CASE phase = "stopped"
      <3>1. TypeOK'
        BY <1>0, <1>12, <2>1 DEF Checkout, TakeEnds, TypeOK
      <3>2. HandsMatchPc'
        BY <1>0, <1>12, <2>1 DEF Checkout, TakeEnds, TypeOK, HandsMatchPc
      <3>3. QED
        BY <3>1, <3>2 DEF Shape
    <2>2. CASE phase # "stopped"
      BY <1>0, <1>12, <2>2 DEF Checkout, Shape, TypeOK, HandsMatchPc
    <2>3. QED
      BY <1>0, <2>1, <2>2
  <1>13. ASSUME NEW w \in Workers, TryReceive(w) PROVE Shape'
    <2>1. CASE Receive(w)
      <3>1. /\ line' \in Seq(Requests) /\ held' \in [Workers -> Seq(Requests)]
            /\ held'[w] # <<>> /\ \A v \in Workers : v # w => held'[v] = held[v]
            /\ pc' = [pc EXCEPT ![w] = "admit"] /\ UNCHANGED fused
        BY <1>0, <2>1, ReceiveFacts
      <3>2. QED
        BY <1>0, <1>13, <3>1 DEF TryReceive, Shape, TypeOK, HandsMatchPc
    <2>2. CASE TakeEnds(w)
      BY <1>0, <1>13, <2>2 DEF TryReceive, TakeEnds, Shape, TypeOK, HandsMatchPc
    <2>3. CASE Goto(w, "wait") /\ UNCHANGED <<line, held, fused>>
      BY <1>0, <1>13, <2>3 DEF TryReceive, Shape, TypeOK, HandsMatchPc
    <2>4. QED
      BY <1>0, <1>13, <2>1, <2>2, <2>3 DEF TryReceive, Shape, TypeOK, HandsMatchPc
  <1>14. ASSUME NEW w \in Workers, WaitTick(w) PROVE Shape'
    <2>1. CASE Receive(w)
      <3>1. /\ line' \in Seq(Requests) /\ held' \in [Workers -> Seq(Requests)]
            /\ held'[w] # <<>> /\ \A v \in Workers : v # w => held'[v] = held[v]
            /\ pc' = [pc EXCEPT ![w] = "admit"] /\ UNCHANGED fused
        BY <1>0, <2>1, ReceiveFacts
      <3>2. QED
        BY <1>0, <1>14, <3>1 DEF WaitTick, Shape, TypeOK, HandsMatchPc
    <2>2. CASE TakeEnds(w)
      BY <1>0, <1>14, <2>2 DEF WaitTick, TakeEnds, Shape, TypeOK, HandsMatchPc
    <2>3. QED
      BY <1>0, <1>14, <2>1, <2>2 DEF WaitTick, Shape, TypeOK, HandsMatchPc
  <1>15. ASSUME NEW w \in Workers, Admit(w) PROVE Shape'
    <2>1. Last(held[w]) \in Requests
      BY <1>0, <1>15, LastFacts DEF Admit, TypeOK, HandsMatchPc
    <2>2. QED
      BY <1>0, <1>15, <2>1 DEF Admit, Shape, TypeOK, HandsMatchPc
  <1>16. ASSUME NEW w \in Workers, Fill(w) PROVE Shape'
    <2>1. CASE Receive(w)
      <3>1. /\ line' \in Seq(Requests) /\ held' \in [Workers -> Seq(Requests)]
            /\ held'[w] # <<>> /\ \A v \in Workers : v # w => held'[v] = held[v]
            /\ pc' = [pc EXCEPT ![w] = "admit"] /\ UNCHANGED fused
        BY <1>0, <2>1, ReceiveFacts
      <3>2. QED
        BY <1>0, <1>16, <3>1 DEF Fill, Shape, TypeOK, HandsMatchPc
    <2>2. CASE /\ Goto(w, IF fused[w] THEN "close" ELSE "serve")
               /\ UNCHANGED <<line, held, fused>>
      <3>1. TypeOK'
        BY <1>0, <1>16, <2>2 DEF Fill, TypeOK
      <3>2. HandsMatchPc'
        BY <1>0, <1>16, <2>2 DEF Fill, TypeOK, HandsMatchPc
      <3>3. QED
        BY <3>1, <3>2 DEF Shape
    <2>3. QED
      BY <1>0, <1>16, <2>1, <2>2 DEF Fill, Shape, TypeOK, HandsMatchPc
  <1>17. ASSUME NEW w \in Workers, CloseBody(w) PROVE Shape'
    BY <1>0, <1>17 DEF CloseBody, Shape, TypeOK, HandsMatchPc
  <1>18. ASSUME NEW w \in Workers, CloseBodyRaises(w) PROVE Shape'
    <2>1. Hands(w) \subseteq Requests
      BY <1>0, HandsFacts
    <2>2. QED
      BY <1>0, <1>18, <2>1 DEF CloseBodyRaises, Shape, TypeOK, HandsMatchPc
  <1>19. ASSUME NEW w \in Workers, RespondFused(w) PROVE Shape'
    BY <1>0, <1>19, EmptySeq DEF RespondFused, Shape, TypeOK, HandsMatchPc
  <1>20. ASSUME NEW w \in Workers, Respond(w) PROVE Shape'
    <2>1. held[w] # <<>> /\ Advance(w)
      BY <1>0, <1>20 DEF Respond, HandsMatchPc
    <2>2. /\ held' \in [Workers -> Seq(Requests)]
          /\ \A v \in Workers : v # w => held'[v] = held[v]
          /\ \/ pc' = [pc EXCEPT ![w] = "checkout"] /\ held'[w] = <<>>
             \/ pc' = [pc EXCEPT ![w] = "serve"] /\ held'[w] # <<>>
          /\ UNCHANGED fused
      BY <1>0, <2>1, AdvanceFacts
    <2>3. QED
      BY <1>0, <1>20, <2>2 DEF Respond, Shape, TypeOK, HandsMatchPc
  <1>21. ASSUME NEW w \in Workers, AppRaises(w) PROVE Shape'
    <2>1. held[w] # <<>> /\ Advance(w)
      BY <1>0, <1>21 DEF AppRaises, HandsMatchPc
    <2>2. /\ held' \in [Workers -> Seq(Requests)]
          /\ \A v \in Workers : v # w => held'[v] = held[v]
          /\ \/ pc' = [pc EXCEPT ![w] = "checkout"] /\ held'[w] = <<>>
             \/ pc' = [pc EXCEPT ![w] = "serve"] /\ held'[w] # <<>>
          /\ UNCHANGED fused
      BY <1>0, <2>1, AdvanceFacts
    <2>3. QED
      BY <1>0, <1>21, <2>2 DEF AppRaises, Shape, TypeOK, HandsMatchPc
  <1>22. ASSUME NEW w \in Workers, Crash(w) PROVE Shape'
    <2>1. Hands(w) \subseteq Requests
      BY <1>0, HandsFacts
    <2>2. QED
      BY <1>0, <1>22, <2>1 DEF Crash, Shape, TypeOK, HandsMatchPc
  <1>23. ASSUME NEW w \in Workers, AbortInflight(w) PROVE Shape'
    BY <1>0, <1>23 DEF AbortInflight, AbortSlot, Shape, TypeOK, HandsMatchPc
  <1>24. ASSUME NEW w \in Workers, Respawn(w) PROVE Shape'
    <2>1. CASE Goto(w, "dead")
      BY <1>0, <1>24, <2>1 DEF Respawn, Shape, TypeOK, HandsMatchPc
    <2>2. ASSUME NEW v \in Workers, pc[v] = "unborn",
                 pc' = [pc EXCEPT ![w] = "dead", ![v] = "checkout"]
          PROVE  Shape'
      BY <1>0, <1>24, <2>2 DEF Respawn, Shape, TypeOK, HandsMatchPc
    <2>3. QED
      BY <1>0, <1>24, <2>1, <2>2 DEF Respawn, Shape, TypeOK, HandsMatchPc
  <1>25. ASSUME NEW w \in Workers, Retire(w) PROVE Shape'
    BY <1>0, <1>25 DEF Retire, Shape, TypeOK, HandsMatchPc
  <1>26. ASSUME StopAccepting PROVE Shape'
    BY <1>0, <1>26 DEF StopAccepting, Shape, TypeOK, HandsMatchPc
  <1>27. ASSUME Deadline PROVE Shape'
    BY <1>0, <1>27 DEF Deadline, Shape, TypeOK, HandsMatchPc
  <1>28. ASSUME SampleQueued PROVE Shape'
    BY <1>0, <1>28 DEF SampleQueued, Shape, TypeOK, HandsMatchPc
  <1>29. ASSUME SampleInFlight PROVE Shape'
    BY <1>0, <1>29 DEF SampleInFlight, Shape, TypeOK, HandsMatchPc
  <1>30. ASSUME DrainDeadline PROVE Shape'
    BY <1>0, <1>30 DEF DrainDeadline, Shape, TypeOK, HandsMatchPc
  <1>31. ASSUME CloseQueue PROVE Shape'
    BY <1>0, <1>31 DEF CloseQueue, Shape, TypeOK, HandsMatchPc
  <1>32. ASSUME JoinWorkers PROVE Shape'
    BY <1>0, <1>32 DEF JoinWorkers, Shape, TypeOK, HandsMatchPc
  <1>33. ASSUME AbortNext PROVE Shape'
    <2>1. ASSUME NEW w \in toAbort, AbortSlot(w), toAbort' = toAbort \ {w}, UNCHANGED phase
          PROVE  Shape'
      BY <1>0, <1>33, <2>1 DEF AbortNext, AbortSlot, Shape, TypeOK, HandsMatchPc
    <2>2. CASE UNCHANGED <<respVars, current, toAbort>>
      BY <1>0, <1>33, <2>2 DEF AbortNext, Shape, TypeOK, HandsMatchPc
    <2>3. QED
      BY <1>0, <1>33, <2>1, <2>2 DEF AbortNext, Shape, TypeOK, HandsMatchPc
  <1>34. ASSUME InterruptAll PROVE Shape'
    BY <1>0, <1>34 DEF InterruptAll, Shape, TypeOK, HandsMatchPc
  <1>35. ASSUME KillStragglers PROVE Shape'
    <2>1. CASE Supervised
      BY <1>0, <1>35, <2>1 DEF KillStragglers, Shape, TypeOK, HandsMatchPc
    <2>2. CASE ~Supervised
      <3>1. UNION {Hands(w) : w \in Workers} \subseteq Requests
        BY <1>0, HandsFacts
      <3>2. <<>> \in Seq(Requests)
        BY <1>0, EmptySeq
      <3>3. TypeOK'
        BY <1>0, <1>35, <2>2, <3>1, <3>2 DEF KillStragglers, TypeOK
      <3>4. HandsMatchPc'
        BY <1>0, <1>35, <2>2 DEF KillStragglers, TypeOK, HandsMatchPc
      <3>5. QED
        BY <3>3, <3>4 DEF Shape
    <2>3. QED
      BY <1>0, <2>1, <2>2
  <1>36. ASSUME ShutdownRuntime PROVE Shape'
    <2>1. SubSeq(line, 1, Queued) \in Seq(Requests)
      BY <1>0, QueuedFacts, PrefixFacts DEF TypeOK
    <2>2. QED
      BY <1>0, <1>36, <2>1 DEF ShutdownRuntime, Shape, TypeOK, HandsMatchPc
  <1>37. CASE UNCHANGED vars
    BY <1>0, <1>37 DEF vars, Shape, TypeOK, HandsMatchPc
  <1>38. QED
    BY NextCases, <1>1, <1>2, <1>3, <1>4, <1>5, <1>6, <1>7, <1>8, <1>9, <1>10, <1>11, <1>12, <1>13, <1>14, <1>15, <1>16, <1>17, <1>18, <1>19, <1>20, <1>21, <1>22, <1>23, <1>24, <1>25, <1>26, <1>27, <1>28, <1>29, <1>30, <1>31, <1>32, <1>33, <1>34, <1>35, <1>36, <1>37

\* The booted server has the right types, and empty hands.
LEMMA InitShape == Init => Shape
  <1> SUFFICES ASSUME Init PROVE Shape
    OBVIOUS
  <1>1. TypeOK
    <2>1. /\ future \in [Requests -> FutureStates] /\ answer \in [Requests -> Answers]
          /\ inFlight \in Int /\ line \in Seq(Requests) /\ open \in BOOLEAN
      BY DEF Init, FutureStates, Answers
    <2>2. /\ responded \in [Requests -> BOOLEAN]
          /\ head \in [Requests -> {"empty", "app", "error"}]
      BY DEF Init
    <2>3. /\ pc \in [Workers -> PcStates] /\ held \in [Workers -> Seq(Requests)]
          /\ fused \in [Workers -> BOOLEAN]
      BY DEF Init, PcStates
    <2>4. /\ current \in [Workers -> SUBSET Requests]
          /\ interrupted \in [Workers -> BOOLEAN] /\ retired \in [Workers -> BOOLEAN]
          /\ served \in [Requests -> Nat] /\ garbage \subseteq Requests
      BY DEF Init
    <2>5. phase \in Phases /\ late \in BOOLEAN /\ toAbort \subseteq Workers
      BY DEF Init, Phases
    <2>6. QED
      BY <2>1, <2>2, <2>3, <2>4, <2>5 DEF TypeOK
  <1>2. HandsMatchPc
    BY DEF Init, HandsMatchPc
  <1>3. QED
    BY <1>1, <1>2 DEF Shape

\* Every variable of the request path keeps its type, in every execution.
THEOREM TypeCorrect == Spec => []TypeOK
  <1>1. Init => Shape
    BY InitShape
  <1>2. Shape /\ [Next]_vars => Shape'
    BY ShapeStep
  <1>3. Shape => TypeOK
    BY DEF Shape
  <1>4. QED
    BY <1>1, <1>2, <1>3, PTL DEF Spec

-----------------------------------------------------------------------------
(* Ownership.  Most steps leave the channel, the workers' hands and the    *)
(* garbage alone; the others move contexts in one of nine ways.            *)

Keeps    == UNCHANGED <<line, held, garbage>>
Enters   == \E r \in Requests : /\ future[r] = "cloned" /\ future'[r] \in {"awaiting", "sending"}
                                /\ line' = Append(line, r) /\ UNCHANGED <<held, garbage>>
Leaves   == \E r \in Requests : /\ Unpark(r) /\ future'[r] \in {"gone", "writing"}
                                /\ UNCHANGED <<held, garbage>>
Received == \E w \in Workers : Receive(w) /\ UNCHANGED garbage
Dropped  == \E w \in Workers : /\ held' = [held EXCEPT ![w] = <<>>] /\ UNCHANGED line
                               /\ garbage' = garbage \cup Hands(w)
Fused    == \E w \in Workers : /\ held' = [held EXCEPT ![w] = <<>>] /\ UNCHANGED <<line, garbage>>
                               /\ Claim(Hands(w), "app")
Finished == \E w \in Workers : /\ held[w] # <<>> /\ Advance(w) /\ UNCHANGED <<line, garbage>>
                               /\ \E how \in {"app", "error"} : Claim({Head(held[w])}, how)
Freed    == \E r \in Requests : /\ Claim({r}, "error") /\ garbage' = garbage \ {r}
                                /\ UNCHANGED <<line, held>>
Killed   == /\ held' = [w \in Workers |-> <<>>] /\ UNCHANGED line
            /\ garbage' = garbage \cup UNION {Hands(w) : w \in Workers}
TornDown == /\ line' = SubSeq(line, 1, Queued) /\ UNCHANGED <<held, garbage>>
            /\ \A r \in Requests : future'[r] \notin {"sending", "expired", "awaiting"}

Moves == Keeps \/ Enters \/ Leaves \/ Received \/ Dropped \/ Fused \/ Finished \/ Freed
           \/ Killed \/ TornDown

\* Every step of the system is one of these moves.
LEMMA MovesOnly ==
  ASSUME Shape, [Next]_vars
  PROVE  Moves
  <1> USE DEF clientVars, queueVars, respVars, slotVars, workerVars, mainVars
  <1>0. TypeOK /\ HandsMatchPc
    BY DEF Shape
  <1>1. ASSUME NEW r \in Requests,
               \/ Arrive(r) \/ ArriveOversize(r) \/ SendCompletes(r) \/ QueueTimerFires(r)
               \/ HeadArrives(r) \/ HeadTimeout(r) \/ Written(r)
        PROVE  Moves
    <2>1. Keeps
      BY <1>1 DEF Keeps, Arrive, ArriveOversize, SendCompletes, QueueTimerFires, HeadArrives,
         HeadTimeout, Written
    <2>2. QED
      BY <2>1 DEF Moves
  <1>2. ASSUME NEW r \in Requests, Send(r) PROVE Moves
    <2>1. Enters
      BY <1>0, <1>2 DEF Enters, Send, TypeOK
    <2>2. QED
      BY <2>1 DEF Moves
  <1>3. ASSUME NEW r \in Requests, ClientAbort(r) \/ QueueTimeout(r) PROVE Moves
    <2>1. CASE Unpark(r)
      <3>1. future'[r] \in {"gone", "writing"} /\ UNCHANGED <<held, garbage>>
        BY <1>0, <1>3 DEF ClientAbort, QueueTimeout, Return, TypeOK
      <3>2. Leaves
        BY <2>1, <3>1 DEF Leaves
      <3>3. QED
        BY <3>2 DEF Moves
    <2>2. CASE UNCHANGED line
      <3>1. Keeps
        BY <1>3, <2>2 DEF Keeps, ClientAbort, QueueTimeout
      <3>2. QED
        BY <3>1 DEF Moves
    <2>3. QED
      BY <1>3, <2>1, <2>2 DEF ClientAbort, QueueTimeout
  <1>4. ASSUME NEW r \in Requests, Collect(r) PROVE Moves
    <2>1. Freed
      BY <1>4 DEF Freed, Collect
    <2>2. QED
      BY <2>1 DEF Moves
  <1>5. ASSUME NEW w \in Workers, TryReceive(w) \/ WaitTick(w) \/ Fill(w) PROVE Moves
    <2>1. Received \/ Keeps
      BY <1>5 DEF Received, Keeps, TryReceive, WaitTick, Fill, TakeEnds
    <2>2. QED
      BY <2>1 DEF Moves
  <1>6. ASSUME NEW w \in Workers,
               \/ Checkout(w) \/ Admit(w) \/ CloseBody(w) \/ AbortInflight(w) \/ Respawn(w)
               \/ Retire(w)
        PROVE  Moves
    <2>1. Keeps
      BY <1>6 DEF Keeps, Checkout, TakeEnds, Admit, CloseBody, AbortInflight, Respawn, Retire
    <2>2. QED
      BY <2>1 DEF Moves
  <1>7. ASSUME NEW w \in Workers, CloseBodyRaises(w) \/ Crash(w) PROVE Moves
    <2>1. Dropped
      BY <1>7 DEF Dropped, CloseBodyRaises, Crash
    <2>2. QED
      BY <2>1 DEF Moves
  <1>8. ASSUME NEW w \in Workers, RespondFused(w) PROVE Moves
    <2>1. Fused
      BY <1>8 DEF Fused, RespondFused
    <2>2. QED
      BY <2>1 DEF Moves
  <1>9. ASSUME NEW w \in Workers, Respond(w) \/ AppRaises(w) PROVE Moves
    <2>1. held[w] # <<>>
      BY <1>0, <1>9 DEF Respond, AppRaises, HandsMatchPc
    <2>2. Finished
      BY <1>9, <2>1 DEF Finished, Respond, AppRaises
    <2>3. QED
      BY <2>2 DEF Moves
  <1>10. ASSUME \/ StopAccepting \/ Deadline \/ SampleQueued \/ SampleInFlight
                \/ DrainDeadline \/ CloseQueue \/ JoinWorkers \/ AbortNext \/ InterruptAll
         PROVE  Moves
    <2>1. Keeps
      BY <1>10 DEF Keeps, StopAccepting, Deadline, SampleQueued, SampleInFlight,
         DrainDeadline, CloseQueue, JoinWorkers, AbortNext, InterruptAll
    <2>2. QED
      BY <2>1 DEF Moves
  <1>11. ASSUME KillStragglers PROVE Moves
    <2>1. Keeps \/ Killed
      BY <1>11 DEF Keeps, Killed, KillStragglers
    <2>2. QED
      BY <2>1 DEF Moves
  <1>12. ASSUME ShutdownRuntime PROVE Moves
    <2>1. TornDown
      BY <1>0, <1>12 DEF TornDown, ShutdownRuntime, TypeOK
    <2>2. QED
      BY <2>1 DEF Moves
  <1>13. CASE UNCHANGED vars
    <2>1. Keeps
      BY <1>13 DEF Keeps, vars
    <2>2. QED
      BY <2>1 DEF Moves
  <1>14. QED
    BY NextCases, <1>1, <1>2, <1>3, <1>4, <1>5, <1>6, <1>7, <1>8, <1>9, <1>10, <1>11, <1>12,
       <1>13

\* What a move does to the members of the channel and of each worker's hands.
LEMMA EntersMembers ==
  ASSUME TypeOK, OwnedOnce, UnsentNowhere, NEW r \in Requests, future[r] = "cloned",
         line' = Append(line, r), UNCHANGED <<held, garbage>>
  PROVE  /\ ToSet(line') = ToSet(line) \cup {r} /\ IsInjective(line')
         /\ r \notin garbage /\ \A w \in Workers : r \notin Hands(w) /\ Hands(w)' = Hands(w)
  <1>1. r \notin ToSet(line) \cup garbage /\ \A w \in Workers : r \notin Hands(w)
    BY DEF UnsentNowhere
  <1>2. line \in Seq(Requests) /\ IsInjective(line)
    BY DEF TypeOK, OwnedOnce
  <1>3. ToSet(line') = ToSet(line) \cup {r} /\ IsInjective(line')
    BY <1>1, <1>2, AppendMembers
  <1>4. QED
    BY <1>1, <1>3 DEF Hands

\* A send that gives up takes its own context out of the channel.
LEMMA LeavesMembers ==
  ASSUME TypeOK, OwnedOnce, NEW r \in Requests, Unpark(r), UNCHANGED <<held, garbage>>
  PROVE  /\ ToSet(line') = ToSet(line) \ {r} /\ IsInjective(line')
         /\ \A w \in Workers : Hands(w)' = Hands(w)
  <1>1. PICK i \in (QueueDepth + 1)..Len(line) : line[i] = r /\ line' = RemoveAt(line, i)
    BY DEF Unpark
  <1>2. line \in Seq(Requests) /\ Len(line) \in Nat /\ IsInjective(line)
    BY LenProperties DEF TypeOK, OwnedOnce
  <1>3. i \in 1..Len(line)
    BY <1>2, SharedQueueAssumption
  <1>4. ToSet(line') = ToSet(line) \ {r} /\ IsInjective(line')
    BY <1>1, <1>2, <1>3, RemoveAtMembers
  <1>5. QED
    BY <1>4 DEF Hands

\* A take moves the head of the channel into one worker's hands.
LEMMA ReceivedMembers ==
  ASSUME TypeOK, OwnedOnce, NEW w \in Workers, Receive(w)
  PROVE  /\ line[1] \in ToSet(line) /\ ToSet(line') = ToSet(line) \ {line[1]}
         /\ IsInjective(line') /\ IsInjective(held'[w])
         /\ Hands(w)' = Hands(w) \cup {line[1]} /\ Last(held'[w]) = line[1]
         /\ \A v \in Workers : v # w => held'[v] = held[v] /\ Hands(v)' = Hands(v)
  <1>1. /\ line \in Seq(Requests) /\ line # <<>> /\ IsInjective(line)
        /\ held[w] \in Seq(Requests) /\ IsInjective(held[w])
    BY DEF TypeOK, OwnedOnce, Receive
  <1>2. /\ Head(line) = line[1] /\ line[1] \in Requests /\ line' = Tail(line)
        /\ held' = [held EXCEPT ![w] = Append(held[w], line[1])]
        /\ \A v \in Workers : v # w => held'[v] = held[v]
    BY ReceiveFacts
  <1>3. /\ line[1] \in ToSet(line) /\ ToSet(line') = ToSet(line) \ {line[1]}
        /\ IsInjective(line')
    BY <1>1, <1>2, TailMembers
  <1>4. line[1] \notin Hands(w)
    BY <1>3 DEF OwnedOnce
  <1>5. held'[w] = Append(held[w], line[1])
    BY <1>2 DEF TypeOK
  <1>6. /\ ToSet(held'[w]) = ToSet(held[w]) \cup {line[1]} /\ IsInjective(held'[w])
        /\ Last(held'[w]) = line[1]
    BY <1>1, <1>2, <1>4, <1>5, AppendMembers DEF Hands
  <1>7. QED
    BY <1>2, <1>3, <1>6 DEF Hands

\* A crash, or body.close raising, moves a worker's hands to the garbage.
LEMMA DroppedMembers ==
  ASSUME TypeOK, NEW w \in Workers, held' = [held EXCEPT ![w] = <<>>]
  PROVE  /\ Hands(w)' = {} /\ IsInjective(held'[w])
         /\ \A v \in Workers : v # w => held'[v] = held[v] /\ Hands(v)' = Hands(v)
  <1>1. held'[w] = <<>> /\ \A v \in Workers : v # w => held'[v] = held[v]
    BY DEF TypeOK
  <1>2. ToSet(<<>>) = {} /\ IsInjective(<<>>)
    BY DEF ToSet, IsInjective
  <1>3. QED
    BY <1>1, <1>2 DEF Hands

\* Answering a request lets go of the head of the batch only.
LEMMA FinishedMembers ==
  ASSUME TypeOK, OwnedOnce, NEW w \in Workers, held[w] # <<>>, Advance(w)
  PROVE  /\ Head(held[w]) \in Hands(w) /\ Hands(w)' = Hands(w) \ {Head(held[w])}
         /\ IsInjective(held'[w])
         /\ \A v \in Workers : v # w => held'[v] = held[v] /\ Hands(v)' = Hands(v)
  <1>1. held[w] \in Seq(Requests) /\ IsInjective(held[w])
    BY DEF TypeOK, OwnedOnce
  <1>2. /\ held' = [held EXCEPT ![w] = Tail(held[w])]
        /\ \A v \in Workers : v # w => held'[v] = held[v]
    BY AdvanceFacts
  <1>3. held'[w] = Tail(held[w])
    BY <1>2 DEF TypeOK
  <1>4. /\ Head(held[w]) \in ToSet(held[w]) /\ IsInjective(held'[w])
        /\ ToSet(held'[w]) = ToSet(held[w]) \ {Head(held[w])}
    BY <1>1, <1>3, TailMembers
  <1>5. QED
    BY <1>2, <1>4 DEF Hands

\* The teardown removes parked senders' contexts and nothing else.
LEMMA TornDownMembers ==
  ASSUME TypeOK, OwnedOnce, line' = SubSeq(line, 1, Queued), UNCHANGED held
  PROVE  /\ ToSet(line') \subseteq ToSet(line) /\ IsInjective(line')
         /\ \A w \in Workers : Hands(w)' = Hands(w)
  <1>1. line \in Seq(Requests) /\ IsInjective(line) /\ Queued \in 0..Len(line)
    BY QueuedFacts DEF TypeOK, OwnedOnce
  <1>2. ToSet(line') \subseteq ToSet(line) /\ IsInjective(line')
    BY <1>1, PrefixMembers
  <1>3. QED
    BY <1>2 DEF Hands

\* No move gives a context a second owner.
LEMMA OwnedOnceStep ==
  ASSUME TypeOK, OwnedOnce, UnsentNowhere, Moves
  PROVE  OwnedOnce'
  <1>1. CASE Keeps
    BY <1>1 DEF Keeps, OwnedOnce, Hands
  <1>2. CASE Enters
    <2>1. PICK r \in Requests : /\ future[r] = "cloned" /\ line' = Append(line, r)
                                /\ UNCHANGED <<held, garbage>>
      BY <1>2 DEF Enters
    <2>2. /\ ToSet(line') = ToSet(line) \cup {r} /\ IsInjective(line')
          /\ r \notin garbage /\ \A w \in Workers : r \notin Hands(w) /\ Hands(w)' = Hands(w)
      BY <2>1, EntersMembers
    <2>3. QED
      BY <2>1, <2>2 DEF OwnedOnce
  <1>3. CASE Leaves
    <2>1. PICK r \in Requests : Unpark(r) /\ UNCHANGED <<held, garbage>>
      BY <1>3 DEF Leaves
    <2>2. /\ ToSet(line') = ToSet(line) \ {r} /\ IsInjective(line')
          /\ \A w \in Workers : Hands(w)' = Hands(w)
      BY <2>1, LeavesMembers
    <2>3. QED
      BY <2>1, <2>2 DEF OwnedOnce
  <1>4. CASE Received
    <2>1. PICK w \in Workers : Receive(w) /\ UNCHANGED garbage
      BY <1>4 DEF Received
    <2>2. /\ line[1] \in ToSet(line) /\ ToSet(line') = ToSet(line) \ {line[1]}
          /\ IsInjective(line') /\ IsInjective(held'[w])
          /\ Hands(w)' = Hands(w) \cup {line[1]}
          /\ \A v \in Workers : v # w => held'[v] = held[v] /\ Hands(v)' = Hands(v)
      BY <2>1, ReceivedMembers
    <2>3. \A v \in Workers : IsInjective(held'[v])
      BY <2>2 DEF OwnedOnce
    <2>4. \A v \in Workers : Hands(v)' \cap (ToSet(line') \cup garbage') = {}
      BY <2>1, <2>2 DEF OwnedOnce
    <2>5. \A u, v \in Workers : u # v => Hands(u)' \cap Hands(v)' = {}
      BY <2>2 DEF OwnedOnce
    <2>6. QED
      BY <2>1, <2>2, <2>3, <2>4, <2>5 DEF OwnedOnce
  <1>5. CASE Dropped \/ Fused
    <2>1. PICK w \in Workers :
            /\ held' = [held EXCEPT ![w] = <<>>] /\ UNCHANGED line
            /\ garbage' = garbage \cup Hands(w) \/ UNCHANGED garbage
      BY <1>5 DEF Dropped, Fused
    <2>2. /\ Hands(w)' = {} /\ IsInjective(held'[w])
          /\ \A v \in Workers : v # w => held'[v] = held[v] /\ Hands(v)' = Hands(v)
      BY <2>1, DroppedMembers
    <2>3. \A v \in Workers : IsInjective(held'[v])
      BY <2>2 DEF OwnedOnce
    <2>4. \A v \in Workers : Hands(v)' \cap (ToSet(line') \cup garbage') = {}
      BY <2>1, <2>2 DEF OwnedOnce
    <2>5. \A u, v \in Workers : u # v => Hands(u)' \cap Hands(v)' = {}
      BY <2>2 DEF OwnedOnce
    <2>6. ToSet(line') \cap garbage' = {}
      BY <2>1 DEF OwnedOnce
    <2>7. QED
      BY <2>1, <2>2, <2>3, <2>4, <2>5, <2>6 DEF OwnedOnce
  <1>6. CASE Finished
    <2>1. PICK w \in Workers : held[w] # <<>> /\ Advance(w) /\ UNCHANGED <<line, garbage>>
      BY <1>6 DEF Finished
    <2>2. /\ Hands(w)' = Hands(w) \ {Head(held[w])} /\ IsInjective(held'[w])
          /\ \A v \in Workers : v # w => held'[v] = held[v] /\ Hands(v)' = Hands(v)
      BY <2>1, FinishedMembers
    <2>3. \A v \in Workers : IsInjective(held'[v]) /\ Hands(v)' \subseteq Hands(v)
      BY <2>2 DEF OwnedOnce
    <2>4. QED
      BY <2>1, <2>3 DEF OwnedOnce
  <1>7. CASE Freed
    BY <1>7 DEF Freed, OwnedOnce, Hands
  <1>8. CASE Killed
    <2>1. ToSet(<<>>) = {} /\ IsInjective(<<>>)
      BY DEF ToSet, IsInjective
    <2>2. \A w \in Workers : Hands(w)' = {} /\ IsInjective(held'[w])
      BY <1>8, <2>1 DEF Killed, Hands
    <2>3. ToSet(line') \cap garbage' = {}
      BY <1>8 DEF Killed, OwnedOnce
    <2>4. QED
      BY <1>8, <2>2, <2>3 DEF Killed, OwnedOnce
  <1>9. CASE TornDown
    <2>1. /\ ToSet(line') \subseteq ToSet(line) /\ IsInjective(line')
          /\ \A w \in Workers : Hands(w)' = Hands(w)
          /\ UNCHANGED <<held, garbage>>
      BY <1>9, TornDownMembers DEF TornDown
    <2>2. QED
      BY <2>1 DEF OwnedOnce
  <1>10. QED
    BY <1>1, <1>2, <1>3, <1>4, <1>5, <1>6, <1>7, <1>8, <1>9 DEF Moves

\* The three places where a context can be.
Owned(r) == r \in ToSet(line) \cup garbage \/ \E w \in Workers : r \in Hands(w)

\* A request whose client still waits for the head.
Waiting(r) == future[r] \in {"sending", "expired", "awaiting"}

\* A context comes into being only when its future sends it, and is let go of
\* only answered, or with a future that no longer waits.
LEMMA OwnedStep ==
  ASSUME TypeOK, OwnedOnce, UnsentNowhere, Moves, NEW r \in Requests
  PROVE  /\ Owned(r)' => Owned(r) \/ future'[r] \in {"sending", "awaiting"}
         /\ Owned(r) => Owned(r)' \/ responded'[r] \/ ~Waiting(r)'
  <1>1. CASE Keeps
    BY <1>1 DEF Keeps, Owned, Hands
  <1>2. CASE Enters
    <2>1. PICK q \in Requests : /\ future[q] = "cloned" /\ line' = Append(line, q)
                                /\ UNCHANGED <<held, garbage>>
                                /\ future'[q] \in {"awaiting", "sending"}
      BY <1>2 DEF Enters
    <2>2. ToSet(line') = ToSet(line) \cup {q} /\ \A w \in Workers : Hands(w)' = Hands(w)
      BY <2>1, EntersMembers
    <2>3. QED
      BY <2>1, <2>2 DEF Owned
  <1>3. CASE Leaves
    <2>1. PICK q \in Requests : /\ Unpark(q) /\ UNCHANGED <<held, garbage>>
                                /\ future'[q] \in {"gone", "writing"}
      BY <1>3 DEF Leaves
    <2>2. ToSet(line') = ToSet(line) \ {q} /\ \A w \in Workers : Hands(w)' = Hands(w)
      BY <2>1, LeavesMembers
    <2>3. QED
      BY <2>1, <2>2 DEF Owned, Waiting
  <1>4. CASE Received
    <2>1. PICK w \in Workers : Receive(w) /\ UNCHANGED garbage
      BY <1>4 DEF Received
    <2>2. /\ line[1] \in ToSet(line) /\ ToSet(line') = ToSet(line) \ {line[1]}
          /\ Hands(w)' = Hands(w) \cup {line[1]}
          /\ \A v \in Workers : v # w => Hands(v)' = Hands(v)
      BY <2>1, ReceivedMembers
    <2>3. QED
      BY <2>1, <2>2 DEF Owned
  <1>5. CASE Dropped
    <2>1. PICK w \in Workers : /\ held' = [held EXCEPT ![w] = <<>>] /\ UNCHANGED line
                               /\ garbage' = garbage \cup Hands(w)
      BY <1>5 DEF Dropped
    <2>2. Hands(w)' = {} /\ \A v \in Workers : v # w => Hands(v)' = Hands(v)
      BY <2>1, DroppedMembers
    <2>3. QED
      BY <2>1, <2>2 DEF Owned
  <1>6. CASE Fused
    <2>1. PICK w \in Workers : /\ held' = [held EXCEPT ![w] = <<>>]
                               /\ UNCHANGED <<line, garbage>> /\ Claim(Hands(w), "app")
      BY <1>6 DEF Fused
    <2>2. Hands(w)' = {} /\ \A v \in Workers : v # w => Hands(v)' = Hands(v)
      BY <2>1, DroppedMembers
    <2>3. r \in Hands(w) => responded'[r]
      BY <2>1, ClaimFacts
    <2>4. QED
      BY <2>1, <2>2, <2>3 DEF Owned
  <1>7. CASE Finished
    <2>1. PICK w \in Workers :
            /\ held[w] # <<>> /\ Advance(w) /\ UNCHANGED <<line, garbage>>
            /\ \E how \in {"app", "error"} : Claim({Head(held[w])}, how)
      BY <1>7 DEF Finished
    <2>2. /\ Head(held[w]) \in Hands(w) /\ Hands(w)' = Hands(w) \ {Head(held[w])}
          /\ \A v \in Workers : v # w => Hands(v)' = Hands(v)
      BY <2>1, FinishedMembers
    <2>3. r = Head(held[w]) => responded'[r]
      BY <2>1, ClaimFacts
    <2>4. QED
      BY <2>1, <2>2, <2>3 DEF Owned
  <1>8. CASE Freed
    <2>1. PICK q \in Requests : /\ Claim({q}, "error") /\ garbage' = garbage \ {q}
                                /\ UNCHANGED <<line, held>>
      BY <1>8 DEF Freed
    <2>2. r = q => responded'[r]
      BY <2>1, ClaimFacts
    <2>3. QED
      BY <2>1, <2>2 DEF Owned, Hands
  <1>9. CASE Killed
    <2>1. ToSet(<<>>) = {}
      BY DEF ToSet
    <2>2. \A w \in Workers : Hands(w)' = {}
      BY <1>9, <2>1 DEF Killed, Hands
    <2>3. QED
      BY <1>9, <2>2 DEF Killed, Owned
  <1>10. CASE TornDown
    <2>1. ToSet(line') \subseteq ToSet(line) /\ \A w \in Workers : Hands(w)' = Hands(w)
      BY <1>10, TornDownMembers DEF TornDown
    <2>2. QED
      BY <1>10, <2>1 DEF TornDown, Owned, Waiting
  <1>11. QED
    BY <1>1, <1>2, <1>3, <1>4, <1>5, <1>6, <1>7, <1>8, <1>9, <1>10 DEF Moves

\* A future starts waiting for a head only by sending its context, and never
\* goes back to being unsent.
LEMMA FutureStep ==
  ASSUME Shape, [Next]_vars, NEW q \in Requests
  PROVE  /\ future'[q] \in {"idle", "cloned"} => future[q] \in {"idle", "cloned"}
         /\ Waiting(q)' => Waiting(q) \/ q \in ToSet(line')
  <1> USE DEF clientVars, queueVars, respVars, slotVars, workerVars, mainVars, Waiting
  <1>0. TypeOK /\ future \in [Requests -> FutureStates] /\ line \in Seq(Requests)
    BY DEF Shape, TypeOK
  <1>1. ASSUME NEW r \in Requests,
               \/ Arrive(r) \/ ArriveOversize(r) \/ ClientAbort(r) \/ SendCompletes(r)
               \/ QueueTimerFires(r) \/ QueueTimeout(r) \/ HeadArrives(r) \/ HeadTimeout(r)
               \/ Written(r)
        PROVE  /\ future'[q] \in {"idle", "cloned"} => future[q] \in {"idle", "cloned"}
               /\ Waiting(q)' => Waiting(q)
    BY <1>0, <1>1 DEF Arrive, ArriveOversize, ClientAbort, SendCompletes, QueueTimerFires,
       QueueTimeout, HeadArrives, HeadTimeout, Written, Return
  <1>2. ASSUME NEW r \in Requests, Send(r)
        PROVE  /\ future'[q] \in {"idle", "cloned"} => future[q] \in {"idle", "cloned"}
               /\ Waiting(q)' => Waiting(q) \/ q \in ToSet(line')
    <2>1. line' = Append(line, r) /\ q # r => future'[q] = future[q]
      BY <1>0, <1>2 DEF Send
    <2>2. ToSet(line') = ToSet(line) \cup {r}
      BY <1>0, <1>2, AppendMembers DEF Send
    <2>3. future'[r] \in {"awaiting", "sending"}
      BY <1>0, <1>2 DEF Send
    <2>4. QED
      BY <1>0, <1>2, <2>2, <2>3 DEF Send
  <1>3. ASSUME \E w \in Workers :
                 \/ Checkout(w) \/ TryReceive(w) \/ WaitTick(w) \/ Admit(w) \/ Fill(w)
                 \/ CloseBody(w) \/ CloseBodyRaises(w) \/ RespondFused(w) \/ Respond(w)
                 \/ AppRaises(w) \/ Crash(w) \/ AbortInflight(w) \/ Respawn(w) \/ Retire(w)
        PROVE  UNCHANGED future
    BY <1>3 DEF Checkout, TryReceive, WaitTick, Admit, Fill, CloseBody, CloseBodyRaises,
       RespondFused, Respond, AppRaises, Crash, AbortInflight, Respawn, Retire
  <1>4. ASSUME \/ StopAccepting \/ Deadline \/ SampleQueued \/ SampleInFlight
               \/ DrainDeadline \/ CloseQueue \/ JoinWorkers \/ AbortNext \/ InterruptAll
               \/ KillStragglers \/ \E r \in Requests : Collect(r)
        PROVE  UNCHANGED future
    BY <1>4 DEF StopAccepting, Deadline, SampleQueued, SampleInFlight, DrainDeadline,
       CloseQueue, JoinWorkers, AbortNext, InterruptAll, KillStragglers, Collect
  <1>5. ASSUME ShutdownRuntime
        PROVE  /\ future'[q] \in {"idle", "cloned"} => future[q] \in {"idle", "cloned"}
               /\ ~Waiting(q)'
    BY <1>0, <1>5 DEF ShutdownRuntime
  <1>6. CASE UNCHANGED vars
    BY <1>6 DEF vars
  <1>7. QED
    BY NextCases, <1>1, <1>2, <1>3, <1>4, <1>5, <1>6

\* The responders change only by claims.
LEMMA ClaimsOnly ==
  ASSUME [Next]_vars
  PROVE  \/ UNCHANGED respVars
         \/ \E rs, how : how \in {"app", "error"} /\ Claim(rs, how)
  <1> USE DEF clientVars, queueVars, slotVars, workerVars, mainVars
  <1>1. ASSUME NEW r \in Requests,
               \/ Arrive(r) \/ ArriveOversize(r) \/ ClientAbort(r) \/ QueueTimeout(r)
               \/ Collect(r)
        PROVE  UNCHANGED respVars \/ Claim({r}, "error")
    BY <1>1 DEF Arrive, ArriveOversize, ClientAbort, QueueTimeout, Collect
  <1>2. ASSUME NEW r \in Requests,
               \/ Send(r) \/ SendCompletes(r) \/ QueueTimerFires(r) \/ HeadArrives(r)
               \/ HeadTimeout(r) \/ Written(r)
        PROVE  UNCHANGED respVars
    BY <1>2 DEF Send, SendCompletes, QueueTimerFires, HeadArrives, HeadTimeout, Written
  <1>3. ASSUME NEW w \in Workers,
               \/ Checkout(w) \/ TryReceive(w) \/ WaitTick(w) \/ Admit(w) \/ Fill(w)
               \/ CloseBody(w) \/ CloseBodyRaises(w) \/ Crash(w) \/ Respawn(w) \/ Retire(w)
        PROVE  UNCHANGED respVars
    BY <1>3 DEF Checkout, TryReceive, WaitTick, Admit, Fill, CloseBody, CloseBodyRaises,
       Crash, Respawn, Retire
  <1>4. ASSUME NEW w \in Workers,
               RespondFused(w) \/ Respond(w) \/ AppRaises(w) \/ AbortInflight(w)
        PROVE  \/ Claim(Hands(w), "app") \/ Claim({Head(held[w])}, "app")
               \/ Claim({Head(held[w])}, "error") \/ Claim(current[w], "error")
    BY <1>4 DEF RespondFused, Respond, AppRaises, AbortInflight, AbortSlot
  <1>5. ASSUME \/ StopAccepting \/ Deadline \/ SampleQueued \/ SampleInFlight
               \/ DrainDeadline \/ CloseQueue \/ JoinWorkers \/ InterruptAll
               \/ KillStragglers
        PROVE  UNCHANGED respVars
    BY <1>5 DEF StopAccepting, Deadline, SampleQueued, SampleInFlight, DrainDeadline,
       CloseQueue, JoinWorkers, InterruptAll, KillStragglers
  <1>6. ASSUME AbortNext
        PROVE  UNCHANGED respVars \/ \E w \in toAbort : Claim(current[w], "error")
    BY <1>6 DEF AbortNext, AbortSlot
  <1>7. ASSUME ShutdownRuntime
        PROVE  Claim({r \in Requests : Blocked(r)}, "error")
    BY <1>7 DEF ShutdownRuntime
  <1>8. CASE UNCHANGED vars
    BY <1>8 DEF vars
  <1>9. QED
    BY NextCases, <1>1, <1>2, <1>3, <1>4, <1>5, <1>6, <1>7, <1>8

\* An answer is never taken back, and every claim sends a head.
LEMMA ResponderStep ==
  ASSUME TypeOK, [Next]_vars, NEW r \in Requests, responded[r] => head[r] # "empty"
  PROVE  /\ responded[r] => responded'[r]
         /\ responded'[r] => head'[r] # "empty"
  <1>1. CASE UNCHANGED respVars
    BY <1>1 DEF respVars
  <1>2. ASSUME NEW rs, NEW how \in {"app", "error"}, Claim(rs, how)
        PROVE  /\ responded[r] => responded'[r]
               /\ responded'[r] => head'[r] # "empty"
    <2>1. /\ responded'[r] <=> responded[r] \/ r \in rs
          /\ head'[r] = IF r \in rs /\ ~responded[r] THEN how ELSE head[r]
      BY <1>2, ClaimFacts
    <2>2. QED
      BY <2>1
  <1>3. QED
    BY <1>1, <1>2, ClaimsOnly

\* What is unsent stays off the Ruby side.
LEMMA UnsentStep ==
  ASSUME Shape, OwnedOnce, UnsentNowhere, [Next]_vars
  PROVE  UnsentNowhere'
  <1>1. Moves /\ TypeOK
    BY MovesOnly DEF Shape
  <1> SUFFICES ASSUME NEW r \in Requests, future'[r] \in {"idle", "cloned"}
               PROVE  ~Owned(r)'
    BY DEF UnsentNowhere, Owned
  <1>2. ~Owned(r)
    BY FutureStep DEF UnsentNowhere, Owned
  <1>3. QED
    BY <1>1, <1>2, OwnedStep

\* No step orphans a waiting client.
LEMMA AnswerableStep ==
  ASSUME Shape, OwnedOnce, UnsentNowhere, Answerable, [Next]_vars
  PROVE  Answerable'
  <1>1. Moves /\ TypeOK
    BY MovesOnly DEF Shape
  <1> SUFFICES ASSUME NEW r \in Requests
               PROVE  /\ Waiting(r)' /\ ~responded'[r] => Owned(r)'
                      /\ responded'[r] => head'[r] # "empty"
    BY DEF Answerable, Owned, InLine, Waiting
  <1>2. /\ Waiting(r) /\ ~responded[r] => Owned(r)
        /\ responded[r] => head[r] # "empty"
    BY DEF Answerable, Owned, InLine, Waiting
  <1>3. /\ responded[r] => responded'[r]
        /\ responded'[r] => head'[r] # "empty"
    BY <1>1, <1>2, ResponderStep
  <1>4. ASSUME Waiting(r)', ~responded'[r] PROVE Owned(r)'
    <2>1. CASE Waiting(r)
      BY <1>1, <1>2, <1>3, <1>4, <2>1, OwnedStep
    <2>2. CASE r \in ToSet(line')
      BY <2>2 DEF Owned
    <2>3. QED
      BY <1>4, <2>1, <2>2, FutureStep
  <1>5. QED
    BY <1>3, <1>4

\* One worker's part of ListedWhileHeld.
Listed(w) == \A r \in Hands(w) :
  ~responded[r] /\ ~(pc[w] = "admit" /\ r = Last(held[w])) => r \in current[w]

\* Answers given meanwhile do not hurt a worker that stays where it is.
LEMMA ListedKept ==
  ASSUME NEW w \in Workers, Listed(w), \A r \in Requests : responded[r] => responded'[r],
         Hands(w) \subseteq Requests, held'[w] = held[w], current'[w] = current[w],
         pc'[w] = pc[w] \/ pc[w] # "admit"
  PROVE  Listed(w)'
  BY DEF Listed, Hands

\* Whatever a worker, the supervisor or the shutdown does, what a worker has
\* admitted and not answered stays on its slot's list.
LEMMA ListedStep ==
  ASSUME Shape, OwnedOnce, Answerable, ListedWhileHeld, [Next]_vars
  PROVE  ListedWhileHeld'
  <1> USE DEF clientVars, queueVars, respVars, slotVars, workerVars, mainVars
  <1>0. TypeOK /\ HandsMatchPc
    BY DEF Shape
  <1> SUFFICES ASSUME NEW v \in Workers
               PROVE  Listed(v)'
    BY DEF ListedWhileHeld, Listed
  <1>1. Listed(v) /\ Hands(v) \subseteq Requests
    BY <1>0, HandsFacts DEF ListedWhileHeld, Listed
  <1>2. \A r \in Requests : responded[r] => responded'[r]
    BY <1>0, ResponderStep DEF Answerable
  <1>3. held'[v] = <<>> => Listed(v)'
    <2>1. ToSet(<<>>) = {}
      BY DEF ToSet
    <2>2. QED
      BY <2>1 DEF Listed, Hands
  <1>4. UNCHANGED <<held, current, pc>> => Listed(v)'
    BY <1>1, <1>2, ListedKept
  <1>5. ASSUME \E r \in Requests :
                 \/ Arrive(r) \/ ArriveOversize(r) \/ ClientAbort(r) \/ Send(r)
                 \/ SendCompletes(r) \/ QueueTimerFires(r) \/ QueueTimeout(r)
                 \/ HeadArrives(r) \/ HeadTimeout(r) \/ Written(r) \/ Collect(r)
        PROVE  UNCHANGED <<held, current, pc>>
    BY <1>5 DEF Arrive, ArriveOversize, ClientAbort, Send, SendCompletes, QueueTimerFires,
       QueueTimeout, HeadArrives, HeadTimeout, Written, Collect
  <1>6. ASSUME NEW w \in Workers, Checkout(w) PROVE Listed(v)'
    <2>1. CASE v = w
      BY <1>0, <1>3, <1>6, <2>1 DEF Checkout, TakeEnds, HandsMatchPc
    <2>2. CASE v # w
      <3>1. held'[v] = held[v] /\ current'[v] = current[v] /\ pc'[v] = pc[v]
        BY <1>0, <1>6, <2>2 DEF Checkout, TakeEnds, Goto, TypeOK
      <3>2. QED
        BY <1>1, <1>2, <3>1, ListedKept
    <2>3. QED
      BY <2>1, <2>2
  <1>7. ASSUME NEW w \in Workers, TryReceive(w) \/ WaitTick(w) \/ Fill(w) PROVE Listed(v)'
    <2>1. UNCHANGED <<responded, current>> /\ pc[w] # "admit"
      BY <1>7 DEF TryReceive, WaitTick, Fill
    <2>2. CASE Receive(w)
      <3>1. /\ Hands(w)' = Hands(w) \cup {line[1]} /\ Last(held'[w]) = line[1]
            /\ \A u \in Workers : u # w => held'[u] = held[u]
        BY <1>0, <2>2, ReceivedMembers
      <3>2. pc'[w] = "admit" /\ \A u \in Workers : u # w => pc'[u] = pc[u]
        BY <1>0, <2>2 DEF Receive, Goto, TypeOK
      <3>3. CASE v = w
        BY <1>1, <2>1, <3>1, <3>2, <3>3 DEF Listed
      <3>4. CASE v # w
        BY <1>1, <1>2, <2>1, <3>1, <3>2, <3>4, ListedKept
      <3>5. QED
        BY <3>3, <3>4
    <2>3. CASE UNCHANGED held
      <3>1. \A u \in Workers : pc'[u] = pc[u] \/ pc[u] # "admit"
        BY <1>0, <1>7, <2>1, <2>3 DEF TryReceive, WaitTick, Fill, TakeEnds, Goto, Receive, TypeOK
      <3>2. QED
        BY <1>1, <1>2, <2>1, <2>3, <3>1, ListedKept
    <2>4. QED
      BY <1>7, <2>2, <2>3 DEF TryReceive, WaitTick, Fill, TakeEnds
  <1>8. ASSUME NEW w \in Workers, Admit(w) PROVE Listed(v)'
    <2>1. /\ held' = held /\ responded' = responded
          /\ current'[w] = current[w] \cup {Last(held[w])} /\ pc[w] = "admit"
          /\ pc'[w] = "fill"
          /\ v # w => current'[v] = current[v] /\ pc'[v] = pc[v]
      BY <1>0, <1>8 DEF Admit, Goto, TypeOK
    <2>2. CASE v = w
      BY <1>1, <2>1, <2>2 DEF Listed, Hands
    <2>3. CASE v # w
      BY <1>1, <1>2, <2>1, <2>3, ListedKept
    <2>4. QED
      BY <2>2, <2>3
  <1>9. ASSUME NEW w \in Workers, CloseBody(w) PROVE Listed(v)'
    <2>1. held' = held /\ current' = current /\ (pc'[v] = pc[v] \/ pc[v] # "admit")
      BY <1>0, <1>9 DEF CloseBody, Goto, TypeOK
    <2>2. QED
      BY <1>1, <1>2, <2>1, ListedKept
  <1>10. ASSUME NEW w \in Workers, CloseBodyRaises(w) \/ RespondFused(w) \/ Crash(w)
         PROVE  Listed(v)'
    <2>1. /\ held'[w] = <<>> /\ current' = current
          /\ v # w => held'[v] = held[v] /\ pc'[v] = pc[v]
      BY <1>0, <1>10 DEF CloseBodyRaises, RespondFused, Crash, Goto, TypeOK
    <2>2. QED
      BY <1>1, <1>2, <1>3, <2>1, ListedKept
  <1>11. ASSUME NEW w \in Workers, Respond(w) \/ AppRaises(w) PROVE Listed(v)'
    <2>1. /\ Advance(w) /\ current' = current /\ held[w] # <<>> /\ pc[w] = "serve"
      BY <1>0, <1>11 DEF Respond, AppRaises, HandsMatchPc
    <2>2. /\ Hands(w)' \subseteq Hands(w)
          /\ \A u \in Workers : u # w => held'[u] = held[u]
      BY <1>0, <2>1, FinishedMembers
    <2>3. \A u \in Workers : u # w => pc'[u] = pc[u]
      BY <1>0, <2>1 DEF Advance, Goto, TypeOK
    <2>4. CASE v = w
      BY <1>1, <1>2, <2>1, <2>2, <2>4 DEF Listed
    <2>5. CASE v # w
      BY <1>1, <1>2, <2>1, <2>2, <2>3, <2>5, ListedKept
    <2>6. QED
      BY <2>4, <2>5
  <1>12. ASSUME NEW w \in Workers, AbortSlot(w), UNCHANGED held,
                pc'[v] = pc[v] \/ pc[v] # "admit"
         PROVE  Listed(v)'
    <2>1. \A r \in Requests : responded'[r] <=> responded[r] \/ r \in current[w]
      BY <1>0, <1>12, ClaimFacts DEF AbortSlot
    <2>2. current' = [current EXCEPT ![w] = {}]
      BY <1>12 DEF AbortSlot
    <2>3. CASE v = w
      BY <1>1, <1>12, <2>1, <2>3 DEF Listed, Hands
    <2>4. CASE v # w
      <3>1. current'[v] = current[v]
        BY <1>0, <2>2, <2>4 DEF TypeOK
      <3>2. QED
        BY <1>1, <1>2, <1>12, <3>1, ListedKept
    <2>5. QED
      BY <2>3, <2>4
  <1>13. ASSUME NEW w \in Workers, AbortInflight(w) PROVE Listed(v)'
    <2>1. AbortSlot(w) /\ UNCHANGED held /\ (pc'[v] = pc[v] \/ pc[v] # "admit")
      BY <1>0, <1>13 DEF AbortInflight, Goto, TypeOK
    <2>2. QED
      BY <1>12, <2>1
  <1>14. ASSUME NEW w \in Workers, Respawn(w) \/ Retire(w) PROVE Listed(v)'
    <2>1. UNCHANGED <<held, current>> /\ (pc'[v] = pc[v] \/ pc[v] # "admit")
      BY <1>0, <1>14 DEF Respawn, Retire, Goto, TypeOK
    <2>2. QED
      BY <1>1, <1>2, <2>1, ListedKept
  <1>15. ASSUME AbortNext PROVE Listed(v)'
    <2>1. CASE UNCHANGED current
      BY <1>4, <1>15, <2>1 DEF AbortNext
    <2>2. ASSUME NEW w \in toAbort, AbortSlot(w) PROVE Listed(v)'
      <3>1. w \in Workers /\ UNCHANGED <<held, pc>>
        BY <1>0, <1>15 DEF AbortNext, TypeOK
      <3>2. QED
        BY <1>12, <2>2, <3>1
    <2>3. QED
      BY <1>15, <2>1, <2>2 DEF AbortNext
  <1>16. ASSUME \/ StopAccepting \/ Deadline \/ SampleQueued \/ SampleInFlight
                \/ DrainDeadline \/ CloseQueue \/ JoinWorkers \/ InterruptAll
                \/ ShutdownRuntime
         PROVE  UNCHANGED <<held, current, pc>>
    BY <1>16 DEF StopAccepting, Deadline, SampleQueued, SampleInFlight, DrainDeadline,
       CloseQueue, JoinWorkers, InterruptAll, ShutdownRuntime
  <1>17. ASSUME KillStragglers PROVE Listed(v)'
    <2>1. UNCHANGED <<held, current, pc>> \/ held'[v] = <<>>
      BY <1>17 DEF KillStragglers
    <2>2. QED
      BY <1>3, <1>4, <2>1
  <1>18. CASE UNCHANGED vars
    BY <1>4, <1>18 DEF vars
  <1>19. QED
    BY NextCases, <1>4, <1>5, <1>6, <1>7, <1>8, <1>9, <1>10, <1>11, <1>13, <1>14, <1>15,
       <1>16, <1>17, <1>18

\* Ownership holds at the start and is kept by every step.
LEMMA InitOwnership == Init => Ownership
  <1> SUFFICES ASSUME Init PROVE Ownership
    OBVIOUS
  <1>1. Shape
    BY InitShape
  <1>2. ToSet(<<>>) = {} /\ IsInjective(<<>>)
    BY DEF ToSet, IsInjective
  <1>3. /\ ToSet(line) = {} /\ IsInjective(line) /\ garbage = {}
        /\ \A w \in Workers : Hands(w) = {} /\ IsInjective(held[w])
    BY <1>2 DEF Init, Hands
  <1>4. OwnedOnce /\ UnsentNowhere /\ ListedWhileHeld
    BY <1>3 DEF OwnedOnce, UnsentNowhere, ListedWhileHeld
  <1>5. Answerable
    BY DEF Init, Answerable
  <1>6. QED
    BY <1>1, <1>4, <1>5 DEF Ownership, Shape

\* Every step keeps the inductive invariant.
LEMMA OwnershipStep == Ownership /\ [Next]_vars => Ownership'
  <1> SUFFICES ASSUME Ownership, [Next]_vars PROVE Ownership'
    OBVIOUS
  <1>1. Shape /\ OwnedOnce /\ UnsentNowhere /\ Answerable /\ ListedWhileHeld /\ TypeOK
    BY DEF Ownership, Shape
  <1>2. Moves
    BY <1>1, MovesOnly
  <1>3. OwnedOnce'
    BY <1>1, <1>2, OwnedOnceStep
  <1>4. Shape' /\ UnsentNowhere' /\ Answerable' /\ ListedWhileHeld'
    BY <1>1, ShapeStep, UnsentStep, AnswerableStep, ListedStep
  <1>5. QED
    BY <1>3, <1>4 DEF Ownership, Shape

\* A request context moves through queue, hands and garbage without ever
\* being in two of them, or in one of them twice.
THEOREM SingleOwner == Spec => []OwnedOnce
  <1>1. Ownership => OwnedOnce
    BY DEF Ownership
  <1>2. QED
    BY <1>1, InitOwnership, OwnershipStep, PTL DEF Spec

\* While a client waits on the head oneshot, somebody can still complete it.
THEOREM NobodyOrphaned == Spec => []Answerable
  <1>1. Ownership => Answerable
    BY DEF Ownership
  <1>2. QED
    BY <1>1, InitOwnership, OwnershipStep, PTL DEF Spec

\* abort_inflight and abort_all_inflight find every request a worker has
\* admitted, still holds and has not answered.
THEOREM AbortFindsAll == Spec => []ListedWhileHeld
  <1>1. Ownership => ListedWhileHeld
    BY DEF Ownership
  <1>2. QED
    BY <1>1, InitOwnership, OwnershipStep, PTL DEF Spec

-----------------------------------------------------------------------------
(* The app is handed a request once.                                       *)

\* Sent to no worker yet, or received and not admitted.
Fresh(r) ==
  \/ future[r] \in {"idle", "cloned"} \/ InLine(r)
  \/ \E w \in Workers : pc[w] = "admit" /\ r = Last(held[w])

\* Running towards a response.
Running(r) == future[r] \in {"cloned", "sending", "expired", "awaiting"}

\* A request is counted when it is admitted, and only then.
CountedOnce ==
  /\ \A r \in Requests : served[r] \in {0, 1} /\ (Fresh(r) => served[r] = 0)
  /\ \A w \in Workers : \A r \in Hands(w) :
       ~(pc[w] = "admit" /\ r = Last(held[w])) => served[r] = 1

\* Only what a worker has admitted gets a head from the app.
HeadsFromApp == \A r \in Requests : head[r] = "app" => served[r] = 1

\* A request refused for its size has no context on the Ruby side.
RefusedNowhere ==
  \A r \in Requests : /\ future[r] = "idle" \/ Running(r) => answer[r] = "none"
                      /\ Owned(r) => answer[r] # "413"

HandOvers == Ownership /\ CountedOnce /\ HeadsFromApp /\ RefusedNowhere

\* What a step may do to a worker's hands: receive into them, admit what was
\* received last, empty them, or let go of some.
LEMMA WorkerStep ==
  ASSUME Ownership, [Next]_vars, NEW v \in Workers
  PROVE  \/ Receive(v) /\ pc[v] # "admit"
         \/ Admit(v)
         \/ Hands(v)' = {} /\ pc'[v] # "admit"
         \/ Hands(v)' \subseteq Hands(v) /\ pc[v] # "admit" /\ pc'[v] # "admit"
         \/ held'[v] = held[v] /\ pc'[v] = pc[v]
  <1> USE DEF clientVars, queueVars, respVars, slotVars, workerVars, mainVars
  <1> DEFINE Goal == \/ Receive(v) /\ pc[v] # "admit"
                     \/ Admit(v)
                     \/ Hands(v)' = {} /\ pc'[v] # "admit"
                     \/ Hands(v)' \subseteq Hands(v) /\ pc[v] # "admit" /\ pc'[v] # "admit"
                     \/ held'[v] = held[v] /\ pc'[v] = pc[v]
  <1>0. TypeOK /\ HandsMatchPc /\ OwnedOnce
    BY DEF Ownership
  <1>1. UNCHANGED <<held, pc>> => Goal
    OBVIOUS
  <1>2. ASSUME NEW w \in Workers, UNCHANGED held, pc[w] # "admit",
               \E to : to # "admit" /\ pc' = [pc EXCEPT ![w] = to]
        PROVE  Goal
    BY <1>0, <1>2 DEF TypeOK, Hands
  <1>3. ASSUME \E r \in Requests :
                 \/ Arrive(r) \/ ArriveOversize(r) \/ ClientAbort(r) \/ Send(r)
                 \/ SendCompletes(r) \/ QueueTimerFires(r) \/ QueueTimeout(r)
                 \/ HeadArrives(r) \/ HeadTimeout(r) \/ Written(r) \/ Collect(r)
        PROVE  UNCHANGED <<held, pc>>
    BY <1>3 DEF Arrive, ArriveOversize, ClientAbort, Send, SendCompletes, QueueTimerFires,
       QueueTimeout, HeadArrives, HeadTimeout, Written, Collect
  <1>4. ASSUME NEW w \in Workers, TryReceive(w) \/ WaitTick(w) \/ Fill(w) PROVE Goal
    <2>1. pc[w] # "admit"
      BY <1>4 DEF TryReceive, WaitTick, Fill
    <2>2. CASE Receive(w)
      <3>1. \A u \in Workers : u # w => held'[u] = held[u]
        BY <1>0, <2>2, ReceivedMembers
      <3>2. \A u \in Workers : u # w => pc'[u] = pc[u]
        BY <1>0, <2>2 DEF Receive, Goto, TypeOK
      <3>3. QED
        BY <2>1, <2>2, <3>1, <3>2
    <2>3. CASE UNCHANGED held /\ \E to : to # "admit" /\ pc' = [pc EXCEPT ![w] = to]
      BY <1>2, <2>1, <2>3
    <2>4. QED
      BY <1>4, <2>2, <2>3 DEF TryReceive, WaitTick, Fill, TakeEnds, Goto
  <1>5. ASSUME NEW w \in Workers,
               Checkout(w) \/ CloseBody(w) \/ AbortInflight(w)
        PROVE  Goal
    <2>1. /\ UNCHANGED held /\ pc[w] # "admit"
          /\ \E to : to # "admit" /\ pc' = [pc EXCEPT ![w] = to]
      BY <1>5 DEF Checkout, TakeEnds, CloseBody, AbortInflight, Goto
    <2>2. QED
      BY <1>2, <2>1
  <1>6. ASSUME NEW w \in Workers, Admit(w) PROVE Goal
    BY <1>0, <1>6 DEF Admit, Goto, TypeOK
  <1>7. ASSUME NEW w \in Workers, CloseBodyRaises(w) \/ RespondFused(w) \/ Crash(w)
        PROVE  Goal
    <2>1. /\ held' = [held EXCEPT ![w] = <<>>]
          /\ pc'[w] # "admit" /\ \A u \in Workers : u # w => pc'[u] = pc[u]
      BY <1>0, <1>7 DEF CloseBodyRaises, RespondFused, Crash, Goto, TypeOK
    <2>2. Hands(w)' = {} /\ \A u \in Workers : u # w => held'[u] = held[u]
      BY <1>0, <2>1, DroppedMembers
    <2>3. QED
      BY <2>1, <2>2
  <1>8. ASSUME NEW w \in Workers, Respond(w) \/ AppRaises(w) PROVE Goal
    <2>1. Advance(w) /\ held[w] # <<>> /\ pc[w] = "serve"
      BY <1>0, <1>8 DEF Respond, AppRaises, HandsMatchPc
    <2>2. /\ Hands(w)' \subseteq Hands(w)
          /\ \A u \in Workers : u # w => held'[u] = held[u]
      BY <1>0, <2>1, FinishedMembers
    <2>3. pc'[w] # "admit" /\ \A u \in Workers : u # w => pc'[u] = pc[u]
      BY <1>0, <2>1 DEF Advance, Goto, TypeOK
    <2>4. QED
      BY <2>1, <2>2, <2>3
  <1>9. ASSUME NEW w \in Workers, Respawn(w) \/ Retire(w) PROVE Goal
    <2>1. CASE UNCHANGED <<held, pc>>
      BY <1>1, <2>1
    <2>2. CASE pc[w] = "aborted" /\ pc' = [pc EXCEPT ![w] = "dead"] /\ UNCHANGED held
      BY <1>2, <2>2
    <2>3. ASSUME NEW u \in Workers, pc[u] = "unborn", pc[w] = "aborted",
                 pc' = [pc EXCEPT ![w] = "dead", ![u] = "checkout"], UNCHANGED held
          PROVE  Goal
      <3>1. pc'[v] = pc[v] \/ (pc[v] # "admit" /\ pc'[v] # "admit")
        BY <1>0, <2>3 DEF TypeOK
      <3>2. QED
        BY <2>3, <3>1 DEF Hands
    <2>4. QED
      BY <1>9, <2>1, <2>2, <2>3 DEF Respawn, Retire, Goto
  <1>10. ASSUME \/ StopAccepting \/ Deadline \/ SampleQueued \/ SampleInFlight
                \/ DrainDeadline \/ CloseQueue \/ JoinWorkers \/ AbortNext \/ InterruptAll
                \/ ShutdownRuntime
         PROVE  UNCHANGED <<held, pc>>
    BY <1>10 DEF StopAccepting, Deadline, SampleQueued, SampleInFlight, DrainDeadline,
       CloseQueue, JoinWorkers, AbortNext, InterruptAll, ShutdownRuntime
  <1>11. ASSUME KillStragglers PROVE Goal
    <2>1. UNCHANGED <<held, pc>> \/ (held'[v] = <<>> /\ pc'[v] # "admit")
      BY <1>0, <1>11 DEF KillStragglers, TypeOK
    <2>2. ToSet(<<>>) = {}
      BY DEF ToSet
    <2>3. QED
      BY <2>1, <2>2 DEF Hands
  <1>12. CASE UNCHANGED vars
    BY <1>1, <1>12 DEF vars
  <1>13. QED
    BY NextCases, <1>1, <1>3, <1>4, <1>5, <1>6, <1>7, <1>8, <1>9, <1>10, <1>11, <1>12

\* The channel takes in only what a future has just sent.
LEMMA LineStep ==
  ASSUME Ownership, [Next]_vars, NEW r \in ToSet(line')
  PROVE  r \in ToSet(line) \/ \E q \in Requests : future[q] = "cloned" /\ r = q
  <1>0. TypeOK /\ OwnedOnce /\ UnsentNowhere /\ Moves
    BY MovesOnly DEF Ownership, Shape
  <1>1. CASE \/ Keeps \/ Dropped \/ Fused \/ Finished \/ Freed \/ Killed
    BY <1>1 DEF Keeps, Dropped, Fused, Finished, Freed, Killed
  <1>2. CASE Enters
    <2>1. PICK q \in Requests : /\ future[q] = "cloned" /\ line' = Append(line, q)
                                /\ UNCHANGED <<held, garbage>>
      BY <1>2 DEF Enters
    <2>2. ToSet(line') = ToSet(line) \cup {q}
      BY <1>0, <2>1, EntersMembers
    <2>3. QED
      BY <2>1, <2>2
  <1>3. CASE Leaves
    <2>1. PICK q \in Requests : Unpark(q) /\ UNCHANGED <<held, garbage>>
      BY <1>3 DEF Leaves
    <2>2. QED
      BY <1>0, <2>1, LeavesMembers
  <1>4. CASE Received
    <2>1. PICK w \in Workers : Receive(w)
      BY <1>4 DEF Received
    <2>2. QED
      BY <1>0, <2>1, ReceivedMembers
  <1>5. CASE TornDown
    BY <1>0, <1>5, TornDownMembers DEF TornDown
  <1>6. QED
    BY <1>0, <1>1, <1>2, <1>3, <1>4, <1>5 DEF Moves

\* Nothing becomes fresh again.
LEMMA FreshStep ==
  ASSUME Ownership, [Next]_vars, NEW r \in Requests, Fresh(r)'
  PROVE  Fresh(r)
  <1>0. TypeOK /\ OwnedOnce /\ Shape
    BY DEF Ownership, Shape
  <1>1. CASE future'[r] \in {"idle", "cloned"}
    BY <1>0, <1>1, FutureStep DEF Fresh
  <1>2. CASE InLine(r)'
    BY <1>2, LineStep DEF Fresh, InLine
  <1>3. ASSUME NEW w \in Workers, pc'[w] = "admit", r = Last(held'[w]) PROVE Fresh(r)
    <2>1. CASE Receive(w)
      <3>1. line[1] \in ToSet(line) /\ Last(held'[w]) = line[1]
        BY <1>0, <2>1, ReceivedMembers
      <3>2. QED
        BY <1>3, <3>1 DEF Fresh, InLine
    <2>2. CASE Admit(w)
      BY <1>0, <1>3, <2>2 DEF Admit, Goto, TypeOK
    <2>3. CASE held'[w] = held[w] /\ pc'[w] = pc[w]
      BY <1>3, <2>3 DEF Fresh
    <2>4. QED
      BY <1>3, <2>1, <2>2, <2>3, WorkerStep
  <1>4. QED
    BY <1>1, <1>2, <1>3 DEF Fresh

\* Only an admission counts.
LEMMA ServedOnly ==
  ASSUME [Next]_vars
  PROVE  UNCHANGED served \/ \E w \in Workers : Admit(w)
  <1> USE DEF clientVars, queueVars, respVars, slotVars, workerVars, mainVars
  <1>1. ASSUME \E r \in Requests :
                 \/ Arrive(r) \/ ArriveOversize(r) \/ ClientAbort(r) \/ Send(r)
                 \/ SendCompletes(r) \/ QueueTimerFires(r) \/ QueueTimeout(r)
                 \/ HeadArrives(r) \/ HeadTimeout(r) \/ Written(r) \/ Collect(r)
        PROVE  UNCHANGED served
    BY <1>1 DEF Arrive, ArriveOversize, ClientAbort, Send, SendCompletes, QueueTimerFires,
       QueueTimeout, HeadArrives, HeadTimeout, Written, Collect
  <1>2. ASSUME \E w \in Workers :
                 \/ Checkout(w) \/ TryReceive(w) \/ WaitTick(w) \/ Fill(w) \/ CloseBody(w)
                 \/ CloseBodyRaises(w) \/ RespondFused(w) \/ Respond(w) \/ AppRaises(w)
                 \/ Crash(w) \/ AbortInflight(w) \/ Respawn(w) \/ Retire(w)
        PROVE  UNCHANGED served
    BY <1>2 DEF Checkout, TryReceive, WaitTick, Fill, CloseBody, CloseBodyRaises,
       RespondFused, Respond, AppRaises, Crash, AbortInflight, Respawn, Retire
  <1>3. ASSUME \/ StopAccepting \/ Deadline \/ SampleQueued \/ SampleInFlight
               \/ DrainDeadline \/ CloseQueue \/ JoinWorkers \/ AbortNext \/ InterruptAll
               \/ KillStragglers \/ ShutdownRuntime
        PROVE  UNCHANGED served
    BY <1>3 DEF StopAccepting, Deadline, SampleQueued, SampleInFlight, DrainDeadline,
       CloseQueue, JoinWorkers, AbortNext, InterruptAll, KillStragglers, ShutdownRuntime
  <1>4. CASE UNCHANGED vars
    BY <1>4 DEF vars
  <1>5. QED
    BY NextCases, <1>1, <1>2, <1>3, <1>4

\* What an admission does: its request was not counted, and is no more fresh.
LEMMA AdmitCounts ==
  ASSUME Ownership, CountedOnce, NEW u \in Workers, Admit(u)
  PROVE  \E q \in Requests :
           /\ q \in Hands(u) /\ pc[u] = "admit" /\ q = Last(held[u]) /\ pc'[u] = "fill"
           /\ served[q] = 0 /\ served' = [served EXCEPT ![q] = 1]
           /\ UNCHANGED <<future, answer, head, line, held>>
           /\ \A w \in Workers : w # u => pc'[w] = pc[w] /\ q \notin Hands(w)
           /\ q \notin ToSet(line) /\ future[q] \notin {"idle", "cloned"} /\ Owned(q)
  <1> USE DEF clientVars, queueVars, respVars, slotVars, workerVars, mainVars
  <1> DEFINE q == Last(held[u])
  <1>1. pc[u] = "admit" /\ held[u] # <<>> /\ held[u] \in Seq(Requests)
    BY DEF Admit, Ownership, HandsMatchPc, TypeOK
  <1>2. q \in Requests /\ q \in Hands(u)
    BY <1>1, LastFacts DEF Hands
  <1>3. served[q] = 0
    BY <1>1, <1>2 DEF CountedOnce, Fresh
  <1>4. /\ served' = [served EXCEPT ![q] = served[q] + 1] /\ pc' = [pc EXCEPT ![u] = "fill"]
        /\ UNCHANGED <<future, answer, head, line, held>>
    BY DEF Admit, Goto
  <1>5. q \notin ToSet(line) /\ \A w \in Workers : w # u => q \notin Hands(w)
    BY <1>2 DEF Ownership, OwnedOnce
  <1>6. future[q] \notin {"idle", "cloned"} /\ Owned(q)
    BY <1>2 DEF Ownership, UnsentNowhere, Owned
  <1> HIDE DEF q
  <1>7. pc'[u] = "fill" /\ \A w \in Workers : w # u => pc'[w] = pc[w]
    BY <1>4 DEF Ownership, TypeOK
  <1>8. served' = [served EXCEPT ![q] = 1]
    BY <1>3, <1>4
  <1>9. QED
    BY <1>1, <1>2, <1>3, <1>4, <1>5, <1>6, <1>7, <1>8 DEF q

\* Counting happens once per request, at its admission.
LEMMA CountedStep ==
  ASSUME Ownership, CountedOnce, [Next]_vars
  PROVE  /\ CountedOnce'
         /\ \A r \in Requests : served[r] = 1 => served'[r] = 1
  <1>0. TypeOK /\ OwnedOnce
    BY DEF Ownership
  <1>1. ASSUME NEW u \in Workers, Admit(u)
        PROVE  CountedOnce' /\ \A r \in Requests : served[r] = 1 => served'[r] = 1
    <2>1. PICK q \in Requests :
            /\ q \in Hands(u) /\ pc[u] = "admit" /\ q = Last(held[u]) /\ pc'[u] = "fill"
            /\ served[q] = 0 /\ served' = [served EXCEPT ![q] = 1]
            /\ UNCHANGED <<future, answer, head, line, held>>
            /\ \A w \in Workers : w # u => pc'[w] = pc[w] /\ q \notin Hands(w)
            /\ q \notin ToSet(line) /\ future[q] \notin {"idle", "cloned"}
      BY <1>1, AdmitCounts
    <2>2. served'[q] = 1 /\ \A r \in Requests : r # q => served'[r] = served[r]
      BY <1>0, <2>1 DEF TypeOK
    <2>3. ~Fresh(q)'
      <3>1. ASSUME NEW w \in Workers, pc'[w] = "admit" PROVE q # Last(held'[w])
        <4>1. w # u /\ pc[w] = "admit" /\ held[w] # <<>> /\ held[w] \in Seq(Requests)
          BY <1>0, <2>1, <3>1 DEF Ownership, HandsMatchPc, TypeOK
        <4>2. Last(held[w]) \in Hands(w)
          BY <4>1, LastFacts DEF Hands
        <4>3. QED
          BY <2>1, <4>1, <4>2
      <3>2. QED
        BY <2>1, <3>1 DEF Fresh, InLine
    <2>4. \A r \in Requests : served'[r] \in {0, 1} /\ (Fresh(r)' => served'[r] = 0)
      BY <2>2, <2>3, FreshStep DEF CountedOnce
    <2>5. ASSUME NEW w \in Workers, NEW r \in Hands(w)',
                 ~(pc'[w] = "admit" /\ r = Last(held'[w]))
          PROVE  served'[r] = 1
      <3>1. r \in Hands(w) /\ r \in Requests
        BY <1>0, <2>1, HandsFacts DEF Hands
      <3>2. QED
        BY <2>1, <2>2, <2>5, <3>1 DEF CountedOnce
    <2>6. QED
      BY <2>1, <2>2, <2>4, <2>5 DEF CountedOnce
  <1>2. ASSUME UNCHANGED served, \A w \in Workers : ~Admit(w)
        PROVE  CountedOnce' /\ \A r \in Requests : served[r] = 1 => served'[r] = 1
    <2>1. \A r \in Requests : served'[r] \in {0, 1} /\ (Fresh(r)' => served'[r] = 0)
      BY <1>2, FreshStep DEF CountedOnce
    <2>2. ASSUME NEW w \in Workers, NEW r \in Hands(w)',
                 ~(pc'[w] = "admit" /\ r = Last(held'[w]))
          PROVE  served'[r] = 1
      <3>1. CASE Receive(w) /\ pc[w] # "admit"
        <4>1. /\ Hands(w)' = Hands(w) \cup {line[1]} /\ Last(held'[w]) = line[1]
              /\ pc'[w] = "admit"
          BY <1>0, <3>1, ReceivedMembers DEF Receive, Goto, TypeOK
        <4>2. QED
          BY <1>2, <2>2, <3>1, <4>1 DEF CountedOnce
      <3>2. CASE Hands(w)' \subseteq Hands(w) /\ pc[w] # "admit"
        BY <1>2, <2>2, <3>2 DEF CountedOnce
      <3>3. CASE held'[w] = held[w] /\ pc'[w] = pc[w]
        BY <1>2, <2>2, <3>3 DEF CountedOnce, Hands
      <3>4. QED
        BY <1>2, <2>2, <3>1, <3>2, <3>3, WorkerStep
    <2>3. QED
      BY <1>2, <2>1, <2>2 DEF CountedOnce
  <1>3. QED
    BY <1>1, <1>2, ServedOnly

\* An application head comes from a worker that is serving the request.
LEMMA AppClaims ==
  ASSUME Ownership, [Next]_vars, NEW q \in Requests, head'[q] = "app"
  PROVE  head[q] = "app" \/ \E w \in Workers : pc[w] = "serve" /\ q \in Hands(w)
  <1> USE DEF clientVars, queueVars, respVars, slotVars, workerVars, mainVars
  <1>0. TypeOK /\ HandsMatchPc /\ OwnedOnce
    BY DEF Ownership
  <1>1. ASSUME NEW rs, Claim(rs, "error") PROVE head[q] = "app"
    BY <1>0, <1>1, ClaimFacts
  <1>2. ASSUME NEW rs, Claim(rs, "app") PROVE head[q] = "app" \/ q \in rs
    BY <1>0, <1>2, ClaimFacts
  <1>3. ASSUME NEW r \in Requests,
               \/ Arrive(r) \/ ArriveOversize(r) \/ ClientAbort(r) \/ QueueTimeout(r)
               \/ Collect(r)
        PROVE  UNCHANGED head \/ Claim({r}, "error")
    BY <1>3 DEF Arrive, ArriveOversize, ClientAbort, QueueTimeout, Collect
  <1>4. ASSUME \E r \in Requests :
                 \/ Send(r) \/ SendCompletes(r) \/ QueueTimerFires(r) \/ HeadArrives(r)
                 \/ HeadTimeout(r) \/ Written(r)
        PROVE  UNCHANGED head
    BY <1>4 DEF Send, SendCompletes, QueueTimerFires, HeadArrives, HeadTimeout, Written
  <1>5. ASSUME \E w \in Workers :
                 \/ Checkout(w) \/ TryReceive(w) \/ WaitTick(w) \/ Admit(w) \/ Fill(w)
                 \/ CloseBody(w) \/ CloseBodyRaises(w) \/ Crash(w) \/ Respawn(w) \/ Retire(w)
        PROVE  UNCHANGED head
    BY <1>5 DEF Checkout, TryReceive, WaitTick, Admit, Fill, CloseBody, CloseBodyRaises,
       Crash, Respawn, Retire
  <1>6. ASSUME NEW w \in Workers, RespondFused(w) \/ Respond(w)
        PROVE  head[q] = "app" \/ (pc[w] = "serve" /\ q \in Hands(w))
    <2>1. pc[w] = "serve" /\ held[w] # <<>> /\ held[w] \in Seq(Requests)
      BY <1>0, <1>6 DEF RespondFused, Respond, HandsMatchPc, TypeOK
    <2>2. Head(held[w]) \in Hands(w)
      BY <2>1, TailMembers DEF Hands
    <2>3. Claim(Hands(w), "app") \/ Claim({Head(held[w])}, "app")
      BY <1>6 DEF RespondFused, Respond
    <2>4. QED
      BY <1>2, <2>1, <2>2, <2>3
  <1>7. ASSUME NEW w \in Workers, AppRaises(w) \/ AbortInflight(w)
        PROVE  Claim({Head(held[w])}, "error") \/ Claim(current[w], "error")
    BY <1>7 DEF AppRaises, AbortInflight, AbortSlot
  <1>8. ASSUME \/ StopAccepting \/ Deadline \/ SampleQueued \/ SampleInFlight
               \/ DrainDeadline \/ CloseQueue \/ JoinWorkers \/ InterruptAll
               \/ KillStragglers
        PROVE  UNCHANGED head
    BY <1>8 DEF StopAccepting, Deadline, SampleQueued, SampleInFlight, DrainDeadline,
       CloseQueue, JoinWorkers, InterruptAll, KillStragglers
  <1>9. ASSUME AbortNext
        PROVE  UNCHANGED head \/ \E w \in toAbort : Claim(current[w], "error")
    BY <1>9 DEF AbortNext, AbortSlot
  <1>10. ASSUME ShutdownRuntime
         PROVE  Claim({r \in Requests : Blocked(r)}, "error")
    BY <1>10 DEF ShutdownRuntime
  <1>11. CASE UNCHANGED vars
    BY <1>11 DEF vars
  <1>12. QED
    BY NextCases, <1>1, <1>3, <1>4, <1>5, <1>6, <1>7, <1>8, <1>9, <1>10, <1>11

\* A head from the app is one for an admitted request.
LEMMA HeadsStep ==
  ASSUME Ownership, CountedOnce, HeadsFromApp, [Next]_vars
  PROVE  HeadsFromApp'
  <1> SUFFICES ASSUME NEW r \in Requests, head'[r] = "app"
               PROVE  served'[r] = 1
    BY DEF HeadsFromApp
  <1>1. head[r] = "app" \/ \E w \in Workers : pc[w] = "serve" /\ r \in Hands(w)
    BY AppClaims
  <1>2. served[r] = 1
    BY <1>1 DEF HeadsFromApp, CountedOnce
  <1>3. QED
    BY <1>2, CountedStep

\* A response is chosen once, by the future's last step, and a refusal for
\* size by its first.
LEMMA AnswerStep ==
  ASSUME Ownership, [Next]_vars, NEW q \in Requests
  PROVE  /\ future'[q] = "idle" => future[q] = "idle"
         /\ Running(q)' => future[q] = "idle" \/ Running(q)
         /\ answer'[q] = answer[q] \/ future'[q] = "writing"
         /\ answer'[q] = "413" /\ answer[q] # "413" => future[q] = "idle"
  <1> USE DEF clientVars, queueVars, respVars, slotVars, workerVars, mainVars, Running
  <1>0. TypeOK /\ future \in [Requests -> FutureStates] /\ answer \in [Requests -> Answers]
    BY DEF Ownership, TypeOK
  <1> DEFINE Goal == /\ future'[q] = "idle" => future[q] = "idle"
                     /\ Running(q)' => future[q] = "idle" \/ Running(q)
                     /\ answer'[q] = answer[q] \/ future'[q] = "writing"
                     /\ answer'[q] = "413" /\ answer[q] # "413" => future[q] = "idle"
  <1>1. UNCHANGED <<future, answer>> => Goal
    OBVIOUS
  <1>2. ASSUME NEW r \in Requests, NEW to, UNCHANGED answer, to # "idle",
               future' = [future EXCEPT ![r] = to],
               Running(r) \/ future[r] = "idle" \/ to \in {"done", "gone"}
        PROVE  Goal
    BY <1>0, <1>2
  <1>3. ASSUME NEW r \in Requests, NEW what,
               future' = [future EXCEPT ![r] = "writing"],
               answer' = [answer EXCEPT ![r] = what],
               what # "413" \/ future[r] = "idle"
        PROVE  Goal
    BY <1>0, <1>3
  <1>4. ASSUME NEW r \in Requests, Arrive(r) \/ ArriveOversize(r) PROVE Goal
    <2>1. \/ future' = [future EXCEPT ![r] = "cloned"] /\ UNCHANGED answer
          \/ /\ future' = [future EXCEPT ![r] = "writing"]
             /\ \E what : answer' = [answer EXCEPT ![r] = what]
      BY <1>4 DEF Arrive, ArriveOversize
    <2>2. future[r] = "idle"
      BY <1>4 DEF Arrive, ArriveOversize
    <2>3. CASE future' = [future EXCEPT ![r] = "cloned"] /\ UNCHANGED answer
      BY <1>2, <2>2, <2>3
    <2>4. QED
      BY <1>3, <2>1, <2>2, <2>3
  <1>5. ASSUME NEW r \in Requests,
               \/ ClientAbort(r) \/ Send(r) \/ SendCompletes(r) \/ QueueTimerFires(r) \/ Written(r)
        PROVE  Goal
    <2>1. \E to \in {"gone", "awaiting", "sending", "expired", "done"} :
            /\ future' = [future EXCEPT ![r] = to] /\ UNCHANGED answer
            /\ Running(r) \/ to \in {"done", "gone"}
      BY <1>5 DEF ClientAbort, Send, SendCompletes, QueueTimerFires, Written
    <2>2. QED
      BY <1>2, <2>1
  <1>6. ASSUME NEW r \in Requests, QueueTimeout(r) \/ HeadArrives(r) \/ HeadTimeout(r)
        PROVE  Goal
    <2>1. \E what : /\ future' = [future EXCEPT ![r] = "writing"] /\ what # "413"
                    /\ answer' = [answer EXCEPT ![r] = what]
      BY <1>6 DEF QueueTimeout, HeadArrives, HeadTimeout, Return
    <2>2. QED
      BY <1>3, <2>1
  <1>7. ASSUME \E w \in Workers :
                 \/ Checkout(w) \/ TryReceive(w) \/ WaitTick(w) \/ Admit(w) \/ Fill(w)
                 \/ CloseBody(w) \/ CloseBodyRaises(w) \/ RespondFused(w) \/ Respond(w)
                 \/ AppRaises(w) \/ Crash(w) \/ AbortInflight(w) \/ Respawn(w) \/ Retire(w)
        PROVE  UNCHANGED <<future, answer>>
    BY <1>7 DEF Checkout, TryReceive, WaitTick, Admit, Fill, CloseBody, CloseBodyRaises,
       RespondFused, Respond, AppRaises, Crash, AbortInflight, Respawn, Retire
  <1>8. ASSUME \/ StopAccepting \/ Deadline \/ SampleQueued \/ SampleInFlight
               \/ DrainDeadline \/ CloseQueue \/ JoinWorkers \/ AbortNext \/ InterruptAll
               \/ KillStragglers \/ \E r \in Requests : Collect(r)
        PROVE  UNCHANGED <<future, answer>>
    BY <1>8 DEF StopAccepting, Deadline, SampleQueued, SampleInFlight, DrainDeadline,
       CloseQueue, JoinWorkers, AbortNext, InterruptAll, KillStragglers, Collect
  <1>9. ASSUME ShutdownRuntime PROVE Goal
    BY <1>0, <1>9 DEF ShutdownRuntime
  <1>10. CASE UNCHANGED vars
    BY <1>1, <1>10 DEF vars
  <1>11. QED
    BY NextCases, <1>1, <1>4, <1>5, <1>6, <1>7, <1>8, <1>9, <1>10

\* Whoever was refused for its size stays off the Ruby side.
LEMMA RefusedStep ==
  ASSUME Ownership, RefusedNowhere, [Next]_vars
  PROVE  RefusedNowhere'
  <1>0. TypeOK /\ OwnedOnce /\ UnsentNowhere /\ Moves /\ future' \in [Requests -> FutureStates]
    BY MovesOnly, OwnershipStep DEF Ownership, Shape, TypeOK
  <1> SUFFICES ASSUME NEW r \in Requests
               PROVE  /\ future'[r] = "idle" \/ Running(r)' => answer'[r] = "none"
                      /\ Owned(r)' => answer'[r] # "413"
    BY DEF RefusedNowhere
  <1>1. future'[r] = "idle" \/ Running(r)' => answer'[r] = "none"
    BY AnswerStep DEF RefusedNowhere, Running
  <1>2. ASSUME Owned(r)', answer'[r] = "413" PROVE FALSE
    <2>1. Owned(r) \/ future'[r] \in {"sending", "awaiting"}
      BY <1>0, <1>2, OwnedStep
    <2>2. future'[r] \notin {"sending", "awaiting"}
      BY <1>1, <1>2 DEF Running
    <2>3. future[r] # "idle" /\ answer[r] # "413"
      BY <1>0, <2>1, <2>2 DEF RefusedNowhere, UnsentNowhere, Owned
    <2>4. QED
      BY <1>2, <2>3, AnswerStep
  <1>3. QED
    BY <1>1, <1>2

\* The invariant behind the refinement holds at the start.
LEMMA InitHandOvers == Init => HandOvers
  <1> SUFFICES ASSUME Init PROVE HandOvers
    OBVIOUS
  <1>1. Ownership
    BY InitOwnership
  <1>2. \A w \in Workers : Hands(w) = {}
    BY <1>1, HandsFacts DEF Init, Ownership
  <1>3. CountedOnce
    BY <1>2 DEF Init, CountedOnce
  <1>4. HeadsFromApp /\ RefusedNowhere
    BY DEF Init, HeadsFromApp, RefusedNowhere
  <1>5. QED
    BY <1>1, <1>3, <1>4 DEF HandOvers

\* The invariant behind the refinement is inductive.
LEMMA HandOversStep == HandOvers /\ [Next]_vars => HandOvers'
  BY OwnershipStep, CountedStep, HeadsStep, RefusedStep DEF HandOvers

-----------------------------------------------------------------------------
(* The queue path implements RequestPromise.                               *)

\* What a change of one future does to the stages.
LEMMA StageFacts ==
  ASSUME TypeOK, NEW r \in Requests, NEW to \in FutureStates,
         future' = [future EXCEPT ![r] = to]
  PROVE  /\ to = "cloned" => Stage' = [Stage EXCEPT ![r] = "pending"]
         /\ to = "writing" => Stage' = [Stage EXCEPT ![r] = "answered"]
         /\ to = "gone" => Stage' = [q \in Requests |-> IF q \in {r} THEN "lost" ELSE Stage[q]]
         /\ Running(r) /\ to \in {"sending", "expired", "awaiting"} => Stage' = Stage
         /\ future[r] = "writing" /\ to = "done" => Stage' = Stage
  <1>1. future \in [Requests -> FutureStates]
    BY DEF TypeOK
  <1>2. ASSUME to = "cloned" PROVE Stage' = [Stage EXCEPT ![r] = "pending"]
    BY <1>1, <1>2 DEF Stage
  <1>3. ASSUME to = "writing" PROVE Stage' = [Stage EXCEPT ![r] = "answered"]
    BY <1>1, <1>3 DEF Stage
  <1>4. ASSUME to = "gone"
        PROVE  Stage' = [q \in Requests |-> IF q \in {r} THEN "lost" ELSE Stage[q]]
    BY <1>1, <1>4 DEF Stage
  <1>5. ASSUME Running(r), to \in {"sending", "expired", "awaiting"} PROVE Stage' = Stage
    BY <1>1, <1>5 DEF Stage, Running
  <1>6. ASSUME future[r] = "writing", to = "done" PROVE Stage' = Stage
    BY <1>1, <1>6 DEF Stage
  <1>7. QED
    BY <1>2, <1>3, <1>4, <1>5, <1>6

\* The stage of a request by its future.
LEMMA StageOf ==
  ASSUME TypeOK, NEW r \in Requests
  PROVE  /\ future[r] = "idle" => Stage[r] = "new"
         /\ Running(r) => Stage[r] = "pending"
         /\ future[r] \in {"writing", "done"} => Stage[r] = "answered"
         /\ Stage[r] = "new" => future[r] = "idle"
  BY DEF TypeOK, Stage, Running, FutureStates

\* A response to a request that waits for one.
LEMMA AnswerMaps ==
  ASSUME HandOvers, NEW r \in Requests, NEW what \in Promise!Replies,
         future' = [future EXCEPT ![r] = "writing"],
         answer' = [answer EXCEPT ![r] = what], UNCHANGED served,
         Running(r) \/ (future[r] = "idle" /\ what \in {"503", "413"}),
         what = "app" => head[r] = "app", what = "413" => future[r] = "idle"
  PROVE  Promise!Answer(r, what)
  <1>1. TypeOK
    BY DEF HandOvers, Ownership
  <1>2. Stage' = [Stage EXCEPT ![r] = "answered"]
    BY <1>1, StageFacts DEF FutureStates
  <1>3. Stage[r] = "pending" \/ (Stage[r] = "new" /\ what \in {"503", "413"})
    BY <1>1, StageOf
  <1>4. (what = "app" => served[r] = 1) /\ (what = "413" => served[r] = 0)
    BY DEF HandOvers, HeadsFromApp, CountedOnce, Fresh
  <1>5. QED
    BY <1>2, <1>3, <1>4 DEF Promise!Answer

\* Every step of the queue path is a step of the promise, or invisible to it.
LEMMA PromiseStep ==
  ASSUME HandOvers, [Next]_vars
  PROVE  [Promise!Next]_(Promise!vars)
  <1> USE DEF clientVars, queueVars, respVars, slotVars, workerVars, mainVars
  <1>0. TypeOK /\ Ownership /\ CountedOnce /\ RefusedNowhere
    BY DEF HandOvers, Ownership
  <1>1. UNCHANGED <<future, answer, served>> => UNCHANGED Promise!vars
    BY DEF Promise!vars, Stage
  <1>2. UNCHANGED <<Stage, answer, served>> => UNCHANGED Promise!vars
    BY DEF Promise!vars
  <1>3. ASSUME NEW r \in Requests, Promise!Submit(r) \/ Promise!HandOver(r)
        PROVE  Promise!Next
    BY <1>3 DEF Promise!Next
  <1>4. ASSUME NEW r \in Requests, NEW what \in Promise!Replies, Promise!Answer(r, what)
        PROVE  Promise!Next
    BY <1>4 DEF Promise!Next
  <1>5. ASSUME NEW rs \in SUBSET Requests, Promise!Lose(rs) PROVE Promise!Next
    BY <1>5 DEF Promise!Next
  <1>6. ASSUME NEW r \in Requests, Arrive(r) PROVE Promise!Next
    <2>1. future[r] = "idle" /\ UNCHANGED served
      BY <1>6 DEF Arrive
    <2>2. CASE future' = [future EXCEPT ![r] = "cloned"] /\ UNCHANGED answer
      <3>1. Stage' = [Stage EXCEPT ![r] = "pending"] /\ Stage[r] = "new"
        BY <1>0, <2>1, <2>2, StageFacts, StageOf DEF FutureStates
      <3>2. Promise!Submit(r)
        BY <2>1, <2>2, <3>1 DEF Promise!Submit
      <3>3. QED
        BY <1>3, <3>2
    <2>3. CASE future' = [future EXCEPT ![r] = "writing"] /\ answer' = [answer EXCEPT ![r] = "503"]
      <3>1. "503" \in Promise!Replies
        BY DEF Promise!Replies
      <3>2. QED
        BY <1>4, <2>1, <2>3, <3>1, AnswerMaps
    <2>4. QED
      BY <1>6, <2>2, <2>3 DEF Arrive
  <1>7. ASSUME NEW r \in Requests, ArriveOversize(r) PROVE Promise!Next
    <2>1. /\ future[r] = "idle" /\ UNCHANGED served /\ "413" \in Promise!Replies
          /\ future' = [future EXCEPT ![r] = "writing"] /\ answer' = [answer EXCEPT ![r] = "413"]
      BY <1>7 DEF ArriveOversize, Promise!Replies
    <2>2. QED
      BY <1>4, <2>1, AnswerMaps
  <1>8. ASSUME NEW r \in Requests, QueueTimeout(r) \/ HeadArrives(r) \/ HeadTimeout(r)
        PROVE  Promise!Next
    <2>1. PICK what \in {"app", "500", "503", "504"} :
            /\ Return(r, what) /\ UNCHANGED served /\ Running(r)
            /\ what = "app" => head[r] = "app"
      BY <1>8 DEF QueueTimeout, HeadArrives, HeadTimeout, Running
    <2>2. /\ future' = [future EXCEPT ![r] = "writing"] /\ answer' = [answer EXCEPT ![r] = what]
          /\ what \in Promise!Replies /\ what # "413"
      BY <2>1 DEF Return, Promise!Replies
    <2>3. Promise!Answer(r, what)
      BY <2>1, <2>2, AnswerMaps
    <2>4. QED
      BY <1>4, <2>2, <2>3
  <1>9. ASSUME NEW r \in Requests, ClientAbort(r) PROVE Promise!Next
    <2>1. /\ Running(r) \/ future[r] = "writing"
          /\ future' = [future EXCEPT ![r] = "gone"]
      BY <1>9 DEF ClientAbort, Running
    <2>2. /\ Stage' = [q \in Requests |-> IF q \in {r} THEN "lost" ELSE Stage[q]]
          /\ Stage[r] \in {"pending", "answered"}
      BY <1>0, <2>1, StageFacts, StageOf DEF FutureStates
    <2>3. UNCHANGED <<answer, served>>
      BY <1>9 DEF ClientAbort
    <2>4. Promise!Lose({r})
      BY <2>2, <2>3 DEF Promise!Lose
    <2>5. QED
      BY <1>5, <2>4
  <1>10. ASSUME NEW r \in Requests,
                Send(r) \/ SendCompletes(r) \/ QueueTimerFires(r) \/ Written(r)
         PROVE  UNCHANGED Promise!vars
    <2>1. \/ Running(r) /\ \/ future' = [future EXCEPT ![r] = "awaiting"]
                            \/ future' = [future EXCEPT ![r] = "sending"]
                            \/ future' = [future EXCEPT ![r] = "expired"]
          \/ future[r] = "writing" /\ future' = [future EXCEPT ![r] = "done"]
      BY <1>10 DEF Send, SendCompletes, QueueTimerFires, Written, Running
    <2>2. UNCHANGED <<answer, served>>
      BY <1>10 DEF Send, SendCompletes, QueueTimerFires, Written
    <2>3. UNCHANGED Stage
      BY <1>0, <2>1, StageFacts DEF FutureStates
    <2>4. QED
      BY <1>2, <2>2, <2>3
  <1>11. ASSUME NEW w \in Workers, Admit(w) PROVE Promise!Next
    <2>1. PICK q \in Requests :
            /\ served[q] = 0 /\ served' = [served EXCEPT ![q] = 1]
            /\ UNCHANGED <<future, answer>> /\ future[q] # "idle" /\ Owned(q)
      BY <1>0, <1>11, AdmitCounts
    <2>2. UNCHANGED Stage /\ Stage[q] # "new" /\ answer[q] # "413"
      BY <1>0, <2>1, StageOf DEF Stage, RefusedNowhere
    <2>3. Promise!HandOver(q)
      BY <2>1, <2>2 DEF Promise!HandOver
    <2>4. QED
      BY <1>3, <2>3
  <1>12. ASSUME \E w \in Workers :
                 \/ Checkout(w) \/ TryReceive(w) \/ WaitTick(w) \/ Fill(w)
                 \/ CloseBody(w) \/ CloseBodyRaises(w) \/ RespondFused(w) \/ Respond(w)
                 \/ AppRaises(w) \/ Crash(w) \/ AbortInflight(w) \/ Respawn(w) \/ Retire(w)
         PROVE  UNCHANGED <<future, answer, served>>
    BY <1>12 DEF Checkout, TryReceive, WaitTick, Fill, CloseBody, CloseBodyRaises,
       RespondFused, Respond, AppRaises, Crash, AbortInflight, Respawn, Retire
  <1>13. ASSUME \/ StopAccepting \/ Deadline \/ SampleQueued \/ SampleInFlight
                \/ DrainDeadline \/ CloseQueue \/ JoinWorkers \/ AbortNext \/ InterruptAll
                \/ KillStragglers \/ \E r \in Requests : Collect(r)
         PROVE  UNCHANGED <<future, answer, served>>
    BY <1>13 DEF StopAccepting, Deadline, SampleQueued, SampleInFlight, DrainDeadline,
       CloseQueue, JoinWorkers, AbortNext, InterruptAll, KillStragglers, Collect
  <1>14. ASSUME ShutdownRuntime PROVE Promise!Next \/ UNCHANGED Promise!vars
    <2> DEFINE rs == {r \in Requests : future[r] \in {"sending", "awaiting", "writing"}}
    <2>1. /\ future' = [r \in Requests |->
                          IF future[r] \in {"idle", "done", "gone"} THEN future[r] ELSE "cut"]
          /\ \A r \in Requests : future[r] \notin {"cloned", "expired"}
          /\ UNCHANGED <<answer, served>>
      BY <1>14 DEF ShutdownRuntime
    <2>2. Stage' = [r \in Requests |-> IF r \in rs THEN "lost" ELSE Stage[r]]
      BY <1>0, <2>1 DEF Stage, TypeOK, FutureStates
    <2>3. \A r \in rs : Stage[r] \in {"pending", "answered"}
      BY <1>0, StageOf DEF Running
    <2>4. CASE rs = {}
      <3>1. Stage' = Stage
        BY <2>2, <2>4 DEF Stage
      <3>2. QED
        BY <1>2, <2>1, <3>1
    <2>5. CASE rs # {}
      <3>1. Promise!Lose(rs)
        BY <2>1, <2>2, <2>3, <2>5 DEF Promise!Lose
      <3>2. QED
        BY <1>5, <3>1
    <2>6. QED
      BY <2>4, <2>5
  <1>15. CASE UNCHANGED vars
    BY <1>1, <1>15 DEF vars
  <1>16. QED
    BY NextCases, <1>1, <1>6, <1>7, <1>8, <1>9, <1>10, <1>11, <1>12, <1>13, <1>14, <1>15

\* The shared-queue path implements RequestPromise: whatever threads, timers,
\* crashes and shutdowns do in between, the app is handed a request at most
\* once and never one refused for its size, and the client gets at most one
\* response, the app's only if the app was handed the request.
THEOREM QueueKeepsPromise == Spec => KeepsPromise
  <1>1. Init => Promise!Init
    BY DEF Init, Promise!Init, Stage
  <1>2. HandOvers /\ [Next]_vars => [Promise!Next]_(Promise!vars)
    BY PromiseStep
  <1>3. QED
    BY <1>1, <1>2, InitHandOvers, HandOversStep, PTL DEF Spec, KeepsPromise, Promise!Spec

-----------------------------------------------------------------------------
(* The gauge the drain waits on.                                           *)

RunningSet == {r \in Requests : Running(r)}

\* One future starts, ends or goes on; the gauge follows.
LEMMA GaugeFollows ==
  ASSUME TypeOK, IsFiniteSet(Requests), NEW r \in Requests, NEW to \in FutureStates,
         inFlight = Cardinality(RunningSet), future' = [future EXCEPT ![r] = to],
         \/ Running(r)' /\ ~Running(r) /\ inFlight' = inFlight + 1
         \/ ~Running(r)' /\ Running(r) /\ inFlight' = inFlight - 1
         \/ (Running(r)' <=> Running(r)) /\ inFlight' = inFlight
  PROVE  inFlight' = Cardinality(RunningSet')
  <1>1. IsFiniteSet(RunningSet) /\ Cardinality(RunningSet) \in Nat
    BY FS_Subset, FS_CardinalityType DEF RunningSet
  <1>2. \A q \in Requests : q # r => (Running(q)' <=> Running(q))
    BY DEF TypeOK, Running
  <1>3. CASE Running(r)' /\ ~Running(r) /\ inFlight' = inFlight + 1
    <2>1. RunningSet' = RunningSet \cup {r} /\ r \notin RunningSet
      BY <1>2, <1>3 DEF RunningSet
    <2>2. Cardinality(RunningSet \cup {r}) = Cardinality(RunningSet) + 1
      BY <1>1, <2>1, FS_AddElement
    <2>3. QED
      BY <1>1, <1>3, <2>1, <2>2
  <1>4. CASE ~Running(r)' /\ Running(r) /\ inFlight' = inFlight - 1
    <2>1. RunningSet' = RunningSet \ {r} /\ r \in RunningSet
      BY <1>2, <1>4 DEF RunningSet
    <2>2. Cardinality(RunningSet \ {r}) = Cardinality(RunningSet) - 1
      BY <1>1, <2>1, FS_RemoveElement
    <2>3. QED
      BY <1>1, <1>4, <2>1, <2>2
  <1>5. CASE (Running(r)' <=> Running(r)) /\ inFlight' = inFlight
    <2>1. RunningSet' = RunningSet
      BY <1>2, <1>5 DEF RunningSet
    <2>2. QED
      BY <1>1, <1>5, <2>1
  <1>6. QED
    BY <1>3, <1>4, <1>5

\* Every step keeps gauge and futures together.
LEMMA GaugeStep ==
  ASSUME TypeOK, IsFiniteSet(Requests), InFlightExact, [Next]_vars
  PROVE  InFlightExact'
  <1> USE DEF clientVars, queueVars, respVars, slotVars, workerVars, mainVars
  <1>0. /\ inFlight = Cardinality(RunningSet) /\ inFlight \in Int
        /\ future \in [Requests -> FutureStates]
    BY DEF InFlightExact, RunningSet, Running, TypeOK
  <1> SUFFICES inFlight' = Cardinality(RunningSet')
    BY DEF InFlightExact, RunningSet, Running
  <1>1. UNCHANGED <<future, inFlight>> => inFlight' = Cardinality(RunningSet')
    BY <1>0 DEF RunningSet, Running
  <1>2. ASSUME NEW r \in Requests, Arrive(r) \/ ArriveOversize(r)
        PROVE  inFlight' = Cardinality(RunningSet')
    <2>1. CASE future' = [future EXCEPT ![r] = "cloned"] /\ inFlight' = inFlight + 1
      <3>1. Running(r)' /\ ~Running(r) /\ "cloned" \in FutureStates
        BY <1>0, <1>2, <2>1 DEF Arrive, ArriveOversize, Running, FutureStates
      <3>2. QED
        BY <1>0, <2>1, <3>1, GaugeFollows
    <2>2. CASE future' = [future EXCEPT ![r] = "writing"] /\ inFlight' = inFlight
      <3>1. ~Running(r)' /\ ~Running(r) /\ "writing" \in FutureStates
        BY <1>0, <1>2, <2>2 DEF Arrive, ArriveOversize, Running, FutureStates
      <3>2. QED
        BY <1>0, <2>2, <3>1, GaugeFollows
    <2>3. QED
      BY <1>2, <2>1, <2>2 DEF Arrive, ArriveOversize
  <1>3. ASSUME NEW r \in Requests, Send(r) \/ SendCompletes(r) \/ QueueTimerFires(r)
        PROVE  inFlight' = Cardinality(RunningSet')
    <2>1. /\ \/ future' = [future EXCEPT ![r] = "awaiting"]
             \/ future' = [future EXCEPT ![r] = "sending"]
             \/ future' = [future EXCEPT ![r] = "expired"]
          /\ inFlight' = inFlight
      BY <1>3 DEF Send, SendCompletes, QueueTimerFires
    <2>2. Running(r)' /\ Running(r)
      BY <1>0, <1>3, <2>1 DEF Send, SendCompletes, QueueTimerFires, Running
    <2>3. QED
      BY <1>0, <2>1, <2>2, GaugeFollows DEF FutureStates
  <1>4. ASSUME NEW r \in Requests, QueueTimeout(r) \/ HeadArrives(r) \/ HeadTimeout(r)
        PROVE  inFlight' = Cardinality(RunningSet')
    <2>1. future' = [future EXCEPT ![r] = "writing"] /\ inFlight' = inFlight - 1 /\ Running(r)
      BY <1>4 DEF QueueTimeout, HeadArrives, HeadTimeout, Return, Running
    <2>2. ~Running(r)' /\ "writing" \in FutureStates
      BY <1>0, <2>1 DEF Running, FutureStates
    <2>3. QED
      BY <1>0, <2>1, <2>2, GaugeFollows
  <1>5. ASSUME NEW r \in Requests, ClientAbort(r) PROVE inFlight' = Cardinality(RunningSet')
    <2>1. /\ future' = [future EXCEPT ![r] = "gone"] /\ "gone" \in FutureStates
          /\ inFlight' = IF Running(r) THEN inFlight - 1 ELSE inFlight
      BY <1>5 DEF ClientAbort, Running, FutureStates
    <2>2. ~Running(r)'
      BY <1>0, <2>1 DEF Running
    <2>3. QED
      BY <1>0, <2>1, <2>2, GaugeFollows
  <1>6. ASSUME NEW r \in Requests, Written(r) PROVE inFlight' = Cardinality(RunningSet')
    <2>1. /\ future' = [future EXCEPT ![r] = "done"] /\ "done" \in FutureStates
          /\ inFlight' = inFlight /\ ~Running(r)
      BY <1>6 DEF Written, Running, FutureStates
    <2>2. ~Running(r)'
      BY <1>0, <2>1 DEF Running
    <2>3. QED
      BY <1>0, <2>1, <2>2, GaugeFollows
  <1>7. ASSUME \E w \in Workers :
                 \/ Checkout(w) \/ TryReceive(w) \/ WaitTick(w) \/ Admit(w) \/ Fill(w)
                 \/ CloseBody(w) \/ CloseBodyRaises(w) \/ RespondFused(w) \/ Respond(w)
                 \/ AppRaises(w) \/ Crash(w) \/ AbortInflight(w) \/ Respawn(w) \/ Retire(w)
        PROVE  UNCHANGED <<future, inFlight>>
    BY <1>7 DEF Checkout, TryReceive, WaitTick, Admit, Fill, CloseBody, CloseBodyRaises,
       RespondFused, Respond, AppRaises, Crash, AbortInflight, Respawn, Retire
  <1>8. ASSUME \/ StopAccepting \/ Deadline \/ SampleQueued \/ SampleInFlight
               \/ DrainDeadline \/ CloseQueue \/ JoinWorkers \/ AbortNext \/ InterruptAll
               \/ KillStragglers \/ \E r \in Requests : Collect(r)
        PROVE  UNCHANGED <<future, inFlight>>
    BY <1>8 DEF StopAccepting, Deadline, SampleQueued, SampleInFlight, DrainDeadline,
       CloseQueue, JoinWorkers, AbortNext, InterruptAll, KillStragglers, Collect
  <1>9. ASSUME ShutdownRuntime PROVE inFlight' = Cardinality(RunningSet')
    <2>1. RunningSet' = {} /\ inFlight' = 0
      BY <1>0, <1>9 DEF ShutdownRuntime, RunningSet, Running
    <2>2. QED
      BY <2>1, FS_EmptySet
  <1>10. CASE UNCHANGED vars
    BY <1>1, <1>10 DEF vars
  <1>11. QED
    BY NextCases, <1>1, <1>2, <1>3, <1>4, <1>5, <1>6, <1>7, <1>8, <1>9, <1>10

\* With finitely many requests, in_flight counts the running futures exactly,
\* through every timeout, hang-up, refusal and the teardown: the drain can
\* neither be held up by a leaked count nor let go by a lost one.
THEOREM GaugeExact == ASSUME IsFiniteSet(Requests) PROVE Spec => []InFlightExact
  <1>1. Init => InFlightExact
    <2> SUFFICES ASSUME Init PROVE InFlightExact
      OBVIOUS
    <2>1. RunningSet = {} /\ inFlight = 0
      BY DEF Init, RunningSet, Running
    <2>2. QED
      BY <2>1, FS_EmptySet DEF InFlightExact, RunningSet, Running
  <1>2. TypeOK /\ InFlightExact /\ [Next]_vars => InFlightExact'
    BY GaugeStep
  <1>3. QED
    BY <1>1, <1>2, TypeCorrect, PTL DEF Spec

-----------------------------------------------------------------------------
(* A graceful shutdown leaves an empty queue.                              *)

\* The worker's loop has ended, or ends when it has closed the last body.
Left(w) == pc[w] = "exited" \/ (pc[w] = "close" /\ held[w] = <<>>)

\* Before the deadline nobody is interrupted or killed, and a worker that was
\* not retired leaves only a queue that nobody can fill any more.
LeavesInTime ==
  ~late =>
    /\ phase \notin {"aborting", "interrupting", "reaping"}
    /\ \A w \in Workers : ~interrupted[w]
    /\ phase \in {"teardown", "stopped"} => WorkersDone
    /\ \A w \in Workers : Left(w) /\ ~retired[w] => Disconnected

\* Not everybody who was booted is retired.
SomeoneStays == \E w \in Workers : pc[w] # "unborn" /\ ~retired[w]

Departures == Ownership /\ LeavesInTime /\ SomeoneStays

\* A closed queue stays closed, and nobody gets hold of a sender after that.
LEMMA SenderStep ==
  ASSUME TypeOK, [Next]_vars, ~open
  PROVE  ~open' /\ \A q \in Requests : HoldsSender(q)' => HoldsSender(q)
  <1> USE DEF clientVars, queueVars, respVars, slotVars, workerVars, mainVars, HoldsSender
  <1>0. future \in [Requests -> FutureStates]
    BY DEF TypeOK
  <1> DEFINE Goal == ~open' /\ \A q \in Requests : HoldsSender(q)' => HoldsSender(q)
  <1>1. ASSUME NEW r \in Requests, NEW to, future' = [future EXCEPT ![r] = to], UNCHANGED open,
               HoldsSender(r) \/ to \notin {"cloned", "sending", "expired"}
        PROVE  Goal
    BY <1>0, <1>1
  <1>2. ASSUME NEW r \in Requests, Arrive(r) \/ ArriveOversize(r)
        PROVE  Goal
    <2>1. future' = [future EXCEPT ![r] = "writing"] /\ UNCHANGED open
      BY <1>2 DEF Arrive, ArriveOversize
    <2>2. QED
      BY <1>1, <2>1
  <1>3. ASSUME NEW r \in Requests, ClientAbort(r) \/ Written(r)
        PROVE  Goal
    <2>1. /\ future' = [future EXCEPT ![r] = "gone"] \/ future' = [future EXCEPT ![r] = "done"]
          /\ UNCHANGED open
      BY <1>3 DEF ClientAbort, Written
    <2>2. QED
      BY <1>1, <2>1
  <1>4. ASSUME NEW r \in Requests, Send(r) \/ SendCompletes(r) \/ QueueTimerFires(r)
        PROVE  Goal
    <2>1. (\E to : future' = [future EXCEPT ![r] = to]) /\ UNCHANGED open /\ HoldsSender(r)
      BY <1>4 DEF Send, SendCompletes, QueueTimerFires
    <2>2. QED
      BY <1>1, <2>1
  <1>5. ASSUME NEW r \in Requests, QueueTimeout(r) \/ HeadArrives(r) \/ HeadTimeout(r)
        PROVE  Goal
    <2>1. future' = [future EXCEPT ![r] = "writing"] /\ UNCHANGED open
      BY <1>5 DEF QueueTimeout, HeadArrives, HeadTimeout, Return
    <2>2. QED
      BY <1>1, <2>1
  <1>6. ASSUME \E w \in Workers :
                 \/ Checkout(w) \/ TryReceive(w) \/ WaitTick(w) \/ Admit(w) \/ Fill(w)
                 \/ CloseBody(w) \/ CloseBodyRaises(w) \/ RespondFused(w) \/ Respond(w)
                 \/ AppRaises(w) \/ Crash(w) \/ AbortInflight(w) \/ Respawn(w) \/ Retire(w)
        PROVE  UNCHANGED <<future, open>>
    BY <1>6 DEF Checkout, TryReceive, WaitTick, Admit, Fill, CloseBody, CloseBodyRaises,
       RespondFused, Respond, AppRaises, Crash, AbortInflight, Respawn, Retire
  <1>7. ASSUME \/ StopAccepting \/ Deadline \/ SampleQueued \/ SampleInFlight
               \/ DrainDeadline \/ JoinWorkers \/ AbortNext \/ InterruptAll
               \/ KillStragglers \/ \E r \in Requests : Collect(r)
        PROVE  UNCHANGED <<future, open>>
    BY <1>7 DEF StopAccepting, Deadline, SampleQueued, SampleInFlight, DrainDeadline,
       JoinWorkers, AbortNext, InterruptAll, KillStragglers, Collect
  <1>8. ASSUME CloseQueue PROVE UNCHANGED future /\ ~open'
    BY <1>8 DEF CloseQueue
  <1>9. ASSUME ShutdownRuntime PROVE Goal
    BY <1>0, <1>9 DEF ShutdownRuntime
  <1>10. CASE UNCHANGED vars
    BY <1>10 DEF vars
  <1>11. QED
    BY NextCases, <1>2, <1>3, <1>4, <1>5, <1>6, <1>7, <1>8, <1>9, <1>10

\* Disconnected is for good.
LEMMA DisconnectedStep ==
  ASSUME Ownership, Disconnected, [Next]_vars
  PROVE  Disconnected'
  <1>0. TypeOK /\ line' \in Seq(Requests)
    BY OwnershipStep DEF Ownership, TypeOK
  <1>1. line = <<>> /\ ~open /\ \A r \in Requests : ~HoldsSender(r)
    BY DEF Disconnected
  <1>2. ~open' /\ \A r \in Requests : ~HoldsSender(r)'
    BY <1>0, <1>1, SenderStep
  <1>3. ToSet(line') = {}
    <2>1. ToSet(line) = {}
      BY <1>1 DEF ToSet
    <2>2. \A r \in Requests : future[r] # "cloned"
      BY <1>1 DEF HoldsSender
    <2>3. QED
      BY <2>1, <2>2, LineStep
  <1>4. line' = <<>>
    <2>1. ToSet(line') = {line'[k] : k \in 1..Len(line')} /\ Len(line') \in Nat
      BY <1>0, SetFacts, LenProperties
    <2>2. 1 \notin 1..Len(line')
      BY <1>3, <2>1
    <2>3. Len(line') = 0
      BY <2>1, <2>2
    <2>4. QED
      BY <1>0, <2>3, EmptySeq
  <1>5. QED
    BY <1>2, <1>4 DEF Disconnected

\* Only the scaler retires.
LEMMA RetiredOnly ==
  ASSUME [Next]_vars
  PROVE  UNCHANGED retired \/ \E w \in Workers : Retire(w)
  <1> USE DEF clientVars, queueVars, respVars, slotVars, workerVars, mainVars
  <1>1. ASSUME \E r \in Requests :
                 \/ Arrive(r) \/ ArriveOversize(r) \/ ClientAbort(r) \/ Send(r)
                 \/ SendCompletes(r) \/ QueueTimerFires(r) \/ QueueTimeout(r)
                 \/ HeadArrives(r) \/ HeadTimeout(r) \/ Written(r) \/ Collect(r)
        PROVE  UNCHANGED retired
    BY <1>1 DEF Arrive, ArriveOversize, ClientAbort, Send, SendCompletes, QueueTimerFires,
       QueueTimeout, HeadArrives, HeadTimeout, Written, Collect
  <1>2. ASSUME \E w \in Workers :
                 \/ Checkout(w) \/ TryReceive(w) \/ WaitTick(w) \/ Admit(w) \/ Fill(w)
                 \/ CloseBody(w) \/ CloseBodyRaises(w) \/ RespondFused(w) \/ Respond(w)
                 \/ AppRaises(w) \/ Crash(w) \/ AbortInflight(w) \/ Respawn(w)
        PROVE  UNCHANGED retired
    BY <1>2 DEF Checkout, TryReceive, WaitTick, Admit, Fill, CloseBody, CloseBodyRaises,
       RespondFused, Respond, AppRaises, Crash, AbortInflight, Respawn
  <1>3. ASSUME \/ StopAccepting \/ Deadline \/ SampleQueued \/ SampleInFlight
               \/ DrainDeadline \/ CloseQueue \/ JoinWorkers \/ AbortNext \/ InterruptAll
               \/ KillStragglers \/ ShutdownRuntime
        PROVE  UNCHANGED retired
    BY <1>3 DEF StopAccepting, Deadline, SampleQueued, SampleInFlight, DrainDeadline,
       CloseQueue, JoinWorkers, AbortNext, InterruptAll, KillStragglers, ShutdownRuntime
  <1>4. CASE UNCHANGED vars
    BY <1>4 DEF vars
  <1>5. QED
    BY NextCases, <1>1, <1>2, <1>3, <1>4

\* The deadline is never taken back, and retirement neither.
LEMMA LateStep ==
  ASSUME TypeOK, [Next]_vars
  PROVE  /\ ~late' => ~late
         /\ \A w \in Workers : ~retired'[w] => ~retired[w]
  <1> USE DEF clientVars, queueVars, respVars, slotVars, workerVars, mainVars
  <1>1. ASSUME NEW w \in Workers, Retire(w), NEW v \in Workers, ~retired'[v]
        PROVE  ~retired[v]
    BY <1>1, Zenon DEF Retire, TypeOK
  <1>2. UNCHANGED late \/ late' = TRUE
    <2>1. ASSUME \E r \in Requests :
                   \/ Arrive(r) \/ ArriveOversize(r) \/ ClientAbort(r) \/ Send(r)
                   \/ SendCompletes(r) \/ QueueTimerFires(r) \/ QueueTimeout(r)
                   \/ HeadArrives(r) \/ HeadTimeout(r) \/ Written(r) \/ Collect(r)
          PROVE  UNCHANGED late
      BY <2>1 DEF Arrive, ArriveOversize, ClientAbort, Send, SendCompletes, QueueTimerFires,
         QueueTimeout, HeadArrives, HeadTimeout, Written, Collect
    <2>2. ASSUME \E w \in Workers :
                   \/ Checkout(w) \/ TryReceive(w) \/ WaitTick(w) \/ Admit(w) \/ Fill(w)
                   \/ CloseBody(w) \/ CloseBodyRaises(w) \/ RespondFused(w) \/ Respond(w)
                   \/ AppRaises(w) \/ Crash(w) \/ AbortInflight(w) \/ Respawn(w) \/ Retire(w)
          PROVE  UNCHANGED late
      BY <2>2 DEF Checkout, TryReceive, WaitTick, Admit, Fill, CloseBody, CloseBodyRaises,
         RespondFused, Respond, AppRaises, Crash, AbortInflight, Respawn, Retire
    <2>3. ASSUME \/ StopAccepting \/ SampleQueued \/ SampleInFlight \/ DrainDeadline
                 \/ CloseQueue \/ JoinWorkers \/ AbortNext \/ InterruptAll
                 \/ KillStragglers \/ ShutdownRuntime
          PROVE  UNCHANGED late
      BY <2>3 DEF StopAccepting, SampleQueued, SampleInFlight, DrainDeadline,
         CloseQueue, JoinWorkers, AbortNext, InterruptAll, KillStragglers, ShutdownRuntime
    <2>4. ASSUME Deadline PROVE late' = TRUE
      BY <2>4 DEF Deadline
    <2>5. CASE UNCHANGED vars
      BY <2>5 DEF vars
    <2>6. QED
      BY NextCases, <2>1, <2>2, <2>3, <2>4, <2>5
  <1>3. QED
    BY <1>1, <1>2, RetiredOnly

\* When every worker is done, nothing brings one back.
LEMMA DoneStep ==
  ASSUME TypeOK, WorkersDone, [Next]_vars
  PROVE  UNCHANGED pc
  <1> USE DEF clientVars, queueVars, respVars, slotVars, workerVars, mainVars
  <1>0. \A w \in Workers : pc[w] \in {"unborn", "exited", "dead"}
    BY DEF WorkersDone
  <1>1. ASSUME \E r \in Requests :
                 \/ Arrive(r) \/ ArriveOversize(r) \/ ClientAbort(r) \/ Send(r)
                 \/ SendCompletes(r) \/ QueueTimerFires(r) \/ QueueTimeout(r)
                 \/ HeadArrives(r) \/ HeadTimeout(r) \/ Written(r) \/ Collect(r)
        PROVE  UNCHANGED pc
    BY <1>1 DEF Arrive, ArriveOversize, ClientAbort, Send, SendCompletes, QueueTimerFires,
       QueueTimeout, HeadArrives, HeadTimeout, Written, Collect
  <1>2. ASSUME NEW w \in Workers,
               \/ Checkout(w) \/ TryReceive(w) \/ WaitTick(w) \/ Admit(w) \/ Fill(w)
               \/ CloseBody(w) \/ CloseBodyRaises(w) \/ RespondFused(w) \/ Respond(w)
               \/ AppRaises(w) \/ Crash(w) \/ AbortInflight(w) \/ Respawn(w)
        PROVE  FALSE
    BY <1>0, <1>2 DEF Checkout, TryReceive, WaitTick, Admit, Fill, CloseBody,
       CloseBodyRaises, RespondFused, Respond, AppRaises, Crash, AbortInflight, Respawn
  <1>3. ASSUME \/ StopAccepting \/ Deadline \/ SampleQueued \/ SampleInFlight
               \/ DrainDeadline \/ CloseQueue \/ JoinWorkers \/ AbortNext \/ InterruptAll
               \/ ShutdownRuntime \/ \E w \in Workers : Retire(w)
        PROVE  UNCHANGED pc
    BY <1>3 DEF StopAccepting, Deadline, SampleQueued, SampleInFlight, DrainDeadline,
       CloseQueue, JoinWorkers, AbortNext, InterruptAll, ShutdownRuntime, Retire
  <1>4. ASSUME KillStragglers PROVE UNCHANGED pc
    BY <1>0, <1>4 DEF KillStragglers, TypeOK
  <1>5. CASE UNCHANGED vars
    BY <1>5 DEF vars
  <1>6. QED
    BY NextCases, <1>1, <1>2, <1>3, <1>4, <1>5

\* How Server#shutdown moves on before its deadline, and who may interrupt.
LEMMA InTimeStep ==
  ASSUME TypeOK, LeavesInTime, [Next]_vars, ~late, ~late'
  PROVE  /\ phase' \notin {"aborting", "interrupting", "reaping"}
         /\ \A w \in Workers : ~interrupted'[w]
         /\ phase' \in {"teardown", "stopped"} => WorkersDone
  <1> USE DEF clientVars, queueVars, respVars, slotVars, workerVars, mainVars
  <1>0. /\ phase \notin {"aborting", "interrupting", "reaping"}
        /\ \A w \in Workers : ~interrupted[w]
        /\ phase \in {"teardown", "stopped"} => WorkersDone
    BY DEF LeavesInTime
  <1>1. ASSUME \E r \in Requests :
                 \/ Arrive(r) \/ ArriveOversize(r) \/ ClientAbort(r) \/ Send(r)
                 \/ SendCompletes(r) \/ QueueTimerFires(r) \/ QueueTimeout(r)
                 \/ HeadArrives(r) \/ HeadTimeout(r) \/ Written(r) \/ Collect(r)
        PROVE  UNCHANGED <<phase, interrupted>>
    BY <1>1 DEF Arrive, ArriveOversize, ClientAbort, Send, SendCompletes, QueueTimerFires,
       QueueTimeout, HeadArrives, HeadTimeout, Written, Collect
  <1>2. ASSUME \E w \in Workers :
                 \/ TryReceive(w) \/ WaitTick(w) \/ Admit(w) \/ Fill(w)
                 \/ CloseBody(w) \/ CloseBodyRaises(w) \/ RespondFused(w) \/ Respond(w)
                 \/ AppRaises(w) \/ Crash(w) \/ AbortInflight(w) \/ Respawn(w) \/ Retire(w)
        PROVE  UNCHANGED <<phase, interrupted>>
    BY <1>2 DEF TryReceive, WaitTick, Admit, Fill, CloseBody, CloseBodyRaises,
       RespondFused, Respond, AppRaises, Crash, AbortInflight, Respawn, Retire
  <1>3. ASSUME NEW w \in Workers, Checkout(w)
        PROVE  /\ UNCHANGED phase
               /\ UNCHANGED interrupted \/ interrupted' = [interrupted EXCEPT ![w] = FALSE]
    BY <1>3 DEF Checkout
  <1>4. ASSUME NEW w \in Workers, interrupted' = [interrupted EXCEPT ![w] = FALSE]
        PROVE  \A v \in Workers : ~interrupted'[v]
    BY <1>0, <1>4, Zenon DEF TypeOK
  <1>5. ASSUME StopAccepting \/ SampleQueued \/ SampleInFlight \/ DrainDeadline \/ CloseQueue
        PROVE  /\ UNCHANGED interrupted
               /\ phase' \in {"draining", "sampled", "closing", "joining"}
    BY <1>5 DEF StopAccepting, SampleQueued, SampleInFlight, DrainDeadline, CloseQueue
  <1>6. ASSUME JoinWorkers PROVE UNCHANGED interrupted /\ phase' = "teardown" /\ WorkersDone
    BY <1>6 DEF JoinWorkers
  <1>7. ASSUME ShutdownRuntime
        PROVE  UNCHANGED interrupted /\ phase = "teardown" /\ phase' = "stopped"
    BY <1>7 DEF ShutdownRuntime
  <1>8. ~Deadline /\ ~AbortNext /\ ~InterruptAll /\ ~KillStragglers
    BY <1>0 DEF Deadline, AbortNext, InterruptAll, KillStragglers
  <1>9. CASE UNCHANGED vars
    BY <1>0, <1>9 DEF vars
  <1>10. QED
    BY NextCases, <1>0, <1>1, <1>2, <1>3, <1>4, <1>5, <1>6, <1>7, <1>8, <1>9

\* Who leaves in time leaves retired, or a queue nobody can fill any more.
LEMMA LeftStep ==
  ASSUME Ownership, LeavesInTime, [Next]_vars, ~late, ~late', NEW v \in Workers, Left(v)',
         ~retired'[v]
  PROVE  Left(v) \/ Disconnected
  <1> USE DEF clientVars, queueVars, respVars, slotVars, workerVars, mainVars
  <1>0. TypeOK /\ HandsMatchPc
    BY DEF Ownership
  <1>1. /\ \A w \in Workers : ~interrupted[w]
        /\ phase \notin {"aborting", "interrupting", "reaping"}
        /\ phase = "stopped" => \A w \in Workers : pc[w] # "checkout"
        /\ ~retired[v]
    BY <1>0, LateStep DEF LeavesInTime, WorkersDone
  <1>2. pc'[v] = pc[v] /\ held'[v] = held[v] => Left(v)
    BY DEF Left
  <1>3. ASSUME \E r \in Requests :
                 \/ Arrive(r) \/ ArriveOversize(r) \/ ClientAbort(r) \/ Send(r)
                 \/ SendCompletes(r) \/ QueueTimerFires(r) \/ QueueTimeout(r)
                 \/ HeadArrives(r) \/ HeadTimeout(r) \/ Written(r) \/ Collect(r)
        PROVE  UNCHANGED <<pc, held>>
    BY <1>3 DEF Arrive, ArriveOversize, ClientAbort, Send, SendCompletes, QueueTimerFires,
       QueueTimeout, HeadArrives, HeadTimeout, Written, Collect
  <1>4. ASSUME NEW w \in Workers, v # w,
               \/ Checkout(w) \/ TryReceive(w) \/ WaitTick(w) \/ Admit(w) \/ Fill(w)
               \/ CloseBody(w) \/ CloseBodyRaises(w) \/ RespondFused(w) \/ Respond(w)
               \/ AppRaises(w) \/ Crash(w) \/ AbortInflight(w)
        PROVE  pc'[v] = pc[v] /\ held'[v] = held[v]
    BY <1>0, <1>4 DEF Checkout, TryReceive, WaitTick, Admit, Fill, CloseBody,
       CloseBodyRaises, RespondFused, Respond, AppRaises, Crash, AbortInflight, TakeEnds,
       Receive, Advance, Goto, TypeOK
  <1>5. CASE Checkout(v)
    BY <1>0, <1>1, <1>5 DEF Checkout, Goto, TypeOK, Left
  <1>6. CASE TryReceive(v) \/ WaitTick(v)
    <2>1. CASE Receive(v)
      BY <1>0, <2>1 DEF Receive, Goto, TypeOK, Left
    <2>2. CASE Goto(v, "wait")
      BY <1>0, <2>2 DEF Goto, TypeOK, Left
    <2>3. QED
      BY <1>1, <1>6, <2>1, <2>2 DEF TryReceive, WaitTick
  <1>7. CASE Fill(v)
    <2>1. CASE Receive(v)
      BY <1>0, <2>1 DEF Receive, Goto, TypeOK, Left
    <2>2. CASE UNCHANGED held
      <3>1. held'[v] # <<>> /\ pc'[v] # "exited"
        BY <1>0, <1>7, <2>2 DEF Fill, HandsMatchPc, Goto, TypeOK, Receive
      <3>2. QED
        BY <3>1 DEF Left
    <2>3. QED
      BY <1>7, <2>1, <2>2 DEF Fill
  <1>8. CASE CloseBody(v)
    BY <1>0, <1>8 DEF CloseBody, Goto, TypeOK, Left
  <1>9. CASE \/ Admit(v) \/ CloseBodyRaises(v) \/ RespondFused(v) \/ Respond(v)
             \/ AppRaises(v) \/ Crash(v) \/ AbortInflight(v)
    BY <1>0, <1>9 DEF Admit, CloseBodyRaises, RespondFused, Respond, AppRaises, Crash,
       AbortInflight, Advance, Goto, TypeOK, Left
  <1>10. ASSUME NEW w \in Workers, Respawn(w) PROVE Left(v)
    <2>1. UNCHANGED held /\ pc[w] = "aborted"
      BY <1>10 DEF Respawn
    <2>2. CASE pc' = [pc EXCEPT ![w] = "dead"]
      BY <1>0, <2>1, <2>2 DEF TypeOK, Left
    <2>3. ASSUME NEW u \in Workers, pc' = [pc EXCEPT ![w] = "dead", ![u] = "checkout"]
          PROVE  Left(v)
      BY <1>0, <2>1, <2>3 DEF TypeOK, Left
    <2>4. QED
      BY <1>10, <2>2, <2>3 DEF Respawn, Goto
  <1>11. ASSUME \/ StopAccepting \/ Deadline \/ SampleQueued \/ SampleInFlight
                \/ DrainDeadline \/ CloseQueue \/ JoinWorkers \/ AbortNext \/ InterruptAll
                \/ ShutdownRuntime \/ \E w \in Workers : Retire(w)
         PROVE  UNCHANGED <<pc, held>>
    BY <1>11 DEF StopAccepting, Deadline, SampleQueued, SampleInFlight, DrainDeadline,
       CloseQueue, JoinWorkers, AbortNext, InterruptAll, ShutdownRuntime, Retire
  <1>12. ~KillStragglers
    BY <1>1 DEF KillStragglers
  <1>13. CASE UNCHANGED vars
    BY <1>2, <1>13 DEF vars
  <1>14. QED
    BY NextCases, <1>2, <1>3, <1>4, <1>5, <1>6, <1>7, <1>8, <1>9, <1>10, <1>11, <1>12, <1>13

\* The scaler sends somebody home only while another one stays, and a slot
\* that was born is never unborn again.
LEMMA StaysStep ==
  ASSUME TypeOK, SomeoneStays, [Next]_vars
  PROVE  SomeoneStays'
  <1> USE DEF clientVars, queueVars, respVars, slotVars, workerVars, mainVars
  <1>1. ASSUME NEW v \in Workers, pc[v] # "unborn" PROVE pc'[v] # "unborn"
    <2>1. UNCHANGED pc \/ (\E w \in Workers, to \in PcStates : to # "unborn" /\ pc' = [pc EXCEPT ![w] = to])
          \/ (\E w, u \in Workers : pc' = [pc EXCEPT ![w] = "dead", ![u] = "checkout"])
          \/ (\A w \in Workers : pc'[w] = pc[w] \/ pc'[w] = "dead")
      <3>1. ASSUME \E r \in Requests :
                     \/ Arrive(r) \/ ArriveOversize(r) \/ ClientAbort(r) \/ Send(r)
                     \/ SendCompletes(r) \/ QueueTimerFires(r) \/ QueueTimeout(r)
                     \/ HeadArrives(r) \/ HeadTimeout(r) \/ Written(r) \/ Collect(r)
            PROVE  UNCHANGED pc
        BY <3>1 DEF Arrive, ArriveOversize, ClientAbort, Send, SendCompletes, QueueTimerFires,
           QueueTimeout, HeadArrives, HeadTimeout, Written, Collect
      <3>2. ASSUME NEW w \in Workers,
                   \/ Checkout(w) \/ TryReceive(w) \/ WaitTick(w) \/ Admit(w) \/ Fill(w)
                   \/ CloseBody(w) \/ CloseBodyRaises(w) \/ RespondFused(w) \/ Respond(w)
                   \/ AppRaises(w) \/ Crash(w) \/ AbortInflight(w)
            PROVE  \E to \in PcStates : to # "unborn" /\ pc' = [pc EXCEPT ![w] = to]
        BY <3>2 DEF Checkout, TryReceive, WaitTick, Admit, Fill, CloseBody,
           CloseBodyRaises, RespondFused, Respond, AppRaises, Crash, AbortInflight, TakeEnds,
           Receive, Advance, Goto, PcStates
      <3>3. ASSUME NEW w \in Workers, Respawn(w)
            PROVE  \/ pc' = [pc EXCEPT ![w] = "dead"]
                   \/ \E u \in Workers : pc' = [pc EXCEPT ![w] = "dead", ![u] = "checkout"]
        BY <3>3 DEF Respawn, Goto
      <3>4. ASSUME \/ StopAccepting \/ Deadline \/ SampleQueued \/ SampleInFlight
                   \/ DrainDeadline \/ CloseQueue \/ JoinWorkers \/ AbortNext \/ InterruptAll
                   \/ ShutdownRuntime \/ \E w \in Workers : Retire(w)
            PROVE  UNCHANGED pc
        BY <3>4 DEF StopAccepting, Deadline, SampleQueued, SampleInFlight, DrainDeadline,
           CloseQueue, JoinWorkers, AbortNext, InterruptAll, ShutdownRuntime, Retire
      <3>5. ASSUME KillStragglers PROVE \A w \in Workers : pc'[w] = pc[w] \/ pc'[w] = "dead"
        BY <3>5 DEF KillStragglers
      <3>6. CASE UNCHANGED vars
        BY <3>6 DEF vars
      <3>7. QED
        BY NextCases, <3>1, <3>2, <3>3, <3>4, <3>5, <3>6 DEF PcStates
    <2>2. QED
      BY <1>1, <2>1 DEF TypeOK
  <1>2. ASSUME NEW w \in Workers, Retire(w) PROVE SomeoneStays'
    <2>1. PICK v \in Workers : v # w /\ pc[v] # "unborn" /\ ~retired[v]
      BY <1>2 DEF Retire, Staying
    <2>2. retired' = [retired EXCEPT ![w] = TRUE]
      BY <1>2 DEF Retire
    <2>3. ~retired'[v]
      BY <2>1, <2>2, Zenon DEF TypeOK
    <2>4. QED
      BY <1>1, <2>1, <2>3 DEF SomeoneStays
  <1>3. CASE UNCHANGED retired
    BY <1>1, <1>3 DEF SomeoneStays
  <1>4. QED
    BY <1>2, <1>3, RetiredOnly

\* The invariant is inductive.
LEMMA DeparturesStep == Departures /\ [Next]_vars => Departures'
  <1> SUFFICES ASSUME Departures, [Next]_vars PROVE Departures'
    OBVIOUS
  <1>0. TypeOK /\ Ownership /\ LeavesInTime /\ SomeoneStays
    BY DEF Departures, Ownership
  <1>1. Ownership' /\ SomeoneStays'
    BY <1>0, OwnershipStep, StaysStep
  <1>2. ASSUME ~late'
        PROVE  /\ phase' \notin {"aborting", "interrupting", "reaping"}
               /\ \A w \in Workers : ~interrupted'[w]
               /\ phase' \in {"teardown", "stopped"} => WorkersDone'
               /\ \A w \in Workers : Left(w)' /\ ~retired'[w] => Disconnected'
    <2>1. ~late
      BY <1>0, <1>2, LateStep
    <2>2. /\ phase' \notin {"aborting", "interrupting", "reaping"}
          /\ \A w \in Workers : ~interrupted'[w]
          /\ phase' \in {"teardown", "stopped"} => WorkersDone
      BY <1>0, <1>2, <2>1, InTimeStep
    <2>3. WorkersDone => WorkersDone'
      BY <1>0, DoneStep DEF WorkersDone
    <2>4. ASSUME NEW w \in Workers, Left(w)', ~retired'[w] PROVE Disconnected'
      <3>1. Left(w) \/ Disconnected
        BY <1>0, <1>2, <2>1, <2>4, LeftStep
      <3>2. Disconnected
        BY <1>0, <2>1, <2>4, <3>1, LateStep DEF LeavesInTime
      <3>3. QED
        BY <1>0, <3>2, DisconnectedStep
    <2>5. QED
      BY <2>2, <2>3, <2>4
  <1>3. LeavesInTime'
    BY <1>2 DEF LeavesInTime
  <1>4. QED
    BY <1>1, <1>3 DEF Departures

\* Server#shutdown that finishes before its deadline leaves nothing in the
\* queue, for any pool, queue depth and batch, with workers retired before or
\* during the drain and clients sending until the queue is closed.
THEOREM NothingLost == Spec => []NothingLeftBehind
  <1>1. Init => Departures
    <2> SUFFICES ASSUME Init PROVE Departures
      OBVIOUS
    <2>1. Ownership
      BY InitOwnership
    <2>2. LeavesInTime
      BY DEF Init, LeavesInTime, Left
    <2>3. SomeoneStays
      BY SharedQueueAssumption DEF Init, SomeoneStays
    <2>4. QED
      BY <2>1, <2>2, <2>3 DEF Departures
  <1>2. Departures => NothingLeftBehind
    BY DEF Departures, LeavesInTime, SomeoneStays, NothingLeftBehind, WorkersDone, Left, Disconnected
  <1>3. QED
    BY <1>1, <1>2, DeparturesStep, PTL DEF Spec

-----------------------------------------------------------------------------
(* What a worker's list says.  A body.close that raises drops a batch it    *)
(* has just fetched without answering it, so these two facts are about     *)
(* applications whose body.close does not raise.                           *)

\* What is on a worker's list has been answered or is still in its hands,
\* unless the worker died on it.
Accounted(w) == \A r \in current[w] :
  responded[r] \/ r \in Hands(w) \/ pc[w] \in {"crashed", "dead"}

ListAccounted == \A w \in Workers : Accounted(w)

\* Admission puts on the list what the worker holds, an answer lets go of
\* what it answers, and a slot is aborted as a whole.
LEMMA AccountedStep ==
  ASSUME Ownership, ~CloseRaises, ListAccounted, [Next]_vars
  PROVE  ListAccounted'
  <1> USE DEF clientVars, queueVars, respVars, slotVars, workerVars, mainVars
  <1>0. TypeOK /\ HandsMatchPc /\ OwnedOnce /\ Answerable
    BY DEF Ownership
  <1> SUFFICES ASSUME NEW v \in Workers
               PROVE  Accounted(v)'
    BY DEF ListAccounted
  <1>1. Accounted(v) /\ Hands(v) \subseteq Requests /\ current[v] \subseteq Requests
    BY <1>0, HandsFacts DEF ListAccounted, TypeOK
  <1>2. \A r \in Requests : responded[r] => responded'[r]
    BY <1>0, ResponderStep DEF Answerable
  <1>3. ASSUME current'[v] = current[v], held'[v] = held[v],
               pc[v] \in {"crashed", "dead"} => pc'[v] \in {"crashed", "dead"}
        PROVE  Accounted(v)'
    BY <1>1, <1>2, <1>3 DEF Accounted, Hands
  <1>4. UNCHANGED <<held, current, pc>> => Accounted(v)'
    BY <1>3
  <1>5. ASSUME \E r \in Requests :
                 \/ Arrive(r) \/ ArriveOversize(r) \/ ClientAbort(r) \/ Send(r)
                 \/ SendCompletes(r) \/ QueueTimerFires(r) \/ QueueTimeout(r)
                 \/ HeadArrives(r) \/ HeadTimeout(r) \/ Written(r) \/ Collect(r)
        PROVE  UNCHANGED <<held, current, pc>>
    BY <1>5 DEF Arrive, ArriveOversize, ClientAbort, Send, SendCompletes, QueueTimerFires,
       QueueTimeout, HeadArrives, HeadTimeout, Written, Collect
  <1>6. ASSUME NEW w \in Workers, Checkout(w) PROVE Accounted(v)'
    <2>1. CASE v = w /\ current'[v] = {}
      BY <2>1 DEF Accounted
    <2>2. CASE current'[v] = current[v]
      <3>1. held' = held /\ (pc[v] \in {"crashed", "dead"} => pc'[v] \in {"crashed", "dead"})
        BY <1>0, <1>6 DEF Checkout, TakeEnds, Goto, TypeOK
      <3>2. QED
        BY <1>3, <2>2, <3>1
    <2>3. QED
      BY <1>0, <1>6, <2>1, <2>2 DEF Checkout, TypeOK
  <1>7. ASSUME NEW w \in Workers, TryReceive(w) \/ WaitTick(w) \/ Fill(w) PROVE Accounted(v)'
    <2>1. UNCHANGED <<responded, current>> /\ pc[w] \notin {"crashed", "dead"}
      BY <1>7 DEF TryReceive, WaitTick, Fill
    <2>2. \E to : pc' = [pc EXCEPT ![w] = to]
      BY <1>7 DEF TryReceive, WaitTick, Fill, TakeEnds, Goto, Receive
    <2>3. pc[v] \in {"crashed", "dead"} => pc'[v] \in {"crashed", "dead"}
      BY <1>0, <2>1, <2>2 DEF TypeOK
    <2>4. Hands(v) \subseteq Hands(v)'
      <3>1. CASE Receive(w)
        BY <1>0, <3>1, ReceivedMembers
      <3>2. CASE UNCHANGED held
        BY <3>2 DEF Hands
      <3>3. QED
        BY <1>7, <3>1, <3>2 DEF TryReceive, WaitTick, Fill, TakeEnds
    <2>5. QED
      BY <1>1, <2>1, <2>3, <2>4 DEF Accounted
  <1>8. ASSUME NEW w \in Workers, Admit(w) PROVE Accounted(v)'
    <2>1. /\ held' = held /\ responded' = responded /\ pc[w] = "admit"
          /\ v = w => current'[v] = current[v] \cup {Last(held[v])}
          /\ v # w => current'[v] = current[v] /\ pc'[v] = pc[v]
      BY <1>0, <1>8 DEF Admit, Goto, TypeOK
    <2>2. CASE v = w
      <3>1. Last(held[v]) \in Hands(v)
        BY <1>0, <2>1, <2>2, LastFacts DEF HandsMatchPc, TypeOK, Hands
      <3>2. QED
        BY <1>1, <2>1, <2>2, <3>1 DEF Accounted, Hands
    <2>3. CASE v # w
      BY <1>3, <2>1, <2>3
    <2>4. QED
      BY <2>2, <2>3
  <1>9. ASSUME NEW w \in Workers, CloseBody(w) PROVE Accounted(v)'
    <2>1. /\ held' = held /\ current' = current
          /\ pc[v] \in {"crashed", "dead"} => pc'[v] \in {"crashed", "dead"}
      BY <1>0, <1>9 DEF CloseBody, Goto, TypeOK
    <2>2. QED
      BY <1>3, <2>1
  <1>10. ASSUME NEW w \in Workers, Crash(w) PROVE Accounted(v)'
    <2>1. /\ v = w => pc'[v] \in {"crashed", "dead"}
          /\ v # w => held'[v] = held[v] /\ current'[v] = current[v] /\ pc'[v] = pc[v]
      BY <1>0, <1>10 DEF Crash, Goto, TypeOK
    <2>2. QED
      BY <1>3, <2>1 DEF Accounted
  <1>11. ASSUME NEW w \in Workers, RespondFused(w) \/ Respond(w) \/ AppRaises(w)
         PROVE  Accounted(v)'
    <2>1. current' = current /\ held[w] # <<>> /\ pc[w] = "serve"
      BY <1>0, <1>11 DEF RespondFused, Respond, AppRaises, HandsMatchPc
    <2>2. \A u \in Workers : u # w => pc'[u] = pc[u] /\ held'[u] = held[u]
      BY <1>0, <1>11 DEF RespondFused, Respond, AppRaises, Advance, Goto, TypeOK
    <2>3. CASE v # w
      BY <1>3, <2>1, <2>2, <2>3
    <2>4. CASE v = w /\ RespondFused(w)
      <3>1. \A r \in Requests : r \in Hands(w) => responded'[r]
        BY <1>0, <2>4, ClaimFacts DEF RespondFused
      <3>2. QED
        BY <1>1, <1>2, <2>1, <2>4, <3>1 DEF Accounted
    <2>5. CASE v = w /\ Advance(w)
      <3>1. Hands(w)' = Hands(w) \ {Head(held[w])}
        BY <1>0, <2>1, <2>5, FinishedMembers
      <3>2. \A r \in Requests : r = Head(held[w]) => responded'[r]
        <4>1. CASE Claim({Head(held[w])}, "app")
          BY <1>0, <4>1, ClaimFacts
        <4>2. CASE Claim({Head(held[w])}, "error")
          BY <1>0, <4>2, ClaimFacts
        <4>3. CASE RespondFused(w)
          <5>1. Head(held[w]) \in Hands(w)
            BY <1>0, <2>1, <2>5, FinishedMembers
          <5>2. QED
            BY <1>0, <4>3, <5>1, ClaimFacts DEF RespondFused
        <4>4. QED
          BY <1>11, <4>1, <4>2, <4>3 DEF Respond, AppRaises
      <3>3. QED
        BY <1>1, <1>2, <2>1, <2>5, <3>1, <3>2 DEF Accounted
    <2>6. QED
      BY <1>11, <2>3, <2>4, <2>5 DEF Respond, AppRaises
  <1>12. ASSUME NEW w \in Workers, AbortSlot(w), UNCHANGED held,
                v # w => pc'[v] = pc[v]
         PROVE  Accounted(v)'
    <2>1. current' = [current EXCEPT ![w] = {}]
      BY <1>12 DEF AbortSlot
    <2>2. CASE v = w
      BY <1>0, <2>1, <2>2 DEF Accounted, TypeOK
    <2>3. CASE v # w
      BY <1>0, <1>3, <1>12, <2>1, <2>3 DEF TypeOK
    <2>4. QED
      BY <2>2, <2>3
  <1>13. ASSUME NEW w \in Workers, AbortInflight(w) PROVE Accounted(v)'
    <2>1. AbortSlot(w) /\ UNCHANGED held /\ (v # w => pc'[v] = pc[v])
      BY <1>0, <1>13 DEF AbortInflight, Goto, TypeOK
    <2>2. QED
      BY <1>12, <2>1
  <1>14. ASSUME NEW w \in Workers, Respawn(w) \/ Retire(w) PROVE Accounted(v)'
    <2>1. /\ UNCHANGED <<held, current>>
          /\ pc[v] \in {"crashed", "dead"} => pc'[v] \in {"crashed", "dead"}
      BY <1>0, <1>14 DEF Respawn, Retire, Goto, TypeOK
    <2>2. QED
      BY <1>3, <2>1
  <1>15. ASSUME AbortNext PROVE Accounted(v)'
    <2>1. CASE UNCHANGED current
      BY <1>4, <1>15, <2>1 DEF AbortNext
    <2>2. ASSUME NEW w \in toAbort, AbortSlot(w) PROVE Accounted(v)'
      <3>1. w \in Workers /\ UNCHANGED <<held, pc>>
        BY <1>0, <1>15 DEF AbortNext, TypeOK
      <3>2. QED
        BY <1>12, <2>2, <3>1
    <2>3. QED
      BY <1>15, <2>1, <2>2 DEF AbortNext
  <1>16. ASSUME \/ StopAccepting \/ Deadline \/ SampleQueued \/ SampleInFlight
                \/ DrainDeadline \/ CloseQueue \/ JoinWorkers \/ InterruptAll
                \/ ShutdownRuntime
         PROVE  UNCHANGED <<held, current, pc>>
    BY <1>16 DEF StopAccepting, Deadline, SampleQueued, SampleInFlight, DrainDeadline,
       CloseQueue, JoinWorkers, InterruptAll, ShutdownRuntime
  <1>17. ASSUME KillStragglers PROVE Accounted(v)'
    <2>1. CASE UNCHANGED <<held, current, pc>>
      BY <1>4, <2>1
    <2>2. CASE pc'[v] = "dead"
      BY <2>2 DEF Accounted
    <2>3. CASE pc[v] \in {"unborn", "exited"} /\ pc'[v] = pc[v] /\ current' = current
      <3>1. Hands(v) = {}
        BY <1>0, <2>3, HandsFacts DEF HandsMatchPc
      <3>2. QED
        BY <1>1, <1>2, <2>3, <3>1 DEF Accounted
    <2>4. QED
      BY <1>0, <1>17, <2>1, <2>2, <2>3 DEF KillStragglers, TypeOK
  <1>18. CASE UNCHANGED vars
    BY <1>4, <1>18 DEF vars
  <1>19. QED
    BY NextCases, <1>4, <1>5, <1>6, <1>7, <1>8, <1>9, <1>10, <1>11, <1>13, <1>14, <1>15,
       <1>16, <1>17, <1>18 DEF CloseBodyRaises

\* When a worker comes back for more, everything on its list is answered:
\* clearing the list forgets no client, for any batch and crash pattern.
THEOREM ListClearedSafely ==
  ASSUME ~CloseRaises PROVE Spec => []BatchAnsweredAtCheckout
  <1> DEFINE Inv == Ownership /\ ListAccounted
  <1>1. Init => Inv
    BY InitOwnership DEF Init, ListAccounted, Accounted
  <1>2. Inv /\ [Next]_vars => Inv'
    BY OwnershipStep, AccountedStep
  <1>3. Inv => BatchAnsweredAtCheckout
    <2> SUFFICES ASSUME Inv, NEW w \in Workers, pc[w] = "checkout", NEW r \in current[w]
                 PROVE  responded[r]
      BY DEF BatchAnsweredAtCheckout
    <2>1. Hands(w) = {}
      BY HandsFacts DEF Ownership, HandsMatchPc
    <2>2. QED
      BY <2>1 DEF ListAccounted, Accounted
  <1>4. QED
    BY <1>1, <1>2, <1>3, PTL DEF Spec

\* An abandoned handle is answered, or on the list of a crashed worker that
\* the supervisor has still to abort.
Found(r) == responded[r] \/ \E w \in Workers : pc[w] = "crashed" /\ r \in current[w]

GarbageFound == \A r \in garbage : Found(r)

\* A handle stays found: only the supervisor's abort takes a crashed slot's
\* list away, and it answers what it takes.
LEMMA FoundStep ==
  ASSUME Ownership, Supervised, [Next]_vars, NEW r \in Requests, Found(r)
  PROVE  Found(r)'
  <1> USE DEF clientVars, queueVars, respVars, slotVars, workerVars, mainVars
  <1>0. TypeOK /\ Answerable
    BY DEF Ownership
  <1>1. responded[r] => responded'[r]
    BY <1>0, ResponderStep DEF Answerable
  <1> SUFFICES ASSUME NEW v \in Workers, pc[v] = "crashed", r \in current[v]
               PROVE  Found(r)'
    BY <1>1 DEF Found
  <1>2. pc'[v] = pc[v] /\ r \in current'[v] => Found(r)'
    BY DEF Found
  <1>3. UNCHANGED <<pc, current>> => Found(r)'
    BY <1>2
  <1>4. ASSUME NEW w \in Workers, AbortSlot(w), v # w => pc'[v] = pc[v] PROVE Found(r)'
    <2>1. CASE v = w
      BY <1>0, <1>4, <2>1, ClaimFacts DEF AbortSlot, Found
    <2>2. CASE v # w
      BY <1>0, <1>2, <1>4, <2>2 DEF AbortSlot, TypeOK
    <2>3. QED
      BY <2>1, <2>2
  <1>5. ASSUME \E q \in Requests :
                 \/ Arrive(q) \/ ArriveOversize(q) \/ ClientAbort(q) \/ Send(q)
                 \/ SendCompletes(q) \/ QueueTimerFires(q) \/ QueueTimeout(q)
                 \/ HeadArrives(q) \/ HeadTimeout(q) \/ Written(q) \/ Collect(q)
        PROVE  UNCHANGED <<pc, current>>
    BY <1>5 DEF Arrive, ArriveOversize, ClientAbort, Send, SendCompletes, QueueTimerFires,
       QueueTimeout, HeadArrives, HeadTimeout, Written, Collect
  <1>6. ASSUME NEW w \in Workers, Checkout(w) PROVE Found(r)'
    <2>1. v # w
      BY <1>6 DEF Checkout
    <2>2. QED
      BY <1>0, <1>2, <1>6, <2>1 DEF Checkout, TakeEnds, Goto, TypeOK
  <1>7. ASSUME NEW w \in Workers, Admit(w) PROVE Found(r)'
    <2>1. v # w
      BY <1>7 DEF Admit
    <2>2. QED
      BY <1>0, <1>2, <1>7, <2>1 DEF Admit, Goto, TypeOK
  <1>8. ASSUME NEW w \in Workers,
               \/ TryReceive(w) \/ WaitTick(w) \/ Fill(w) \/ CloseBody(w)
               \/ CloseBodyRaises(w) \/ RespondFused(w) \/ Respond(w) \/ AppRaises(w)
               \/ Crash(w)
        PROVE  Found(r)'
    <2>1. v # w /\ UNCHANGED current
      BY <1>8 DEF TryReceive, WaitTick, Fill, CloseBody, CloseBodyRaises, RespondFused,
         Respond, AppRaises, Crash
    <2>2. \E to : pc' = [pc EXCEPT ![w] = to]
      BY <1>8 DEF TryReceive, WaitTick, Fill, CloseBody, CloseBodyRaises, RespondFused,
         Respond, AppRaises, Crash, TakeEnds, Receive, Advance, Goto
    <2>3. QED
      BY <1>0, <1>2, <2>1, <2>2 DEF TypeOK
  <1>9. ASSUME NEW w \in Workers, AbortInflight(w) PROVE Found(r)'
    <2>1. AbortSlot(w) /\ (v # w => pc'[v] = pc[v])
      BY <1>0, <1>9 DEF AbortInflight, Goto, TypeOK
    <2>2. QED
      BY <1>4, <2>1
  <1>10. ASSUME NEW w \in Workers, Respawn(w) \/ Retire(w) PROVE Found(r)'
    <2>1. UNCHANGED current /\ pc'[v] = pc[v]
      BY <1>0, <1>10 DEF Respawn, Retire, Goto, TypeOK
    <2>2. QED
      BY <1>2, <2>1
  <1>11. ASSUME AbortNext PROVE Found(r)'
    <2>1. UNCHANGED pc /\ (UNCHANGED current \/ \E w \in toAbort : AbortSlot(w))
      BY <1>11 DEF AbortNext
    <2>2. QED
      BY <1>0, <1>3, <1>4, <2>1 DEF TypeOK
  <1>12. ASSUME \/ StopAccepting \/ Deadline \/ SampleQueued \/ SampleInFlight
                \/ DrainDeadline \/ CloseQueue \/ JoinWorkers \/ InterruptAll
                \/ ShutdownRuntime
         PROVE  UNCHANGED <<pc, current>>
    BY <1>12 DEF StopAccepting, Deadline, SampleQueued, SampleInFlight, DrainDeadline,
       CloseQueue, JoinWorkers, InterruptAll, ShutdownRuntime
  <1>13. ASSUME KillStragglers, Supervised PROVE UNCHANGED <<pc, current>>
    BY <1>13 DEF KillStragglers
  <1>14. CASE UNCHANGED vars
    BY <1>3, <1>14 DEF vars
  <1>15. QED
    BY NextCases, <1>3, <1>5, <1>6, <1>7, <1>8, <1>9, <1>10, <1>11, <1>12, <1>13, <1>14

\* Where an abandoned handle comes from in :ractor mode: a crash.
LEMMA GarbageStep ==
  ASSUME Ownership, ~CloseRaises, Supervised, GarbageFound, [Next]_vars
  PROVE  GarbageFound'
  <1> USE DEF clientVars, queueVars, respVars, slotVars, workerVars, mainVars
  <1>0. TypeOK /\ Answerable /\ ListedWhileHeld
    BY DEF Ownership
  <1>1. \A r \in garbage : Found(r)'
    BY <1>0, FoundStep DEF GarbageFound, TypeOK
  <1>2. garbage' \subseteq garbage => GarbageFound'
    BY <1>1 DEF GarbageFound
  <1>3. ASSUME NEW w \in Workers, Crash(w) PROVE GarbageFound'
    <2>1. /\ garbage' = garbage \cup Hands(w) /\ pc[w] \in {"serve", "close"}
          /\ pc'[w] = "crashed" /\ current' = current /\ responded' = responded
      BY <1>0, <1>3 DEF Crash, Goto, TypeOK
    <2>2. \A r \in Hands(w) : responded[r] \/ r \in current[w]
      BY <1>0, <2>1 DEF ListedWhileHeld
    <2>3. \A r \in Hands(w) : Found(r)'
      BY <2>1, <2>2 DEF Found
    <2>4. QED
      BY <1>1, <2>1, <2>3 DEF GarbageFound
  <1>4. ASSUME NEW r \in Requests,
               \/ Arrive(r) \/ ArriveOversize(r) \/ ClientAbort(r) \/ Send(r)
               \/ SendCompletes(r) \/ QueueTimerFires(r) \/ QueueTimeout(r)
               \/ HeadArrives(r) \/ HeadTimeout(r) \/ Written(r) \/ Collect(r)
        PROVE  garbage' \subseteq garbage
    BY <1>4 DEF Arrive, ArriveOversize, ClientAbort, Send, SendCompletes, QueueTimerFires,
       QueueTimeout, HeadArrives, HeadTimeout, Written, Collect
  <1>5. ASSUME NEW w \in Workers,
               \/ Checkout(w) \/ TryReceive(w) \/ WaitTick(w) \/ Admit(w) \/ Fill(w)
               \/ CloseBody(w) \/ RespondFused(w) \/ Respond(w)
               \/ AppRaises(w) \/ AbortInflight(w) \/ Respawn(w) \/ Retire(w)
        PROVE  garbage' \subseteq garbage
    BY <1>5 DEF Checkout, TryReceive, WaitTick, Admit, Fill, CloseBody, RespondFused,
       Respond, AppRaises, AbortInflight, Respawn, Retire
  <1>6. ASSUME \/ StopAccepting \/ Deadline \/ SampleQueued \/ SampleInFlight
               \/ DrainDeadline \/ CloseQueue \/ JoinWorkers \/ AbortNext \/ InterruptAll
               \/ KillStragglers \/ ShutdownRuntime
        PROVE  garbage' \subseteq garbage
    BY <1>6 DEF StopAccepting, Deadline, SampleQueued, SampleInFlight, DrainDeadline,
       CloseQueue, JoinWorkers, AbortNext, InterruptAll, KillStragglers, ShutdownRuntime
  <1>7. CASE UNCHANGED vars
    BY <1>2, <1>7 DEF vars
  <1>8. QED
    BY NextCases, <1>2, <1>3, <1>4, <1>5, <1>6, <1>7 DEF CloseBodyRaises

\* In :ractor mode nobody waits for the garbage collector: once the
\* supervisor has aborted every crashed worker's slot, every abandoned
\* handle has been answered.
THEOREM NobodyWaitsForGC ==
  ASSUME Supervised, ~CloseRaises PROVE Spec => []NoClientWaitsForGC
  <1> DEFINE Inv == Ownership /\ GarbageFound
  <1>1. Init => Inv
    BY InitOwnership DEF Init, GarbageFound
  <1>2. Inv /\ [Next]_vars => Inv'
    BY OwnershipStep, GarbageStep
  <1>3. Inv => NoClientWaitsForGC
    BY DEF GarbageFound, Found, NoClientWaitsForGC
  <1>4. QED
    BY <1>1, <1>2, <1>3, PTL DEF Spec
=============================================================================
