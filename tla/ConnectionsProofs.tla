-------------------------- MODULE ConnectionsProofs --------------------------
(***************************************************************************)
(* Theorems about Connections, for every set of connections and shards,    *)
(* every layout and every connection cap.                                  *)
(*                                                                         *)
(* Neither the permit count nor the load counters are inductive by         *)
(* themselves: closing a connection takes one off a counter, and that      *)
(* stays a natural number, and exact, only because the connection in the   *)
(* accept loop's hand is `held`, because a connection has no home before   *)
(* it is sent, and because a counter covers a shard's connections even     *)
(* after its thread has ended.                                             *)
(***************************************************************************)
EXTENDS Connections, FiniteSetTheorems, TLAPS

Seated(s) == OnShard(s, Tasks \cup {"queued"})
Sending(s) == IF acceptor = "send" /\ hand.shard = s THEN 1 ELSE 0

\* the connection in the accept loop's hand
HandHeld ==
  /\ acceptor \in {"assign", "send", "ending"} => hand.conn \in Conns /\ conn[hand.conn] = "held"
  /\ acceptor = "send" => hand.shard \in Shards

NotYetHome == \A c \in Conns : conn[c] \in {"new", "backlog", "held"} => home[c] = Pool

LoadCovers ==
  \A s \in Shards :
    /\ load[s] >= Cardinality(Seated(s)) + Sending(s)
    /\ shard[s] # "gone" => load[s] = Cardinality(Seated(s)) + Sending(s)

PermitSum ==
  permits + Cardinality(Holders) + (IF acceptor = "accept" THEN 1 ELSE 0) = layout.max_connections

Core == TypeOK /\ PermitSum /\ HandHeld /\ NotYetHome /\ LoadCovers

\* the accept loop does not run before server_start has its shards
NotStarted == main \in {"bind", "spawn"} => acceptor = "off"

\* a server is ready only between control_ready and stop_accepting, and no
\* drain signal is out before the latter
ReadyWindow ==
  /\ state = "ready" => main = "up"
  /\ drain => main \in {"abandon", "abandoning", "failed", "draining", "teardown", "control_stop", "down"}

-----------------------------------------------------------------------------
(* Sets of connections                                                     *)

\* Taking a part away takes its number away.
LEMMA Less ==
  ASSUME NEW S, IsFiniteSet(S), NEW T \in SUBSET S
  PROVE  /\ Cardinality(S \ T) = Cardinality(S) - Cardinality(T)
         /\ Cardinality(S) \in Nat /\ Cardinality(T) \in Nat /\ Cardinality(S \ T) \in Nat
<1>1. S \cap T = T /\ S \ T \in SUBSET S
  OBVIOUS
<1>2. IsFiniteSet(T) /\ IsFiniteSet(S \ T)
  BY <1>1, FS_Subset
<1> QED
  BY <1>1, <1>2, FS_Difference, FS_CardinalityType

\* Permit holders and a shard's connections are finitely many.
LEMMA Finite ==
  /\ IsFiniteSet(Holders) /\ Cardinality(Holders) \in Nat
  /\ \A s : IsFiniteSet(Seated(s)) /\ Cardinality(Seated(s)) \in Nat
<1>1. IsFiniteSet(Conns)
  BY ConnectionsAssumption
<1>2. Holders \in SUBSET Conns /\ \A s : Seated(s) \in SUBSET Conns
  BY DEF Holders, Seated, OnShard
<1>3. IsFiniteSet(Holders) /\ \A s : IsFiniteSet(Seated(s))
  BY <1>1, <1>2, FS_Subset
<1> QED
  BY <1>3, FS_CardinalityType

\* A permit holder whose task or place in a channel ends is out of both
\* counts; the others stay.
LEMMA OneCloses ==
  ASSUME NEW c \in Conns, TypeOK, conn[c] \in Permitted,
         conn' = [conn EXCEPT ![c] = "closed"], home' = home
  PROVE  /\ Holders' = Holders \ {c}
         /\ \A s : Seated(s)' = Seated(s) \ {c}
BY DEF TypeOK, Holders, Seated, OnShard, Permitted, Tasks

\* A connection that stays within its class changes neither count.
LEMMA SameClass ==
  ASSUME NEW c \in Conns, NEW x, TypeOK, conn' = [conn EXCEPT ![c] = x], home' = home,
         \/ conn[c] \in Tasks \cup {"queued"} /\ x \in Tasks \cup {"queued"}
         \/ conn[c] \in {"new", "backlog", "closed"} /\ x \in {"new", "backlog", "closed"}
  PROVE  Holders' = Holders /\ \A s : Seated(s)' = Seated(s)
BY DEF TypeOK, Holders, Seated, OnShard, Permitted, Tasks

-----------------------------------------------------------------------------
(* Steps, by what they do to the counts                                    *)

\* Counters, connections and the accept loop's hand are left alone, and no
\* shard comes back to life.
LEMMA Quiet ==
  ASSUME Core, TypeOK', UNCHANGED <<layout, conn, home, permits, load, hand>>,
         \/ acceptor' = acceptor
         \/ acceptor = "off" /\ acceptor' = "permit"
         \/ acceptor = "assign" /\ acceptor' = "ending",
         \A s \in Shards : shard[s] = "gone" => shard'[s] = "gone"
  PROVE  Core'
<1>1. Holders' = Holders /\ \A s : Seated(s)' = Seated(s) /\ Sending(s)' = Sending(s)
  BY DEF Holders, Seated, OnShard, Sending
<1>2. PermitSum'
  BY <1>1 DEF Core, PermitSum
<1>3. HandHeld' /\ NotYetHome'
  BY DEF Core, HandHeld, NotYetHome
<1>4. LoadCovers'
  BY <1>1 DEF Core, LoadCovers
<1> QED
  BY <1>2, <1>3, <1>4 DEF Core

\* A connection moves on without entering or leaving a count.
LEMMA Moves ==
  ASSUME Core, TypeOK', NEW c \in Conns, NEW x,
         UNCHANGED <<layout, home, permits, load, shard, acceptor, hand>>,
         conn' = [conn EXCEPT ![c] = x],
         \/ conn[c] \in Tasks \cup {"queued"} /\ x \in Tasks
         \/ conn[c] = "new" /\ x = "backlog"
  PROVE  Core'
<1>1. Holders' = Holders /\ \A s : Seated(s)' = Seated(s)
  BY SameClass DEF Core, Tasks
<1>2. \A s : Sending(s)' = Sending(s)
  BY DEF Sending
<1>3. PermitSum'
  BY <1>1 DEF Core, PermitSum
<1>4. HandHeld' /\ NotYetHome'
  BY DEF Core, HandHeld, NotYetHome, TypeOK, Tasks
<1>5. LoadCovers'
  BY <1>1, <1>2 DEF Core, LoadCovers
<1> QED
  BY <1>3, <1>4, <1>5 DEF Core

\* A task ends: its permit and its place on the shard go together.
LEMMA Closes ==
  ASSUME Core, NEW c \in Conns, conn[c] \in Tasks, Close(c),
         UNCHANGED <<mainVars, loopVars, shard, home, late>>
  PROVE  Core'
<1>1. Holders' = Holders \ {c} /\ \A s : Seated(s)' = Seated(s) \ {c}
  BY OneCloses DEF Core, Close, Permitted
<1>2. c \in Holders /\ \A s : c \in Seated(s) <=> home[c] = s
  BY DEF Holders, Permitted, Seated, OnShard
<1>3. Cardinality(Holders') = Cardinality(Holders) - 1
  BY <1>1, <1>2, Finite, FS_RemoveElement
<1>4. ASSUME NEW s
      PROVE  Cardinality(Seated(s)') =
               IF home[c] = s THEN Cardinality(Seated(s)) - 1 ELSE Cardinality(Seated(s))
  BY <1>1, <1>2, Finite, FS_RemoveElement
<1>5. \A s : Cardinality(Seated(s)) \in Nat /\ Sending(s)' = Sending(s) /\ Sending(s) \in {0, 1}
  BY Finite DEF Sending, loopVars
<1>5a. \A s : Cardinality(Seated(s)') \in Nat
  <2> TAKE s
  <2>1. IsFiniteSet(Seated(s) \ {c})
    BY Finite, FS_RemoveElement
  <2> QED
    BY <1>1, <2>1, FS_CardinalityType
<1>6. \A s \in Shards : load'[s] = IF home[c] = s THEN load[s] - 1 ELSE load[s]
  BY DEF Core, TypeOK, Close
<1>7. \A s \in Shards : load[s] \in Nat
  BY DEF Core, TypeOK
<1>8. LoadCovers'
  <2> SUFFICES ASSUME NEW s \in Shards
               PROVE  /\ load'[s] >= Cardinality(Seated(s)') + Sending(s)'
                      /\ shard[s] # "gone" => load'[s] = Cardinality(Seated(s)') + Sending(s)'
    BY DEF LoadCovers
  <2>1. /\ load[s] >= Cardinality(Seated(s)) + Sending(s)
        /\ shard[s] # "gone" => load[s] = Cardinality(Seated(s)) + Sending(s)
    BY DEF Core, LoadCovers
  <2> QED
    BY <2>1, <1>4, <1>5, <1>6, <1>7
<1>9. load' \in [Shards -> Nat]
  <2>1. \A s \in Shards : load'[s] \in Nat
    <3> SUFFICES ASSUME NEW s \in Shards PROVE load'[s] \in Nat
      OBVIOUS
    <3>1. load'[s] >= Cardinality(Seated(s)') + Sending(s)'
      BY <1>8 DEF LoadCovers
    <3> QED
      BY <3>1, <1>5, <1>5a, <1>6, <1>7
  <2> QED
    BY <2>1 DEF Core, TypeOK, Close
<1>10. permits' = permits + 1 /\ permits \in Nat
  BY DEF Close, Core, TypeOK
<1>11. TypeOK'
  BY <1>9, <1>10 DEF Core, TypeOK, Close, mainVars, loopVars, ConnStates
<1>12. PermitSum'
  BY <1>3, <1>10, Finite DEF Core, PermitSum, mainVars, loopVars
<1>13. HandHeld' /\ NotYetHome'
  BY DEF Core, TypeOK, HandHeld, NotYetHome, Close, Tasks, loopVars
<1> QED
  BY <1>8, <1>11, <1>12, <1>13 DEF Core
\* A permit moves between the semaphore and the accept loop; a backlog that
\* is dropped was in no count.
LEMMA PermitMoves ==
  ASSUME Core, AcquirePermit \/ AcceptFails \/ AcceptorStops \/ \E c \in Conns : DetachFails(c)
  PROVE  Core'
<1>1. Holders' = Holders /\ \A s : Seated(s)' = Seated(s)
  BY DEF Core, TypeOK, Holders, Seated, OnShard, Permitted, Tasks, AcquirePermit, AcceptFails,
         AcceptorStops, DetachFails, ListenerClosed, connVars
<1>2. \A s : Sending(s) = 0 /\ Sending(s)' = 0
  BY DEF Sending, AcquirePermit, AcceptFails, AcceptorStops, DetachFails
<1>3. TypeOK'
  <2>1. conn' \in [Conns -> ConnStates]
    BY DEF Core, TypeOK, AcquirePermit, AcceptFails, AcceptorStops, DetachFails, ListenerClosed, connVars, ConnStates
  <2>2. permits' \in Nat
    BY DEF Core, TypeOK, AcquirePermit, AcceptFails, AcceptorStops, DetachFails
  <2>3. /\ acceptor' \in {"accept", "permit", "gone"} /\ tx' \in BOOLEAN
        /\ UNCHANGED <<mainVars, hand, live, shardVars, home, late>>
    BY DEF Core, TypeOK, AcquirePermit, AcceptFails, AcceptorStops, DetachFails, connVars
  <2> QED
    BY <2>1, <2>2, <2>3 DEF Core, TypeOK, mainVars, shardVars
<1>4. PermitSum'
  BY <1>1, Finite DEF Core, TypeOK, PermitSum, AcquirePermit, AcceptFails, AcceptorStops, DetachFails, mainVars
<1>5. HandHeld' /\ NotYetHome'
  BY DEF Core, TypeOK, HandHeld, NotYetHome, AcquirePermit, AcceptFails, AcceptorStops,
         DetachFails, ListenerClosed, connVars
<1>6. LoadCovers'
  BY <1>1, <1>2 DEF Core, LoadCovers, AcquirePermit, AcceptFails, AcceptorStops, DetachFails, shardVars
<1> QED
  BY <1>3, <1>4, <1>5, <1>6 DEF Core

\* The accepted connection takes over the loop's permit.
LEMMA AcceptStep ==
  ASSUME Core, NEW c \in Conns, Accept(c)
  PROVE  Core'
<1>1. Holders' = Holders \cup {c} /\ c \notin Holders
  BY DEF Core, TypeOK, Holders, Permitted, Tasks, Accept
<1>2. Cardinality(Holders') = Cardinality(Holders) + 1
  BY <1>1, Finite, FS_AddElement
<1>3. \A s \in Shards : Seated(s)' = Seated(s)
  BY ConnectionsAssumption DEF Core, TypeOK, NotYetHome, Seated, OnShard, Tasks, Accept
<1>4. \A s : Sending(s) = 0 /\ Sending(s)' = 0
  BY DEF Sending, Accept
<1>5. TypeOK'
  BY DEF Core, TypeOK, Accept, mainVars, shardVars, ConnStates, Permitted, Tasks
<1>6. PermitSum'
  BY <1>2, Finite DEF Core, TypeOK, PermitSum, Accept, mainVars
<1>7. HandHeld'
  BY DEF Core, TypeOK, HandHeld, Accept
<1>8. NotYetHome'
  BY DEF Core, TypeOK, NotYetHome, Accept
<1>9. LoadCovers'
  BY <1>3, <1>4 DEF Core, LoadCovers, Accept, shardVars
<1> QED
  BY <1>5, <1>6, <1>7, <1>8, <1>9 DEF Core

\* The loop ends: the connection in hand is dropped with its permit, and the
\* backlog with the listener.
LEMMA HandDropped ==
  ASSUME Core, LoopEnds
  PROVE  Core'
<1> DEFINE c == hand.conn
<1>1. acceptor = "ending" /\ c \in Conns /\ conn[c] = "held" /\ home[c] = Pool
  BY DEF Core, HandHeld, NotYetHome, LoopEnds
<1>2. /\ conn' \in [Conns -> ConnStates] /\ home' = home
      /\ \A d \in Conns : \/ conn'[d] = conn[d] /\ d # c
                          \/ conn'[d] = "closed" /\ (d = c \/ conn[d] = "backlog")
  BY <1>1 DEF Core, TypeOK, LoopEnds, ListenerClosed, ConnStates
<1> HIDE DEF c
<1>3. Holders' = Holders \ {c} /\ c \in Holders
  BY <1>1, <1>2 DEF Core, TypeOK, Holders, Permitted, Tasks
<1>4. Cardinality(Holders') = Cardinality(Holders) - 1
  BY <1>3, Finite, FS_RemoveElement
<1>5. \A s : Seated(s)' = Seated(s)
  BY <1>1, <1>2 DEF Core, TypeOK, Seated, OnShard, Tasks
<1>6. \A s : Sending(s) = 0 /\ Sending(s)' = 0
  BY DEF Sending, LoopEnds
<1>7. TypeOK'
  <2>1. hand' \in [conn : Conns \cup {"none"}, shard : Shards \cup {Pool}]
    BY DEF LoopEnds, NoHand
  <2>2. permits' \in Nat /\ state' \in {"booting", "ready", "draining"}
    BY DEF Core, TypeOK, LoopEnds, mainVars
  <2>3. /\ acceptor' \in {"gone"} /\ tx' \in BOOLEAN
        /\ UNCHANGED <<layout, main, drain, stop, control, live, shardVars, home, late>>
    BY DEF Core, TypeOK, LoopEnds, mainVars
  <2> QED
    BY <1>2, <2>1, <2>2, <2>3 DEF Core, TypeOK, shardVars
<1>8. PermitSum'
  BY <1>1, <1>4, Finite DEF Core, TypeOK, PermitSum, LoopEnds, mainVars
<1>9. HandHeld' /\ NotYetHome'
  BY <1>2 DEF Core, HandHeld, NotYetHome, LoopEnds
<1>10. LoadCovers'
  BY <1>5, <1>6 DEF Core, LoadCovers, LoopEnds, shardVars
<1> QED
  BY <1>7, <1>8, <1>9, <1>10 DEF Core

\* The load is counted for the connection about to be sent.
LEMMA AssignStep ==
  ASSUME Core, NEW t \in Shards, Assign(t)
  PROVE  Core'
<1>1. Holders' = Holders /\ \A s : Seated(s)' = Seated(s)
  BY DEF Holders, Seated, OnShard, Assign, connVars
<1>2. \A s : Sending(s) = 0 /\ Sending(s)' = IF s = t THEN 1 ELSE 0
  BY DEF Core, TypeOK, Sending, Assign
<1>3. \A s \in Shards : load[s] \in Nat /\ load'[s] = load[s] + (IF s = t THEN 1 ELSE 0)
  BY DEF Core, TypeOK, Assign
<1>4. TypeOK'
  BY <1>3 DEF Core, TypeOK, Assign, mainVars, connVars
<1>5. PermitSum'
  BY <1>1 DEF Core, PermitSum, Assign, mainVars
<1>6. HandHeld' /\ NotYetHome'
  BY DEF Core, TypeOK, HandHeld, NotYetHome, Assign, connVars
<1>7. LoadCovers'
  BY <1>1, <1>2, <1>3, Finite DEF Core, LoadCovers, Assign
<1> QED
  BY <1>4, <1>5, <1>6, <1>7 DEF Core

\* Sent, the connection stays counted where it now is; refused, the load is
\* taken back.
LEMMA SendStep ==
  ASSUME Core, Send
  PROVE  Core'
<1>0. /\ acceptor = "send" /\ hand.conn \in Conns /\ hand.shard \in Shards
      /\ conn[hand.conn] = "held"
  BY DEF Core, HandHeld, Send
<1> PICK c \in Conns, t \in Shards : c = hand.conn /\ t = hand.shard
  BY <1>0
<1>1. acceptor = "send" /\ conn[c] = "held" /\ home[c] = Pool /\ Pool \notin Shards
  BY <1>0, ConnectionsAssumption DEF Core, NotYetHome
<1>2. \A s : /\ Sending(s) = (IF s = t THEN 1 ELSE 0) /\ Sending(s)' = 0
             /\ Cardinality(Seated(s)) \in Nat
  BY Finite DEF Core, TypeOK, Sending, Send
<1>3. UNCHANGED <<layout, permits, shard>> /\ acceptor' \in {"permit", "assign"}
  BY DEF Send, mainVars
<1>4. CASE shard[t] # "gone"
  <2>1. /\ conn' = [conn EXCEPT ![c] = "queued"] /\ home' = [home EXCEPT ![c] = t]
        /\ acceptor' = "permit" /\ load' = load /\ hand' = NoHand /\ live' = live
        /\ UNCHANGED <<mainVars, tx, late>>
    BY <1>4 DEF Send
  <2>2. Holders' = Holders
    BY <1>1, <2>1 DEF Core, TypeOK, Holders, Permitted, Tasks
  <2>3. \A s \in Shards : Seated(s)' = IF s = t THEN Seated(s) \cup {c} ELSE Seated(s)
    BY <1>1, <2>1 DEF Core, TypeOK, Seated, OnShard, Tasks
  <2>4. c \notin Seated(t)
    BY <1>1 DEF Seated, OnShard, Tasks
  <2>5. Cardinality(Seated(t)') = Cardinality(Seated(t)) + 1
    BY <1>1, <2>3, <2>4, Finite, FS_AddElement
  <2>6. TypeOK'
    BY <1>1, <1>3, <2>1 DEF Core, TypeOK, NoHand, mainVars, ConnStates, Permitted
  <2>7. PermitSum'
    BY <1>1, <1>3, <2>1, <2>2 DEF Core, PermitSum
  <2>8. HandHeld' /\ NotYetHome'
    BY <1>1, <2>1 DEF Core, TypeOK, HandHeld, NotYetHome
  <2>9. LoadCovers'
    BY <1>2, <1>3, <2>1, <2>3, <2>5 DEF Core, LoadCovers
  <2> QED
    BY <2>6, <2>7, <2>8, <2>9 DEF Core
<1>5. CASE shard[t] = "gone"
  <2>1. /\ live' = [live EXCEPT ![t] = FALSE] /\ load' = [load EXCEPT ![t] = @ - 1]
        /\ acceptor' = "assign" /\ hand' = [hand EXCEPT !.shard = Pool]
        /\ UNCHANGED <<conn, home, mainVars, tx, late>>
    BY <1>5 DEF Send
  <2>2. Holders' = Holders /\ \A s : Seated(s)' = Seated(s)
    BY <2>1 DEF Holders, Seated, OnShard
  <2>3. hand' \in [conn : Conns \cup {"none"}, shard : Shards \cup {Pool}] /\ hand'.conn = c
    BY <2>1 DEF Core, TypeOK
  <2>4. load[t] >= 1 /\ load \in [Shards -> Nat]
    BY <1>1, <1>2 DEF Core, TypeOK, LoadCovers
  <2>5. TypeOK'
    BY <1>1, <1>3, <2>1, <2>3, <2>4 DEF Core, TypeOK, mainVars
  <2>6. PermitSum'
    BY <1>1, <1>3, <2>1, <2>2 DEF Core, PermitSum
  <2>7. HandHeld' /\ NotYetHome'
    BY <1>1, <2>1, <2>3 DEF Core, HandHeld, NotYetHome
  <2>8. LoadCovers'
    BY <1>1, <1>2, <1>3, <1>5, <2>1, <2>2, <2>4 DEF Core, LoadCovers
  <2> QED
    BY <2>5, <2>6, <2>7, <2>8 DEF Core
<1> QED
  BY <1>4, <1>5

\* A shard that ends gives back every permit on it, and its counter, which
\* nobody will ask again, still covers what is sent to it.
LEMMA CutOffStep ==
  ASSUME Core, NEW t \in Shards, CutOff(t), UNCHANGED <<mainVars, loopVars, home, late>>
  PROVE  Core'
<1> DEFINE Cut == Seated(t)
           Run == OnShard(t, Tasks)
<1>1. /\ conn' = [c \in Conns |-> IF c \in Cut THEN "closed" ELSE conn[c]]
      /\ permits' = permits + Cardinality(Cut) /\ load' = [load EXCEPT ![t] = @ - Cardinality(Run)]
      /\ shard' = [shard EXCEPT ![t] = "gone"]
  BY DEF CutOff, Seated
<1>2. Cut \in SUBSET Holders /\ Run \in SUBSET Cut
  BY DEF Seated, OnShard, Holders, Permitted
<1>3. Holders' = Holders \ Cut
  BY <1>1 DEF Core, TypeOK, Holders, Permitted, Tasks
<1>4. \A s \in Shards : Seated(s)' = IF s = t THEN {} ELSE Seated(s)
  BY <1>1 DEF Core, TypeOK, Seated, OnShard, Tasks
<1> HIDE DEF Cut, Run
<1>5. IsFiniteSet(Cut) /\ Cardinality(Cut) \in Nat
  BY Finite DEF Cut
<1>6. Cardinality(Holders') = Cardinality(Holders) - Cardinality(Cut)
  BY <1>2, <1>3, Finite, Less
<1>7. Cardinality(Run) \in Nat /\ Cardinality(Run) <= Cardinality(Cut)
  BY <1>2, <1>5, FS_Subset, FS_CardinalityType
<1>8. \A s : Sending(s)' = Sending(s) /\ Sending(s) \in {0, 1}
  BY DEF Sending, loopVars
<1>9. load \in [Shards -> Nat] /\ load[t] >= Cardinality(Cut) + Sending(t)
  BY DEF Core, TypeOK, LoadCovers, Cut
<1>10. load[t] - Cardinality(Run) >= Sending(t) /\ load[t] - Cardinality(Run) \in Nat
  BY <1>5, <1>7, <1>8, <1>9
<1>11. TypeOK'
  BY <1>1, <1>5, <1>9, <1>10 DEF Core, TypeOK, mainVars, loopVars, ConnStates
<1>12. PermitSum'
  BY <1>1, <1>5, <1>6, Finite DEF Core, TypeOK, PermitSum, mainVars, loopVars
<1>13. HandHeld' /\ NotYetHome'
  <2>1. \A c \in Cut : c \in Conns /\ conn[c] # "held"
    BY DEF Cut, Seated, OnShard, Tasks
  <2> QED
    BY <1>1, <2>1 DEF Core, TypeOK, HandHeld, NotYetHome, loopVars
<1>14. LoadCovers'
  <2> SUFFICES ASSUME NEW s \in Shards
               PROVE  /\ load'[s] >= Cardinality(Seated(s)') + Sending(s)'
                      /\ shard'[s] # "gone" => load'[s] = Cardinality(Seated(s)') + Sending(s)'
    BY DEF LoadCovers
  <2>1. CASE s = t
    <3>1. shard \in [Shards -> {"off", "serving", "draining", "gone"}]
      BY DEF Core, TypeOK
    <3>2. load'[s] = load[t] - Cardinality(Run) /\ shard'[s] = "gone"
      BY <1>1, <1>9, <2>1, <3>1
    <3>3. Cardinality(Seated(s)') = 0 /\ Sending(s)' = Sending(t) /\ Sending(t) \in {0, 1}
      BY <1>4, <1>8, <2>1, FS_EmptySet
    <3> QED
      BY <1>10, <3>2, <3>3
  <2>2. CASE s # t
    BY <1>1, <1>4, <1>8, <2>2 DEF Core, TypeOK, LoadCovers
  <2> QED
    BY <2>1, <2>2
<1> QED
  BY <1>11, <1>12, <1>13, <1>14 DEF Core
-----------------------------------------------------------------------------
(* The invariants                                                          *)

\* Before the boot every permit is free and nothing is counted.
LEMMA CoreInit == Init => Core
<1> SUFFICES ASSUME Init PROVE Core
  OBVIOUS
<1>1. Holders = {} /\ \A s : Seated(s) = {} /\ Sending(s) = 0
  BY DEF Init, Holders, Seated, OnShard, Permitted, Tasks, Sending
<1>2. layout.max_connections \in Nat
  BY ConnectionsAssumption DEF Init
<1>3. NoHand \in [conn : Conns \cup {"none"}, shard : Shards \cup {Pool}]
  BY DEF NoHand
<1>4. TypeOK
  BY <1>2, <1>3 DEF Init, TypeOK, MainStates, ConnStates
<1>5. PermitSum /\ LoadCovers
  BY <1>1, <1>2, FS_EmptySet DEF Init, PermitSum, LoadCovers
<1> QED
  BY <1>4, <1>5 DEF Core, Init, HandHeld, NotYetHome

\* A boot that fails closes the listener on a backlog that is in no count.
LEMMA BacklogGoes ==
  ASSUME Core, ListenerClosed({}), main' = "failed",
         UNCHANGED <<layout, state, drain, stop, control, loopVars, permits, shardVars, home, late>>
  PROVE  Core'
<1>1. Holders' = Holders /\ \A s : Seated(s)' = Seated(s)
  BY DEF Core, TypeOK, Holders, Seated, OnShard, Permitted, Tasks, ListenerClosed
<1>2. \A s : Sending(s)' = Sending(s)
  BY DEF Sending, loopVars
<1>3. TypeOK'
  <2>1. conn' \in [Conns -> ConnStates]
    BY DEF Core, TypeOK, ListenerClosed, ConnStates
  <2> QED
    BY <2>1 DEF Core, TypeOK, MainStates, loopVars, shardVars
<1>4. PermitSum'
  BY <1>1 DEF Core, PermitSum, loopVars
<1>5. HandHeld' /\ NotYetHome'
  BY DEF Core, TypeOK, HandHeld, NotYetHome, ListenerClosed, loopVars
<1>6. LoadCovers'
  BY <1>1, <1>2 DEF Core, LoadCovers, shardVars
<1> QED
  BY <1>3, <1>4, <1>5, <1>6 DEF Core

\* The steps of server_start and Server#shutdown touch no count.
LEMMA MainStep ==
  ASSUME Core, NotStarted, StartNext \/ ShutdownNext
  PROVE  Core'
<1>1. ASSUME NEW t \in Shards, SpawnShard(t)
      PROVE  Core'
  <2>1. TypeOK'
    BY <1>1 DEF Core, TypeOK, SpawnShard, mainVars, loopVars, connVars
  <2>2. /\ UNCHANGED <<layout, conn, home, permits, load, hand, acceptor>>
        /\ \A s \in Shards : shard[s] = "gone" => shard'[s] = "gone"
    BY <1>1 DEF Core, TypeOK, SpawnShard, mainVars, loopVars, connVars
  <2> QED
    BY <2>1, <2>2, Quiet
<1>2. ASSUME \/ Bind \/ SpawnFails \/ StartAcceptor \/ StartControl \/ ControlFails
             \/ AbandonRuntime \/ ControlReady \/ ShutdownNext
      PROVE  Core'
  <2>1. /\ UNCHANGED <<layout, conn, home, late, permits, load, shard, hand, live>>
        /\ acceptor' = acceptor \/ (acceptor = "off" /\ acceptor' = "permit")
    BY <1>2 DEF Bind, SpawnFails, StartAcceptor, StartControl, ControlFails, AbandonRuntime,
                ControlReady, ShutdownNext, StopAccepting, SendDrain, ShutdownRuntime, RuntimeDown,
                ControlStop, NotStarted, loopVars, shardVars, connVars
  <2>2. /\ main' \in MainStates /\ state' \in {"booting", "ready", "draining"}
        /\ drain' \in BOOLEAN /\ stop' \in BOOLEAN /\ tx' \in BOOLEAN
        /\ control' \in {"off", "serving", "gone"}
    BY <1>2 DEF Bind, SpawnFails, StartAcceptor, StartControl, ControlFails, AbandonRuntime,
                ControlReady, ShutdownNext, StopAccepting, SendDrain, ShutdownRuntime, RuntimeDown,
                ControlStop, loopVars, shardVars, connVars, Core, TypeOK, MainStates
  <2>3. TypeOK'
    BY <2>1, <2>2 DEF Core, TypeOK
  <2> QED
    BY <2>1, <2>3, Quiet
<1>3. CASE Unwound \/ RuntimeFails
  BY <1>3, BacklogGoes DEF Unwound, RuntimeFails
<1> QED
  BY <1>1, <1>2, <1>3 DEF StartNext

\* Nothing but server_start starts the accept loop.
LEMMA BootStep == NotStarted /\ [Next]_vars => NotStarted'
<1> SUFFICES ASSUME NotStarted, [Next]_vars PROVE NotStarted'
  OBVIOUS
<1>1. CASE StartNext \/ ShutdownNext
  BY <1>1 DEF NotStarted, StartNext, ShutdownNext, Bind, SpawnShard, SpawnFails, Unwound,
              RuntimeFails, StartAcceptor, StartControl, ControlFails, AbandonRuntime, ControlReady, StopAccepting,
              SendDrain, ShutdownRuntime, RuntimeDown, ControlStop, mainVars, loopVars
<1>2. CASE LoopNext
  BY <1>2 DEF NotStarted, LoopNext, AcquirePermit, AcceptFails, DetachFails, Send, NoShardLeft, LoopEnds,
              AcceptorStops, Accept, Assign, mainVars
<1>3. ASSUME NEW s \in Shards, ShardNext(s) \/ ShardDies(s)
      PROVE  NotStarted'
  BY <1>3 DEF NotStarted, ShardNext, RunsDry, Drained, ShardStops, ShardDies, mainVars, loopVars
<1>4. ASSUME NEW c \in Conns, Connect(c) \/ ConnNext(c) \/ Request(c) \/ Hangup(c)
      PROVE  NotStarted'
  BY <1>4 DEF NotStarted, Connect, ConnNext, Request, Hangup, Receive, TurnedAway, Subscribe,
              Respond, GracefulShutdown, Cancel, mainVars, loopVars
<1>5. CASE UNCHANGED vars
  BY <1>5 DEF NotStarted, vars, mainVars, loopVars
<1> QED
  BY <1>1, <1>2, <1>3, <1>4, <1>5 DEF Next

\* Every step of the I/O plane keeps the counts.
LEMMA CoreStep == Core /\ NotStarted /\ [Next]_vars => Core'
<1> SUFFICES ASSUME Core, NotStarted, [Next]_vars PROVE Core'
  OBVIOUS
<1>1. CASE StartNext \/ ShutdownNext
  BY <1>1, MainStep
<1>2. CASE LoopNext
  <2>1. CASE NoShardLeft
    <3>1. TypeOK'
      BY <2>1 DEF Core, TypeOK, NoShardLeft, shardVars, connVars
    <3> QED
      BY <2>1, <3>1, Quiet DEF NoShardLeft, shardVars, connVars
  <2> QED
    BY <1>2, <2>1, PermitMoves, AcceptStep, HandDropped, AssignStep, SendStep DEF LoopNext
<1>3. ASSUME NEW t \in Shards, RunsDry(t) \/ Drained(t)
      PROVE  Core'
  <2>1. /\ UNCHANGED <<mainVars, loopVars, permits, load, connVars>>
        /\ shard' = [shard EXCEPT ![t] = "draining"] \/ shard' = [shard EXCEPT ![t] = "gone"]
        /\ shard[t] # "gone"
    BY <1>3 DEF RunsDry, Drained
  <2>2. TypeOK'
    BY <2>1 DEF Core, TypeOK, mainVars, loopVars, connVars
  <2>3. \A s \in Shards : shard[s] = "gone" => shard'[s] = "gone"
    BY <2>1 DEF Core, TypeOK
  <2> QED
    BY <2>1, <2>2, <2>3, Quiet DEF mainVars, loopVars, connVars
<1>4. ASSUME NEW t \in Shards, ShardStops(t) \/ ShardDies(t)
      PROVE  Core'
  BY <1>4, CutOffStep DEF ShardStops, ShardDies
<1>5. ASSUME NEW c \in Conns, Connect(c) \/ Receive(c) \/ Subscribe(c) \/ Request(c)
      PROVE  Core'
  <2>1. PICK x : /\ conn' = [conn EXCEPT ![c] = x]
                 /\ \/ conn[c] \in Tasks \cup {"queued"} /\ x \in Tasks
                    \/ conn[c] = "new" /\ x = "backlog"
    BY <1>5 DEF Connect, Receive, Subscribe, Request, Tasks
  <2>2. /\ UNCHANGED <<mainVars, loopVars, permits, shardVars, home>>
        /\ late' \in [Conns -> BOOLEAN]
    BY <1>5 DEF Connect, Receive, Subscribe, Request, Core, TypeOK
  <2>3. conn' \in [Conns -> ConnStates]
    BY <2>1 DEF Core, TypeOK, ConnStates, Permitted
  <2>4. TypeOK'
    BY <2>2, <2>3 DEF Core, TypeOK, mainVars, loopVars, shardVars
  <2> QED
    BY <2>1, <2>2, <2>4, Moves DEF mainVars, loopVars, shardVars
<1>6. ASSUME NEW c \in Conns,
             TurnedAway(c) \/ Respond(c) \/ GracefulShutdown(c) \/ Cancel(c) \/ Hangup(c)
      PROVE  Core'
  <2>1. CASE Close(c) /\ conn[c] \in Tasks /\ UNCHANGED <<mainVars, loopVars, shard, home, late>>
    BY <2>1, Closes
  <2>2. CASE /\ conn[c] = "busy" /\ conn' = [conn EXCEPT ![c] = "open"]
             /\ UNCHANGED <<mainVars, loopVars, permits, shardVars, home, late>>
    <3>1. TypeOK'
      BY <2>2 DEF Core, TypeOK, mainVars, loopVars, shardVars, ConnStates, Permitted, Tasks
    <3> QED
      BY <2>2, <3>1, Moves DEF mainVars, loopVars, shardVars, Tasks
  <2>3. CASE /\ conn[c] = "busy" /\ conn' = [conn EXCEPT ![c] = "last"]
             /\ UNCHANGED <<mainVars, loopVars, permits, shardVars, home, late>>
    <3>1. TypeOK'
      BY <2>3 DEF Core, TypeOK, mainVars, loopVars, shardVars, ConnStates, Permitted, Tasks
    <3> QED
      BY <2>3, <3>1, Moves DEF mainVars, loopVars, shardVars, Tasks
  <2> QED
    BY <1>6, <2>1, <2>2, <2>3 DEF TurnedAway, Respond, GracefulShutdown, Cancel, Hangup, Tasks
<1>7. CASE UNCHANGED vars
  <2>1. UNCHANGED <<mainVars, loopVars, permits, shardVars, connVars>>
    BY <1>7 DEF vars
  <2>2. TypeOK'
    BY <2>1 DEF Core, TypeOK, mainVars, loopVars, shardVars, connVars
  <2> QED
    BY <2>1, <2>2, Quiet DEF mainVars, loopVars, shardVars, connVars
<1> QED
  BY <1>1, <1>2, <1>3, <1>4, <1>5, <1>6, <1>7 DEF Next, ShardNext, ConnNext

\* Always.
LEMMA CoreAlways == Spec => []Core
<1>1. Init => NotStarted
  BY DEF Init, NotStarted
<1> QED
  BY <1>1, CoreInit, CoreStep, BootStep, PTL DEF Spec

\* The connection cap (server.rs:308-321, io_shards.rs:279-305): whatever
\* number of connections, shards and permits, and however connections,
\* handshakes, shards and boots fail, each permit is free, with the accept
\* loop or with one connection; and every variable keeps its type.
THEOREM PermitsKept == Spec => []PermitsExact
<1>1. Core => PermitsExact
  BY DEF Core, PermitSum, PermitsExact
<1> QED
  BY <1>1, CoreAlways, PTL

\* The load counters (io_shards.rs:265-274, 357-389): a running shard's
\* counter is exact, so least_loaded never chooses by a stale one.
THEOREM LoadsKept == Spec => []LoadsExact
<1>1. Core => LoadsExact
  BY DEF Core, LoadCovers, LoadsExact, Seated, Sending
<1> QED
  BY <1>1, CoreAlways, PTL

\* The boot and shutdown sequences keep the window.
LEMMA ReadyStep == ReadyWindow /\ [Next]_vars => ReadyWindow'
<1> SUFFICES ASSUME ReadyWindow, [Next]_vars PROVE ReadyWindow'
  OBVIOUS
<1>1. CASE UNCHANGED <<main, state, drain>>
  BY <1>1 DEF ReadyWindow
<1>2. CASE StartNext \/ ShutdownNext
  BY <1>2 DEF ReadyWindow, StartNext, ShutdownNext, Bind, SpawnShard, SpawnFails, Unwound,
              RuntimeFails, StartAcceptor, StartControl, ControlFails, AbandonRuntime, ControlReady, StopAccepting,
              SendDrain, ShutdownRuntime, RuntimeDown, ControlStop, mainVars
<1>3. CASE NoShardLeft
  BY <1>3 DEF ReadyWindow, NoShardLeft
<1>4. CASE LoopNext /\ ~NoShardLeft
  BY <1>1, <1>4 DEF LoopNext, AcquirePermit, AcceptFails, DetachFails, Send, LoopEnds,
                    AcceptorStops, Accept, Assign, mainVars
<1>5. ASSUME NEW s \in Shards, ShardNext(s) \/ ShardDies(s)
      PROVE  ReadyWindow'
  BY <1>1, <1>5 DEF ShardNext, RunsDry, Drained, ShardStops, ShardDies, mainVars
<1>6. ASSUME NEW c \in Conns, Connect(c) \/ ConnNext(c) \/ Request(c) \/ Hangup(c)
      PROVE  ReadyWindow'
  BY <1>1, <1>6 DEF Connect, ConnNext, Request, Hangup, Receive, TurnedAway, Subscribe, Respond,
                    GracefulShutdown, Cancel, mainVars
<1>7. CASE UNCHANGED vars
  BY <1>1, <1>7 DEF vars, mainVars
<1> QED
  BY <1>2, <1>3, <1>4, <1>5, <1>6, <1>7 DEF Next

\* past control_ready, and no loop has ended, or is about to, under "ready"
HeardReady ==
  /\ main \in {"up", "stopping", "draining", "teardown", "control_stop", "down"}
  /\ acceptor \in {"ending", "gone"} => state # "ready"

\* control_ready is behind, so nothing stores "ready" again; what ends the
\* loop has stored "draining" or is told to after stop_accepting has.
LEMMA HeardStep == ReadyWindow /\ HeardReady /\ [Next]_vars => HeardReady'
<1> SUFFICES ASSUME ReadyWindow, HeardReady, [Next]_vars PROVE HeardReady'
  OBVIOUS
<1>1. CASE LoopNext
  BY <1>1 DEF LoopNext, ReadyWindow, HeardReady, AcquirePermit, AcceptFails, DetachFails, Send,
              NoShardLeft, LoopEnds, AcceptorStops, Accept, Assign, mainVars
<1>2. CASE StartNext
  BY <1>2 DEF HeardReady, StartNext, Bind, SpawnShard, SpawnFails, Unwound, RuntimeFails,
              StartAcceptor, StartControl, ControlFails, AbandonRuntime, ControlReady
<1>3. CASE ShutdownNext
  BY <1>3 DEF HeardReady, ShutdownNext, StopAccepting, SendDrain, ShutdownRuntime, RuntimeDown,
              ControlStop, loopVars
<1>4. CASE UNCHANGED <<main, state, acceptor>>
  BY <1>4 DEF HeardReady
<1>5. ASSUME NEW s \in Shards, ShardNext(s) \/ ShardDies(s)
      PROVE  HeardReady'
  BY <1>4, <1>5 DEF ShardNext, RunsDry, Drained, ShardStops, ShardDies, mainVars, loopVars
<1>6. ASSUME NEW c \in Conns, Connect(c) \/ ConnNext(c) \/ Request(c) \/ Hangup(c)
      PROVE  HeardReady'
  BY <1>4, <1>6 DEF Connect, ConnNext, Request, Hangup, Receive, TurnedAway, Subscribe, Respond,
                    GracefulShutdown, Cancel, mainVars, loopVars
<1>7. CASE UNCHANGED vars
  BY <1>4, <1>7 DEF vars, mainVars, loopVars
<1> QED
  BY <1>1, <1>2, <1>3, <1>5, <1>6, <1>7 DEF Next

\* Readiness (server.rs:803-811, io_shards.rs:364-365): once a server has
\* said ready with its accept loop running, it never says ready after that
\* loop has ended, whichever of shutdown and the loss of the last shard
\* ends it, and however the two race.
THEOREM ReadyKept == Spec => ReadyNeverTurnsDeaf
<1> DEFINE Said == state = "ready" /\ acceptor \in {"permit", "accept", "assign", "send"}
           Held == acceptor = "gone" => state # "ready"
<1>1. Init => ReadyWindow
  BY DEF Init, ReadyWindow
<1>2. ReadyWindow /\ Said => HeardReady
  BY DEF ReadyWindow, HeardReady
<1>3. HeardReady => Held
  BY DEF HeardReady
<1>4. Spec => [](Said => []Held)
  <2> HIDE DEF Said, Held
  <2> QED
    BY <1>1, <1>2, <1>3, ReadyStep, HeardStep, PTL DEF Spec
<1> QED
  BY <1>4 DEF ReadyNeverTurnsDeaf
=============================================================================
