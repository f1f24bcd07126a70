----------------------------- MODULE Connections -----------------------------
(***************************************************************************)
(* Kino's I/O plane: server_start and its failure paths, the two accept    *)
(* topologies (one multi-thread tokio runtime, or an acceptor thread that  *)
(* hands connections to current-thread shards), a connection from accept   *)
(* to close, the drain signal, and the teardown of the runtime.            *)
(*                                                                         *)
(* What happens to a request inside a connection is SharedQueue's and      *)
(* LaneDispatch's business; here a request is a period during which the    *)
(* connection is busy.  A shard's channel is the set of connections queued *)
(* for it: nothing depends on their order.                                 *)
(***************************************************************************)
EXTENDS Naturals, FiniteSets

CONSTANTS
  Conns,          \* connections clients will ever open
  Shards,         \* I/O shard threads (sharded layout)
  Pool,           \* the multi-thread runtime as the home of a connection
  MayDie,         \* shards whose thread may be lost to a panic
  Layouts         \* boot configurations: io_shards, TLS, a control plane,
                  \* max_connections

ASSUME ConnectionsAssumption ==
  /\ IsFiniteSet(Conns) /\ IsFiniteSet(Shards) /\ Pool \notin Shards
  /\ MayDie \subseteq Shards
  /\ Layouts \subseteq [sharded : BOOLEAN, tls : BOOLEAN, control : BOOLEAN,
                        max_connections : Nat \ {0}]

VARIABLES
  layout,    \* what server_start was asked for
  main,      \* where Server#start or Server#shutdown stands
  state,     \* ServerInner::state, what /ready answers from
  drain,     \* the shutdown_tx watch: stop accepting, finish what is open
  stop,      \* the runtime is being torn down
  control,   \* the kino-control thread
  acceptor,  \* where the accept loop stands
  hand,      \* the connection and the shard the accept loop works on
  tx,        \* a sender of the shards' channels exists
  permits,   \* free permits of conn_limit
  live,      \* the accept loop's notion of which shards are up
  load,      \* each shard's open-connection counter
  shard,     \* each shard's thread
  conn,      \* each connection
  home,      \* the runtime a connection was handed to
  late       \* the watch already said draining when it subscribed

mainVars  == <<layout, main, state, drain, stop, control>>
loopVars  == <<acceptor, hand, tx, live>>
shardVars == <<load, shard>>
connVars  == <<conn, home, late>>
vars == <<mainVars, loopVars, permits, shardVars, connVars>>

MainStates == {"bind", "spawn", "unwind", "control", "abandon", "abandoning", "boot", "up",
               "stopping", "draining", "teardown", "control_stop", "down", "failed"}
Tasks == {"accepted", "open", "busy", "last"}      \* a task serves it
Permitted == Tasks \cup {"held", "queued"}         \* it owns a permit
ConnStates == Permitted \cup {"new", "backlog", "closed"}

NoHand == [conn |-> "none", shard |-> Pool]

Init ==
  /\ layout \in Layouts
  /\ main = "bind" /\ state = "booting" /\ drain = FALSE /\ stop = FALSE
  /\ control = "off"
  /\ acceptor = "off" /\ hand = NoHand /\ tx = TRUE
  /\ permits = layout.max_connections
  /\ live = [s \in Shards |-> TRUE]
  /\ load = [s \in Shards |-> 0] /\ shard = [s \in Shards |-> "off"]
  /\ conn = [c \in Conns |-> "new"] /\ home = [c \in Conns |-> Pool]
  /\ late = [c \in Conns |-> FALSE]

\* the backlog dies with the listener
ListenerClosed(cs) ==
  conn' = [c \in Conns |-> IF c \in cs \/ conn[c] = "backlog" THEN "closed" ELSE conn[c]]

-----------------------------------------------------------------------------
(* server_start                                                            *)

\* TLS material, the listener and the control listener are set up before
\* anything runs: any error is the boot error.
Bind ==
  /\ main = "bind"
  /\ main' \in {"spawn", "failed"}
  /\ UNCHANGED <<layout, state, drain, stop, control, loopVars, permits, shardVars, connVars>>

SpawnShard(s) ==
  /\ main = "spawn" /\ layout.sharded /\ shard[s] = "off"
  /\ shard' = [shard EXCEPT ![s] = "serving"]
  /\ UNCHANGED <<mainVars, loopVars, permits, load, connVars>>

\* mutant: the senders are still in scope while the threads are joined
SpawnFailsSendersKept ==
  /\ main = "spawn" /\ layout.sharded
  /\ main' = "unwind"
  /\ UNCHANGED <<layout, state, drain, stop, control, loopVars, permits, shardVars, connVars>>

\* A shard or the acceptor does not come up: the senders are dropped, so
\* that the shards already started run dry, and they are joined.
SpawnFails ==
  /\ main = "spawn" /\ layout.sharded
  /\ main' = "unwind" /\ tx' = FALSE
  /\ UNCHANGED <<layout, state, drain, stop, control, acceptor, hand, live, permits, shardVars, connVars>>

\* the listener goes when spawn returns
Unwound ==
  /\ main = "unwind" /\ \A s \in Shards : shard[s] \in {"off", "gone"}
  /\ main' = "failed" /\ ListenerClosed({})
  /\ UNCHANGED <<layout, state, drain, stop, control, loopVars, permits, shardVars, home, late>>

RuntimeFails ==
  /\ main = "spawn" /\ ~layout.sharded
  /\ main' = "failed" /\ ListenerClosed({})
  /\ UNCHANGED <<layout, state, drain, stop, control, loopVars, permits, shardVars, home, late>>

StartAcceptor ==
  /\ main = "spawn" /\ (layout.sharded => \A s \in Shards : shard[s] # "off")
  /\ main' = "control" /\ acceptor' = "permit"
  /\ UNCHANGED <<layout, state, drain, stop, control, hand, tx, live, permits, shardVars, connVars>>

\* with the control thread up, or none asked for, the server is registered
StartControl ==
  /\ main = "control"
  /\ main' = "boot"
  /\ control' = IF layout.control THEN "serving" ELSE "off"
  /\ UNCHANGED <<layout, state, drain, stop, loopVars, permits, shardVars, connVars>>

\* The accept loop is already running: it is told to stop, and then its
\* runtime is shut down, before the error reaches Ruby.
ControlFails ==
  /\ main = "control" /\ layout.control
  /\ main' = "abandon" /\ drain' = TRUE
  /\ UNCHANGED <<layout, state, stop, control, loopVars, permits, shardVars, connVars>>

AbandonRuntime ==
  /\ main = "abandon"
  /\ main' = "abandoning" /\ stop' = TRUE
  /\ UNCHANGED <<layout, state, drain, control, loopVars, permits, shardVars, connVars>>

-----------------------------------------------------------------------------
(* Server#start and Server#shutdown                                        *)

\* Ruby reports the worker pool up: the state is stored without a look at
\* what it was.
ControlReady ==
  /\ main = "boot"
  /\ main' = "up" /\ state' = "ready"
  /\ UNCHANGED <<layout, drain, stop, control, loopVars, permits, shardVars, connVars>>

\* stop_accepting: first the state, then the signal
StopAccepting ==
  /\ main = "up"
  /\ main' = "stopping" /\ state' = "draining"
  /\ UNCHANGED <<layout, drain, stop, control, loopVars, permits, shardVars, connVars>>

SendDrain ==
  /\ main = "stopping"
  /\ main' = "draining" /\ drain' = TRUE
  /\ UNCHANGED <<layout, state, stop, control, loopVars, permits, shardVars, connVars>>

\* The drain loop has seen zero requests or its deadline, the workers are
\* joined: shutdown_runtime.
ShutdownRuntime ==
  /\ main = "draining"
  /\ main' = "teardown" /\ stop' = TRUE
  /\ UNCHANGED <<layout, state, drain, control, loopVars, permits, shardVars, connVars>>

\* RuntimeHandle::shutdown returns: every thread has finished, or the
\* deadline passed and the others are abandoned.
RuntimeDown ==
  /\ main \in {"teardown", "abandoning"}
  /\ main' = IF main = "abandoning" THEN "failed" ELSE "control_stop"
  /\ UNCHANGED <<layout, state, drain, stop, control, loopVars, permits, shardVars, connVars>>

ControlStop ==
  /\ main = "control_stop"
  /\ main' = "down"
  /\ control' = IF control = "serving" THEN "gone" ELSE control
  /\ UNCHANGED <<layout, state, drain, stop, loopVars, permits, shardVars, connVars>>

-----------------------------------------------------------------------------
(* The accept loops                                                        *)

\* the kernel queues clients from the bind on, until the socket is closed
Listening == main \in {"spawn", "unwind"} \/ acceptor \notin {"off", "gone"}

Connect(c) ==
  /\ conn[c] = "new" /\ Listening
  /\ conn' = [conn EXCEPT ![c] = "backlog"]
  /\ UNCHANGED <<mainVars, loopVars, permits, shardVars, home, late>>

\* a permit before the accept: past the cap clients wait in the backlog
AcquirePermit ==
  /\ acceptor = "permit" /\ permits > 0
  /\ acceptor' = "accept" /\ permits' = permits - 1
  /\ UNCHANGED <<mainVars, hand, tx, live, shardVars, connVars>>

\* a transient accept error gives the permit back
AcceptFails ==
  /\ acceptor = "accept"
  /\ acceptor' = "permit" /\ permits' = permits + 1
  /\ UNCHANGED <<mainVars, hand, tx, live, shardVars, connVars>>

\* The default loop spawns the connection's task; the sharded one detaches
\* the stream and looks for a shard.
Accept(c) ==
  /\ acceptor = "accept" /\ conn[c] = "backlog"
  /\ IF layout.sharded
     THEN /\ conn' = [conn EXCEPT ![c] = "held"]
          /\ acceptor' = "assign" /\ hand' = [conn |-> c, shard |-> Pool]
     ELSE /\ conn' = [conn EXCEPT ![c] = "accepted"]
          /\ acceptor' = "permit" /\ UNCHANGED hand
  /\ UNCHANGED <<mainVars, tx, live, permits, shardVars, home, late>>

\* the accepted stream cannot be detached: it is dropped with its permit
DetachFails(c) ==
  /\ acceptor = "accept" /\ conn[c] = "backlog" /\ layout.sharded
  /\ conn' = [conn EXCEPT ![c] = "closed"]
  /\ acceptor' = "permit" /\ permits' = permits + 1
  /\ UNCHANGED <<mainVars, hand, tx, live, shardVars, home, late>>

LeastLoaded ==
  {s \in Shards : live[s] /\ \A t \in Shards : live[t] => load[s] <= load[t]}

\* the load is counted before the connection is sent
Assign(s) ==
  /\ acceptor = "assign" /\ s \in LeastLoaded
  /\ load' = [load EXCEPT ![s] = @ + 1]
  /\ acceptor' = "send" /\ hand' = [hand EXCEPT !.shard = s]
  /\ UNCHANGED <<mainVars, tx, live, permits, shard, connVars>>

\* a shard that is gone is marked dead, and the next one is tried
Send ==
  LET s == hand.shard IN
  /\ acceptor = "send"
  /\ IF shard[s] # "gone"
     THEN /\ conn' = [conn EXCEPT ![hand.conn] = "queued"]
          /\ home' = [home EXCEPT ![hand.conn] = s]
          /\ acceptor' = "permit" /\ hand' = NoHand
          /\ UNCHANGED <<live, load>>
     ELSE /\ live' = [live EXCEPT ![s] = FALSE]
          /\ load' = [load EXCEPT ![s] = @ - 1]
          /\ acceptor' = "assign" /\ hand' = [hand EXCEPT !.shard = Pool]
          /\ UNCHANGED <<conn, home>>
  /\ UNCHANGED <<mainVars, tx, permits, shard, late>>

\* mutant: the loop ends without telling the control plane
NoShardLeftSilent ==
  /\ acceptor = "assign" /\ LeastLoaded = {}
  /\ acceptor' = "ending"
  /\ UNCHANGED <<mainVars, hand, tx, live, permits, shardVars, connVars>>

\* every shard is down: stop reporting ready
NoShardLeft ==
  /\ acceptor = "assign" /\ LeastLoaded = {}
  /\ state' = "draining" /\ acceptor' = "ending"
  /\ UNCHANGED <<layout, main, drain, stop, control, hand, tx, live, permits, shardVars, connVars>>

\* and stop accepting: the connection in hand and the listener are dropped
LoopEnds ==
  /\ acceptor = "ending"
  /\ acceptor' = "gone" /\ hand' = NoHand /\ tx' = FALSE
  /\ permits' = permits + 1 /\ ListenerClosed({hand.conn})
  /\ UNCHANGED <<mainVars, live, shardVars, home, late>>

\* both waits of the loop also wait for the signal
AcceptorStops ==
  /\ drain /\ acceptor \in {"permit", "accept"}
  /\ permits' = IF acceptor = "accept" THEN permits + 1 ELSE permits
  /\ acceptor' = "gone" /\ tx' = FALSE /\ ListenerClosed({})
  /\ UNCHANGED <<mainVars, hand, live, shardVars, home, late>>

-----------------------------------------------------------------------------
(* Shards                                                                  *)

OnShard(s, states) == {c \in Conns : home[c] = s /\ conn[c] \in states}

\* the task is spawned with its load guard
Receive(c) ==
  /\ conn[c] = "queued" /\ shard[home[c]] = "serving"
  /\ conn' = [conn EXCEPT ![c] = "accepted"]
  /\ UNCHANGED <<mainVars, loopVars, permits, shardVars, home, late>>

\* recv has nothing left and no sender
RunsDry(s) ==
  /\ shard[s] = "serving" /\ ~tx /\ OnShard(s, {"queued"}) = {}
  /\ shard' = [shard EXCEPT ![s] = "draining"]
  /\ UNCHANGED <<mainVars, loopVars, permits, load, connVars>>

Drained(s) ==
  /\ shard[s] = "draining" /\ OnShard(s, Tasks) = {}
  /\ shard' = [shard EXCEPT ![s] = "gone"]
  /\ UNCHANGED <<mainVars, loopVars, permits, load, connVars>>

\* mutant: connections still in the channel keep their permits
CutOffTasksOnly(s) ==
  /\ conn' = [c \in Conns |-> IF c \in OnShard(s, Tasks \cup {"queued"}) THEN "closed" ELSE conn[c]]
  /\ permits' = permits + Cardinality(OnShard(s, Tasks))
  /\ load' = [load EXCEPT ![s] = @ - Cardinality(OnShard(s, Tasks))]
  /\ shard' = [shard EXCEPT ![s] = "gone"]

\* The thread ends with connections on it: its tasks are cancelled, which
\* drops their guards and permits; what is in the channel is dropped with
\* its permit, but its load is never counted back.
CutOff(s) ==
  /\ conn' = [c \in Conns |-> IF c \in OnShard(s, Tasks \cup {"queued"}) THEN "closed" ELSE conn[c]]
  /\ permits' = permits + Cardinality(OnShard(s, Tasks \cup {"queued"}))
  /\ load' = [load EXCEPT ![s] = @ - Cardinality(OnShard(s, Tasks))]
  /\ shard' = [shard EXCEPT ![s] = "gone"]

\* the final teardown signal cuts either phase short
ShardStops(s) ==
  /\ stop /\ shard[s] \in {"serving", "draining"}
  /\ CutOff(s)
  /\ UNCHANGED <<mainVars, loopVars, home, late>>

ShardDies(s) ==
  /\ s \in MayDie /\ shard[s] \in {"serving", "draining"}
  /\ CutOff(s)
  /\ UNCHANGED <<mainVars, loopVars, home, late>>

-----------------------------------------------------------------------------
(* A connection                                                            *)

\* mutant: the counter is taken back only after a served connection
CloseUnguarded(c) ==
  /\ conn' = [conn EXCEPT ![c] = "closed"]
  /\ permits' = permits + 1
  /\ load' = IF home[c] \in Shards /\ conn[c] # "accepted"
             THEN [load EXCEPT ![home[c]] = @ - 1] ELSE load

\* the task ends, however it ends: permit and load guard are dropped
Close(c) ==
  /\ conn' = [conn EXCEPT ![c] = "closed"]
  /\ permits' = permits + 1
  /\ load' = IF home[c] \in Shards THEN [load EXCEPT ![home[c]] = @ - 1] ELSE load

\* the stream cannot be registered with the shard, or the TLS handshake
\* fails or times out
TurnedAway(c) ==
  /\ conn[c] = "accepted" /\ (layout.tls \/ layout.sharded)
  /\ Close(c)
  /\ UNCHANGED <<mainVars, loopVars, shard, home, late>>

\* serve_connection subscribes to the watch, then serves
Subscribe(c) ==
  /\ conn[c] = "accepted"
  /\ conn' = [conn EXCEPT ![c] = "open"]
  /\ late' = [late EXCEPT ![c] = drain]
  /\ UNCHANGED <<mainVars, loopVars, permits, shardVars, home>>

Request(c) ==
  /\ conn[c] = "open"
  /\ conn' = [conn EXCEPT ![c] = "busy"]
  /\ UNCHANGED <<mainVars, loopVars, permits, shardVars, home, late>>

Respond(c) ==
  \/ /\ conn[c] = "busy"
     /\ conn' = [conn EXCEPT ![c] = "open"]
     /\ UNCHANGED <<mainVars, loopVars, permits, shardVars, home, late>>
  \/ /\ conn[c] = "last"
     /\ Close(c)
     /\ UNCHANGED <<mainVars, loopVars, shard, home, late>>

\* the client leaves, or does not finish its headers in time
Hangup(c) ==
  /\ conn[c] \in {"open", "busy", "last"}
  /\ Close(c)
  /\ UNCHANGED <<mainVars, loopVars, shard, home, late>>

\* mutant: only an edge after the subscription counts
DrainSignalEdge(c) == drain /\ ~late[c]

\* drain_signal: the value as subscribed, else the next change
DrainSignal(c) == late[c] \/ drain

\* graceful_shutdown: an idle connection closes, a busy one after its
\* request
GracefulShutdown(c) ==
  /\ DrainSignal(c)
  /\ \/ /\ conn[c] = "open"
        /\ Close(c)
        /\ UNCHANGED <<mainVars, loopVars, shard, home, late>>
     \/ /\ conn[c] = "busy"
        /\ conn' = [conn EXCEPT ![c] = "last"]
        /\ UNCHANGED <<mainVars, loopVars, permits, shardVars, home, late>>

\* the multi-thread runtime is dropped: its tasks end at their next await
Cancel(c) ==
  /\ stop /\ home[c] = Pool /\ conn[c] \in Tasks
  /\ Close(c)
  /\ UNCHANGED <<mainVars, loopVars, shard, home, late>>

-----------------------------------------------------------------------------

StartNext ==
  \/ Bind \/ SpawnFails \/ Unwound \/ RuntimeFails \/ StartAcceptor
  \/ StartControl \/ ControlFails \/ AbandonRuntime \/ ControlReady
  \/ \E s \in Shards : SpawnShard(s)

ShutdownNext ==
  StopAccepting \/ SendDrain \/ ShutdownRuntime \/ RuntimeDown \/ ControlStop

LoopNext ==
  \/ AcquirePermit \/ AcceptFails \/ Send \/ NoShardLeft \/ LoopEnds \/ AcceptorStops
  \/ \E c \in Conns : Accept(c) \/ DetachFails(c)
  \/ \E s \in Shards : Assign(s)

ShardNext(s) == RunsDry(s) \/ Drained(s) \/ ShardStops(s)

ConnNext(c) ==
  Receive(c) \/ TurnedAway(c) \/ Subscribe(c) \/ Respond(c) \/ GracefulShutdown(c) \/ Cancel(c)

Next ==
  \/ StartNext \/ ShutdownNext \/ LoopNext
  \/ \E s \in Shards : ShardNext(s) \/ ShardDies(s)
  \/ \E c \in Conns : Connect(c) \/ ConnNext(c) \/ Request(c) \/ Hangup(c)

Spec == Init /\ [][Next]_vars

\* The main thread goes on, except that nobody has to call shutdown and its
\* drain may last; tokio polls what is ready; a handshake has its timeout;
\* a request is answered in the end (SharedQueue's EveryRequestSettles).
\* The accept loop's select does not pass over its signal for ever.
Fairness ==
  /\ WF_vars(StartNext) /\ WF_vars(SendDrain) /\ WF_vars(RuntimeDown) /\ WF_vars(ControlStop)
  /\ WF_vars(\E s \in Shards : Assign(s)) /\ WF_vars(Send)
  /\ WF_vars(NoShardLeft) /\ WF_vars(LoopEnds)
  /\ SF_vars(AcceptorStops)
  /\ \A s \in Shards : WF_vars(ShardNext(s))
  /\ \A c \in Conns :
       /\ WF_vars(Receive(c)) /\ WF_vars(Subscribe(c) \/ TurnedAway(c))
       /\ WF_vars(Respond(c)) /\ WF_vars(GracefulShutdown(c)) /\ WF_vars(Cancel(c))

LiveSpec == Spec /\ Fairness

-----------------------------------------------------------------------------
(* Properties                                                              *)

TypeOK ==
  /\ layout \in Layouts /\ main \in MainStates
  /\ state \in {"booting", "ready", "draining"}
  /\ drain \in BOOLEAN /\ stop \in BOOLEAN /\ tx \in BOOLEAN
  /\ control \in {"off", "serving", "gone"}
  /\ acceptor \in {"off", "permit", "accept", "assign", "send", "ending", "gone"}
  /\ hand \in [conn : Conns \cup {"none"}, shard : Shards \cup {Pool}]
  /\ permits \in Nat
  /\ live \in [Shards -> BOOLEAN] /\ load \in [Shards -> Nat]
  /\ shard \in [Shards -> {"off", "serving", "draining", "gone"}]
  /\ conn \in [Conns -> ConnStates] /\ home \in [Conns -> Shards \cup {Pool}]
  /\ late \in [Conns -> BOOLEAN]

Holders == {c \in Conns : conn[c] \in Permitted}

(* The connection cap: every permit of conn_limit is free, held by the     *)
(* accept loop, or held by one connection, however connections end         *)
(* (server.rs:308-321, io_shards.rs:279-305): at most max_connections are  *)
(* open and no permit leaks.                                               *)
PermitsExact ==
  /\ TypeOK
  /\ permits + Cardinality(Holders) + (IF acceptor = "accept" THEN 1 ELSE 0)
       = layout.max_connections

(* A running shard's counter is the number of connections queued for it or *)
(* served by it (LoadGuard, io_shards.rs:265-274), plus the one about to   *)
(* be sent: least_loaded never works from a count that drifted.            *)
LoadsExact ==
  \A s \in Shards : shard[s] \in {"serving", "draining"} =>
    load[s] = Cardinality(OnShard(s, Tasks \cup {"queued"}))
              + (IF acceptor = "send" /\ hand.shard = s THEN 1 ELSE 0)

(* A server that has said ready with its accept loop running never again   *)
(* says ready without one: stop_accepting stores the state before it       *)
(* signals, and the loop that runs out of shards stores it before it ends  *)
(* (server.rs:803-811, io_shards.rs:364-365).  It speaks of no loop that   *)
(* has given up before control_ready: that call overwrites the store       *)
(* (server.rs:815), and the server then says ready and accepts nobody.     *)
ReadyNeverTurnsDeaf ==
  [](state = "ready" /\ acceptor \in {"permit", "accept", "assign", "send"}
       => [](acceptor = "gone" => state # "ready"))

(* server_start comes to an end: no failure path joins a thread that waits *)
(* for the joiner (io_shards.rs:98-122, server.rs:200-222).                *)
BootReturns ==
  main \in {"bind", "spawn", "unwind", "control", "abandon", "abandoning"}
    ~> main \in {"boot", "failed"}

(* Once the drain signal is out every connection ends by itself, with the  *)
(* teardown still far away, also one that was accepted before the signal   *)
(* and subscribed after it (drain_signal, server.rs:460-468).              *)
DrainEmpties ==
  drain ~> \A c \in Conns : conn[c] \in {"new", "closed"}
=============================================================================
