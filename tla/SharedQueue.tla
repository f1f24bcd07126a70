---------------------------- MODULE SharedQueue ----------------------------
(***************************************************************************)
(* One request's way through Kino with the default shared queue:           *)
(*                                                                         *)
(*   hyper future (server.rs handle_request)                               *)
(*     -> bounded flume queue -> worker loop (queue.rs, worker.rb)         *)
(*     -> Responder (response.rs) -> hyper future -> the client's socket   *)
(*                                                                         *)
(* together with everything else that may touch a request on its way: the  *)
(* crash supervisor, the garbage collector running RequestCtx::drop, the   *)
(* pool scaler's retirement, the client hanging up, and Server#shutdown.   *)
(*                                                                         *)
(* A step is what runs between two points where another thread can         *)
(* interfere: an await, an unlock, an atomic.  A worker is a dispatch slot *)
(* with the Ruby thread that occupies it; a crashed worker's slot is never *)
(* reused, its successor boots on a fresh one.                             *)
(***************************************************************************)
EXTENDS Integers, Sequences, FiniteSets, SequencesExt

CONSTANTS
  Requests,        \* requests clients will ever send
  Workers,         \* dispatch slots that can ever be registered
  Booted,          \* the slots occupied at start
  QueueDepth,      \* queue_depth: capacity of the flume channel
  BatchSize,       \* batch: requests a worker may take in one crossing
  Supervised,      \* TRUE in :ractor mode (crash => abort + respawn)
  MayCrash,        \* the slots whose app call may raise a non-StandardError
  MayHang,         \* the slots whose app call may never return
  RequestTimeout,  \* TRUE when request_timeout is configured
  CloseRaises,     \* TRUE when body.close may raise a StandardError
  Elastic,         \* TRUE when the pool scaler may retire workers
  ShutsDown        \* TRUE when Server#shutdown is called

ASSUME SharedQueueAssumption ==
  /\ Booted \subseteq Workers /\ Booted # {}
  /\ QueueDepth \in Nat \ {0} /\ BatchSize \in Nat \ {0}
  /\ MayCrash \subseteq Workers /\ MayHang \subseteq Workers
  /\ {Supervised, RequestTimeout, CloseRaises, Elastic, ShutsDown}
       \subseteq BOOLEAN

VARIABLES
  future,     \* where the request's handle_request future stands
  answer,     \* the response that future returned to hyper
  inFlight,   \* ServerInner::in_flight
  line,       \* the channel's contents, then the senders blocked on it
  open,       \* ServerInner::req_tx still holds the sender
  responded,  \* Responder::responded
  head,       \* what went through the head oneshot
  pc,         \* where the worker's loop stands
  held,       \* request handles in the worker's hands, in serving order
  fused,      \* the worker is inside a fused respond_and_take
  current,    \* WorkerSlot::current, the weak list of what it is serving
  interrupted,\* WorkerSlot::interrupted
  retired,    \* WorkerSlot::retired
  served,     \* ServerInner::served, kept per request
  garbage,    \* handles no Ruby code refers to, not collected yet
  phase,      \* where Server#shutdown stands
  late,       \* its drain deadline has passed
  toAbort     \* slots abort_all_inflight still has to visit

clientVars == <<future, answer, inFlight>>
queueVars  == <<line, open>>
respVars   == <<responded, head>>
slotVars   == <<current, interrupted, retired, served>>
workerVars == <<pc, held, fused>>
mainVars   == <<phase, late, toAbort>>
vars == <<clientVars, queueVars, respVars, slotVars, workerVars, garbage, mainVars>>

FutureStates == {"idle", "cloned", "sending", "expired", "awaiting",
                 "writing", "done", "gone", "cut"}
Answers == {"none", "app", "500", "503", "504", "413"}
PcStates == {"unborn", "checkout", "take", "wait", "admit", "fill", "close",
             "serve", "exited", "crashed", "aborted", "dead"}
Phases == {"running", "draining", "sampled", "closing", "joining",
           "aborting", "interrupting", "reaping", "teardown", "stopped"}

-----------------------------------------------------------------------------
(* The flume channel: the first QueueDepth places of line are its buffer,  *)
(* the others are senders parked in send_async, pulled in FIFO order by    *)
(* the receive that makes room.                                            *)

InLine(r)  == r \in ToSet(line)
Blocked(r) == \E i \in 1..Len(line) : i > QueueDepth /\ line[i] = r

\* dropping a pending send_async takes its ctx off the waiting list
Unpark(r) == \E i \in (QueueDepth + 1)..Len(line) :
  line[i] = r /\ line' = RemoveAt(line, i)

\* req_rx.len(): parked senders are not counted
Queued == IF Len(line) < QueueDepth THEN Len(line) ELSE QueueDepth

\* mutant: the server's own sender counts, the clones in flight do not
DisconnectedEarly == line = <<>> /\ ~open

\* a receive fails for good once the queue is empty and every sender is gone
HoldsSender(r) == future[r] \in {"cloned", "sending", "expired"}
Disconnected == line = <<>> /\ ~open /\ \A r \in Requests : ~HoldsSender(r)

\* handles the worker's Ruby frames refer to
Hands(w) == ToSet(held[w])

\* Responder::claim by each of rs: the first caller's answer goes to the head
Claim(rs, how) ==
  /\ responded' = [r \in Requests |-> responded[r] \/ r \in rs]
  /\ head' = [r \in Requests |-> IF r \in rs /\ ~responded[r] THEN how ELSE head[r]]

-----------------------------------------------------------------------------
(* handle_request                                                          *)

\* The future ends with a response: the InFlight guard drops, hyper writes.
Return(r, what) ==
  /\ future' = [future EXCEPT ![r] = "writing"]
  /\ answer' = [answer EXCEPT ![r] = what]
  /\ inFlight' = inFlight - 1

\* A request with an acceptable body: build the ctx, count it, clone the
\* sender.  A closed queue answers 503 at once and drops the ctx.
Arrive(r) ==
  /\ future[r] = "idle" /\ phase # "stopped"
  /\ \/ /\ open
        /\ future' = [future EXCEPT ![r] = "cloned"]
        /\ inFlight' = inFlight + 1
        /\ UNCHANGED <<answer, respVars>>
     \/ /\ ~open
        /\ future' = [future EXCEPT ![r] = "writing"]
        /\ answer' = [answer EXCEPT ![r] = "503"]
        /\ Claim({r}, "error")
        /\ UNCHANGED inFlight
  /\ UNCHANGED <<queueVars, slotVars, workerVars, garbage, mainVars>>

\* mutant: the early return is missing, the refused ctx is queued as well
ArriveOversizeQueued(r) ==
  /\ future[r] = "idle" /\ phase # "stopped" /\ Len(line) < QueueDepth
  /\ future' = [future EXCEPT ![r] = "writing"]
  /\ answer' = [answer EXCEPT ![r] = "413"]
  /\ line' = Append(line, r)
  /\ UNCHANGED <<inFlight, open, respVars, slotVars, workerVars, garbage, mainVars>>

\* A declared Content-Length past max_body_size: 413, the ctx is dropped.
ArriveOversize(r) ==
  /\ future[r] = "idle" /\ phase # "stopped"
  /\ future' = [future EXCEPT ![r] = "writing"]
  /\ answer' = [answer EXCEPT ![r] = "413"]
  /\ Claim({r}, "error")
  /\ UNCHANGED <<inFlight, queueVars, slotVars, workerVars, garbage, mainVars>>

\* try_send; on a full queue, the first poll of send_async parks the ctx.
Send(r) ==
  /\ future[r] = "cloned"
  /\ line' = Append(line, r)
  /\ future' = [future EXCEPT ![r] = IF Len(line) < QueueDepth THEN "awaiting" ELSE "sending"]
  /\ UNCHANGED <<answer, inFlight, open, respVars, slotVars, workerVars, garbage, mainVars>>

\* A receive pulled the parked ctx into the buffer: send_async completes.
SendCompletes(r) ==
  /\ future[r] = "sending" /\ ~Blocked(r)
  /\ future' = [future EXCEPT ![r] = "awaiting"]
  /\ UNCHANGED <<answer, inFlight, queueVars, respVars, slotVars, workerVars, garbage, mainVars>>

\* tokio::time::timeout polls send_async (still parked), then the expired
\* timer: a receive on a worker thread may come in between.
QueueTimerFires(r) ==
  /\ future[r] = "sending" /\ Blocked(r)
  /\ future' = [future EXCEPT ![r] = "expired"]
  /\ UNCHANGED <<answer, inFlight, queueVars, respVars, slotVars, workerVars, garbage, mainVars>>

\* Elapsed: dropping send_async takes the ctx off the waiting list, if it is
\* still there, and drops it; the client gets a 503.
QueueTimeout(r) ==
  /\ future[r] = "expired"
  /\ Return(r, "503")
  /\ \/ /\ Unpark(r)
        /\ Claim({r}, "error")
     \/ /\ ~Blocked(r)
        /\ UNCHANGED <<line, respVars>>
  /\ UNCHANGED <<open, slotVars, workerVars, garbage, mainVars>>

\* The head oneshot resolves.
HeadArrives(r) ==
  /\ future[r] = "awaiting" /\ head[r] # "empty"
  /\ Return(r, IF head[r] = "app" THEN "app" ELSE "500")
  /\ UNCHANGED <<queueVars, respVars, slotVars, workerVars, garbage, mainVars>>

\* request_timeout passes first: 504, the worker keeps running.
HeadTimeout(r) ==
  /\ RequestTimeout /\ future[r] = "awaiting" /\ head[r] = "empty"
  /\ Return(r, "504")
  /\ UNCHANGED <<queueVars, respVars, slotVars, workerVars, garbage, mainVars>>

\* mutant: in_flight is decremented after the await, not by a drop guard
ClientAbortUncounted(r) ==
  /\ future[r] \in {"sending", "awaiting", "writing"}
  /\ future' = [future EXCEPT ![r] = "gone"]
  /\ \/ Unpark(r) /\ Claim({r}, "error")
     \/ ~Blocked(r) /\ UNCHANGED <<line, respVars>>
  /\ UNCHANGED <<inFlight, answer, open, slotVars, workerVars, garbage, mainVars>>

\* The client hangs up: hyper drops the future at an await point, running
\* the InFlight guard; a ctx parked in send_async is dropped with it.
ClientAbort(r) ==
  /\ future[r] \in {"sending", "awaiting", "writing"}
  /\ future' = [future EXCEPT ![r] = "gone"]
  /\ inFlight' = IF future[r] = "writing" THEN inFlight ELSE inFlight - 1
  /\ \/ /\ Unpark(r)
        /\ Claim({r}, "error")
     \/ /\ ~Blocked(r)
        /\ UNCHANGED <<line, respVars>>
  /\ UNCHANGED <<answer, open, slotVars, workerVars, garbage, mainVars>>

\* hyper has written the whole response to the socket.
Written(r) ==
  /\ future[r] = "writing"
  /\ future' = [future EXCEPT ![r] = "done"]
  /\ UNCHANGED <<answer, inFlight, queueVars, respVars, slotVars, workerVars, garbage, mainVars>>

-----------------------------------------------------------------------------
(* The worker loop                                                         *)

Goto(w, label) == pc' = [pc EXCEPT ![w] = label]

\* Where a take that ends without a request leads: out of Worker.run, or
\* first back into serve to close the previous body.
TakeEnds(w) ==
  /\ Goto(w, IF fused[w] THEN "close" ELSE "exited")
  /\ UNCHANGED <<line, held, fused>>

\* mutant: the receive peeks instead of taking
ReceivePeek(w) ==
  /\ line # <<>>
  /\ held' = [held EXCEPT ![w] = Append(@, Head(line))]
  /\ Goto(w, "admit")
  /\ UNCHANGED <<line, fused>>

\* mutant: a batch is handed on as if it were one handle
ReceiveNested(w) ==
  /\ line # <<>>
  /\ held' = [held EXCEPT ![w] = Append(@, <<Head(line)>>)]
  /\ line' = Tail(line)
  /\ Goto(w, "serve")
  /\ UNCHANGED fused

\* One ctx off the channel, into the hands of the worker.
Receive(w) ==
  /\ line # <<>>
  /\ held' = [held EXCEPT ![w] = Append(@, Head(line))]
  /\ line' = Tail(line)
  /\ Goto(w, "admit")
  /\ UNCHANGED fused

\* Worker#checkout up to block_take: forget the previous batch.
Checkout(w) ==
  /\ pc[w] = "checkout"
  /\ IF phase = "stopped"
     THEN /\ TakeEnds(w)
          /\ UNCHANGED slotVars
     ELSE /\ current' = [current EXCEPT ![w] = {}]
          /\ interrupted' = [interrupted EXCEPT ![w] = FALSE]
          /\ Goto(w, "take")
          /\ UNCHANGED <<line, held, fused, retired, served>>
  /\ UNCHANGED <<clientVars, open, respVars, garbage, mainVars>>

\* block_take's fast path with the GVL held.
TryReceive(w) ==
  /\ pc[w] = "take"
  /\ \/ Receive(w)
     \/ /\ Disconnected
        /\ TakeEnds(w)
     \/ /\ line = <<>> /\ ~Disconnected
        /\ Goto(w, "wait")
        /\ UNCHANGED <<line, held, fused>>
  /\ UNCHANGED <<clientVars, open, respVars, slotVars, garbage, mainVars>>

\* mutant: a disconnected channel and the flag are both taken for a timeout
WaitTickDeaf(w) ==
  /\ pc[w] = "wait"
  /\ \/ Receive(w)
     \/ /\ line = <<>> /\ retired[w]
        /\ TakeEnds(w)
  /\ UNCHANGED <<clientVars, open, respVars, slotVars, garbage, mainVars>>

\* One bounded tick of gvl::interruptible: the flag, then the channel, then
\* (only with the queue empty) retirement.
WaitTick(w) ==
  /\ pc[w] = "wait"
  /\ \/ /\ interrupted[w]
        /\ TakeEnds(w)
     \/ /\ ~interrupted[w]
        /\ \/ Receive(w)
           \/ /\ Disconnected \/ (line = <<>> /\ retired[w])
              /\ TakeEnds(w)
  /\ UNCHANGED <<clientVars, open, respVars, slotVars, garbage, mainVars>>

\* mutant: the slot remembers the last admitted request only
AdmitReplaces(w) ==
  /\ pc[w] = "admit"
  /\ served' = [served EXCEPT ![Last(held[w])] = @ + 1]
  /\ current' = [current EXCEPT ![w] = {Last(held[w])}]
  /\ Goto(w, "fill")
  /\ UNCHANGED <<clientVars, queueVars, respVars, held, fused, interrupted, retired, garbage, mainVars>>

\* admit: count the request served, put its handle on the slot's list.  Its
\* Ruby calls fail only where Ruby has no memory left, which is left out.
Admit(w) ==
  /\ pc[w] = "admit"
  /\ served' = [served EXCEPT ![Last(held[w])] = @ + 1]
  /\ current' = [current EXCEPT ![w] = @ \cup {Last(held[w])}]
  /\ Goto(w, "fill")
  /\ UNCHANGED <<clientVars, queueVars, respVars, held, fused, interrupted, retired, garbage, mainVars>>

\* take_batch keeps draining without blocking while there is room.
Fill(w) ==
  /\ pc[w] = "fill"
  /\ \/ /\ Len(held[w]) < BatchSize
        /\ Receive(w)
     \/ /\ Len(held[w]) = BatchSize \/ line = <<>>
        /\ Goto(w, IF fused[w] THEN "close" ELSE "serve")
        /\ UNCHANGED <<line, held, fused>>
  /\ UNCHANGED <<clientVars, open, respVars, slotVars, garbage, mainVars>>

\* Back in serve after a fused take: body.close of the previous response.
CloseBody(w) ==
  /\ pc[w] = "close"
  /\ Goto(w, IF held[w] = <<>> THEN "exited" ELSE "serve")
  /\ fused' = [fused EXCEPT ![w] = FALSE]
  /\ UNCHANGED <<clientVars, queueVars, respVars, slotVars, held, garbage, mainVars>>

\* body.close raises: serve's rescue aborts the previous request (already
\* answered) and returns NOT_FUSED, so what the fused take returned is lost
\* to the garbage collector and the caller takes again.
CloseBodyRaises(w) ==
  /\ CloseRaises /\ pc[w] = "close"
  /\ garbage' = garbage \cup Hands(w)
  /\ held' = [held EXCEPT ![w] = <<>>]
  /\ fused' = [fused EXCEPT ![w] = FALSE]
  /\ Goto(w, "checkout")
  /\ UNCHANGED <<clientVars, queueVars, respVars, slotVars, mainVars>>

\* A complete response for the last request of the batch, without a hook:
\* respond_and_take answers and goes straight into the next checkout.
RespondFused(w) ==
  /\ pc[w] = "serve" /\ Len(held[w]) = 1
  /\ Claim(Hands(w), "app")
  /\ held' = [held EXCEPT ![w] = <<>>]
  /\ fused' = [fused EXCEPT ![w] = TRUE]
  /\ Goto(w, "checkout")
  /\ UNCHANGED <<clientVars, queueVars, slotVars, garbage, mainVars>>

\* serve returns NOT_FUSED: on to the next request of the batch, or a take.
Advance(w) ==
  /\ held' = [held EXCEPT ![w] = Tail(@)]
  /\ Goto(w, IF Len(held[w]) = 1 THEN "checkout" ELSE "serve")
  /\ UNCHANGED fused

\* send_simple (hook set, or not the last of the batch) or a streamed body.
Respond(w) ==
  /\ pc[w] = "serve"
  /\ Claim({Head(held[w])}, "app")
  /\ Advance(w)
  /\ UNCHANGED <<clientVars, queueVars, slotVars, garbage, mainVars>>

\* mutant: the rescue logs and moves on
AppRaisesSilently(w) ==
  /\ pc[w] = "serve"
  /\ Advance(w)
  /\ UNCHANGED <<clientVars, queueVars, respVars, slotVars, garbage, mainVars>>

\* The app raises a StandardError: serve's rescue aborts the request.
AppRaises(w) ==
  /\ pc[w] = "serve"
  /\ Claim({Head(held[w])}, "error")
  /\ Advance(w)
  /\ UNCHANGED <<clientVars, queueVars, slotVars, garbage, mainVars>>

\* A hard crash (an Exception no rescue catches) unwinds the worker; the
\* handles it held wait for the garbage collector.
Crash(w) ==
  /\ w \in MayCrash /\ pc[w] \in {"serve", "close"}
  /\ Goto(w, IF Supervised THEN "crashed" ELSE "dead")
  /\ garbage' = garbage \cup Hands(w)
  /\ held' = [held EXCEPT ![w] = <<>>]
  /\ UNCHANGED <<fused, clientVars, queueVars, respVars, slotVars, mainVars>>

\* mutant: RequestCtx has no Drop of its own
CollectSilently(r) ==
  /\ r \in garbage
  /\ garbage' = garbage \ {r}
  /\ UNCHANGED <<clientVars, queueVars, respVars, slotVars, workerVars, mainVars>>

\* GC of an abandoned handle: RequestCtx::drop is the backstop.
Collect(r) ==
  /\ r \in garbage
  /\ garbage' = garbage \ {r}
  /\ Claim({r}, "error")
  /\ UNCHANGED <<clientVars, queueVars, slotVars, workerVars, mainVars>>

-----------------------------------------------------------------------------
(* The supervisor and the pool scaler                                      *)

\* mutant: the list is emptied, nobody is answered
AbortSlotClears(w) ==
  /\ current' = [current EXCEPT ![w] = {}]
  /\ UNCHANGED respVars

\* abort_slot: answer everything on the slot's list.
AbortSlot(w) ==
  /\ Claim(current[w], "error")
  /\ current' = [current EXCEPT ![w] = {}]

\* Ractor#value raised: abort_inflight on the dead worker's slot.
AbortInflight(w) ==
  /\ pc[w] = "crashed"
  /\ AbortSlot(w)
  /\ Goto(w, "aborted")
  /\ UNCHANGED <<clientVars, queueVars, interrupted, retired, served, held, fused, garbage, mainVars>>

\* Then respawn on a fresh slot, unless the supervisor is draining.
Draining == phase \notin {"running", "draining", "sampled", "closing"}

Respawn(w) ==
  /\ pc[w] = "aborted"
  /\ \/ /\ Draining
        /\ Goto(w, "dead")
     \/ /\ ~Draining
        /\ \E v \in Workers :
             /\ pc[v] = "unborn"
             /\ pc' = [pc EXCEPT ![w] = "dead", ![v] = "checkout"]
  /\ UNCHANGED <<clientVars, queueVars, respVars, slotVars, held, fused, garbage, mainVars>>

\* Workers that are staying: the pool's active_count.  The threaded pool
\* never notices a dead thread, so its group keeps counting.
Staying == {w \in Workers : /\ pc[w] \notin {"unborn", "exited"}
                            /\ Supervised => pc[w] # "dead"
                            /\ ~retired[w]}

\* The scaler sends one home, never the last (its floor is at least one).
Retire(w) ==
  /\ Elastic /\ phase = "running"
  /\ w \in Staying /\ Staying # {w}
  /\ retired' = [retired EXCEPT ![w] = TRUE]
  /\ UNCHANGED <<clientVars, queueVars, respVars, current, interrupted, served, workerVars, garbage, mainVars>>

-----------------------------------------------------------------------------
(* Server#shutdown, on the main thread                                     *)

StopAccepting ==
  /\ ShutsDown /\ phase = "running"
  /\ phase' = "draining"
  /\ UNCHANGED <<clientVars, queueVars, respVars, slotVars, workerVars, garbage, late, toAbort>>

\* The drain deadline passes.
Deadline ==
  /\ phase \in {"draining", "sampled", "closing", "joining"} /\ ~late
  /\ late' = TRUE
  /\ UNCHANGED <<clientVars, queueVars, respVars, slotVars, workerVars, garbage, phase, toAbort>>

\* queue_stats reads the queue's length first and in_flight after it; new
\* requests may arrive on live connections in between and afterwards.
SampleQueued ==
  /\ phase = "draining" /\ ~late
  /\ Queued = 0
  /\ phase' = "sampled"
  /\ UNCHANGED <<clientVars, queueVars, respVars, slotVars, workerVars, garbage, late, toAbort>>

SampleInFlight ==
  /\ phase = "sampled"
  /\ phase' = IF inFlight = 0 THEN "closing" ELSE "draining"
  /\ UNCHANGED <<clientVars, queueVars, respVars, slotVars, workerVars, garbage, late, toAbort>>

DrainDeadline ==
  /\ phase = "draining" /\ late
  /\ phase' = "closing"
  /\ UNCHANGED <<clientVars, queueVars, respVars, slotVars, workerVars, garbage, late, toAbort>>

\* close_queue takes the sender out of the server; clones keep it open.
CloseQueue ==
  /\ phase = "closing"
  /\ open' = FALSE
  /\ phase' = "joining"
  /\ UNCHANGED <<clientVars, line, respVars, slotVars, workerVars, garbage, late, toAbort>>

WorkersDone == \A w \in Workers : pc[w] \in {"unborn", "exited", "dead"}

\* mutant: join without the deadline
JoinWorkersForever ==
  /\ phase = "joining" /\ WorkersDone
  /\ phase' = "teardown"
  /\ UNCHANGED <<clientVars, queueVars, respVars, slotVars, workerVars, garbage, late, toAbort>>

\* join_workers and the workers_done? check behind it.
JoinWorkers ==
  /\ phase = "joining"
  /\ \/ /\ WorkersDone
        /\ phase' = "teardown"
        /\ UNCHANGED toAbort
     \/ /\ ~WorkersDone /\ late
        /\ phase' = "aborting"
        /\ toAbort' = {w \in Workers : pc[w] # "unborn"}
  /\ UNCHANGED <<clientVars, queueVars, respVars, slotVars, workerVars, garbage, late>>

\* abort_all_inflight, slot by slot.
AbortNext ==
  /\ phase = "aborting"
  /\ \/ \E w \in toAbort :
          /\ AbortSlot(w)
          /\ toAbort' = toAbort \ {w}
          /\ UNCHANGED phase
     \/ /\ toAbort = {}
        /\ phase' = "interrupting"
        /\ UNCHANGED <<respVars, current, toAbort>>
  /\ UNCHANGED <<clientVars, queueVars, interrupted, retired, served, workerVars, garbage, late>>

\* interrupt_all_workers.
InterruptAll ==
  /\ phase = "interrupting"
  /\ interrupted' = [w \in Workers |-> interrupted[w] \/ pc[w] # "unborn"]
  /\ phase' = "reaping"
  /\ UNCHANGED <<clientVars, queueVars, respVars, current, retired, served, workerVars, garbage, late, toAbort>>

\* The last 0.2 s are over: threads still alive are killed, ractors leak.
KillStragglers ==
  /\ phase = "reaping"
  /\ phase' = "teardown"
  /\ IF Supervised
     THEN UNCHANGED <<workerVars, garbage>>
     ELSE /\ pc' = [w \in Workers |-> IF pc[w] \in {"unborn", "exited", "dead"}
                                      THEN pc[w] ELSE "dead"]
          /\ garbage' = garbage \cup UNION {Hands(w) : w \in Workers}
          /\ held' = [w \in Workers |-> <<>>]
          /\ UNCHANGED fused
  /\ UNCHANGED <<clientVars, queueVars, respVars, slotVars, late, toAbort>>

\* shutdown_runtime: every task is dropped at its next await.
ShutdownRuntime ==
  /\ phase = "teardown"
  /\ \A r \in Requests : future[r] \notin {"cloned", "expired"}
  /\ phase' = "stopped"
  /\ future' = [r \in Requests |->
                  IF future[r] \in {"idle", "done", "gone"} THEN future[r] ELSE "cut"]
  /\ inFlight' = 0
  /\ line' = SubSeq(line, 1, Queued)
  /\ Claim({r \in Requests : Blocked(r)}, "error")
  /\ UNCHANGED <<answer, open, slotVars, workerVars, garbage, late, toAbort>>

-----------------------------------------------------------------------------
Init ==
  /\ future = [r \in Requests |-> "idle"]
  /\ answer = [r \in Requests |-> "none"]
  /\ inFlight = 0
  /\ line = <<>> /\ open = TRUE
  /\ responded = [r \in Requests |-> FALSE]
  /\ head = [r \in Requests |-> "empty"]
  /\ pc = [w \in Workers |-> IF w \in Booted THEN "checkout" ELSE "unborn"]
  /\ held = [w \in Workers |-> <<>>]
  /\ fused = [w \in Workers |-> FALSE]
  /\ current = [w \in Workers |-> {}]
  /\ interrupted = [w \in Workers |-> FALSE]
  /\ retired = [w \in Workers |-> FALSE]
  /\ served = [r \in Requests |-> 0]
  /\ garbage = {}
  /\ phase = "running" /\ late = FALSE /\ toAbort = {}

Client(r) == Arrive(r) \/ ArriveOversize(r) \/ ClientAbort(r)

FrontStep(r) == Send(r) \/ SendCompletes(r) \/ QueueTimerFires(r) \/ QueueTimeout(r)
              \/ HeadArrives(r) \/ HeadTimeout(r)

TakeStep(w) == Checkout(w) \/ TryReceive(w) \/ WaitTick(w) \/ Admit(w) \/ Fill(w)

ServeStep(w) == CloseBody(w) \/ CloseBodyRaises(w) \/ RespondFused(w) \/ Respond(w)
                  \/ AppRaises(w)

Supervise(w) == AbortInflight(w) \/ Respawn(w)

Drain == SampleQueued \/ SampleInFlight \/ DrainDeadline \/ CloseQueue \/ JoinWorkers \/ AbortNext
           \/ InterruptAll \/ KillStragglers \/ ShutdownRuntime

Next ==
  \/ \E r \in Requests : Client(r) \/ FrontStep(r) \/ Written(r) \/ Collect(r)
  \/ \E w \in Workers : TakeStep(w) \/ ServeStep(w) \/ Crash(w) \/ Supervise(w) \/ Retire(w)
  \/ StopAccepting \/ Deadline \/ Drain

Spec == Init /\ [][Next]_vars

-----------------------------------------------------------------------------
(* Fairness.  tokio keeps polling ready futures, the Ruby VM keeps         *)
(* scheduling worker, supervisor and main threads, and a written socket    *)
(* accepts bytes or fails.  Nothing makes a client send, a timer fire, a   *)
(* worker crash, the garbage collector run or the scaler retire, and an    *)
(* app call in MayHang owes no return.                                     *)

FrontFair == \A r \in Requests :
  /\ WF_vars(Send(r)) /\ WF_vars(SendCompletes(r)) /\ WF_vars(QueueTimeout(r))
  /\ WF_vars(HeadArrives(r)) /\ WF_vars(Written(r))

TakeFair == \A w \in Workers : WF_vars(TakeStep(w)) /\ WF_vars(Supervise(w))

AppFair == \A w \in Workers \ MayHang : WF_vars(ServeStep(w))

MainFair == WF_vars(Deadline) /\ WF_vars(Drain)

LiveSpec == Spec /\ FrontFair /\ TakeFair /\ AppFair /\ MainFair

-----------------------------------------------------------------------------
(* Properties                                                              *)

\* Every variable keeps its shape.
TypeOK ==
  /\ future \in [Requests -> FutureStates]
  /\ answer \in [Requests -> Answers]
  /\ inFlight \in Int
  /\ line \in Seq(Requests) /\ open \in BOOLEAN
  /\ responded \in [Requests -> BOOLEAN]
  /\ head \in [Requests -> {"empty", "app", "error"}]
  /\ pc \in [Workers -> PcStates]
  /\ held \in [Workers -> Seq(Requests)]
  /\ fused \in [Workers -> BOOLEAN]
  /\ current \in [Workers -> SUBSET Requests]
  /\ interrupted \in [Workers -> BOOLEAN]
  /\ retired \in [Workers -> BOOLEAN]
  /\ served \in [Requests -> Nat]
  /\ garbage \subseteq Requests
  /\ phase \in Phases /\ late \in BOOLEAN /\ toAbort \subseteq Workers

\* A request context has one owner: it sits in the channel once, or in one
\* worker's hands once, or is abandoned to the collector.  (A context moved
\* twice through the MPMC queue would be served, and answered, twice.)
OwnedOnce ==
  /\ IsInjective(line) /\ \A w \in Workers : IsInjective(held[w])
  /\ ToSet(line) \cap garbage = {}
  /\ \A w \in Workers : Hands(w) \cap (ToSet(line) \cup garbage) = {}
  /\ \A v, w \in Workers : v # w => Hands(v) \cap Hands(w) = {}

\* No client is left waiting on a oneshot nobody can complete: while a
\* request is unanswered, its context is queued, in a worker's hands, or
\* waiting for its Drop; once claimed, the head has been sent.
Answerable ==
  \A r \in Requests :
    /\ future[r] \in {"sending", "expired", "awaiting"} /\ ~responded[r] =>
         InLine(r) \/ r \in garbage \/ \E w \in Workers : r \in Hands(w)
    /\ responded[r] => head[r] # "empty"

\* The supervisor can always find what a worker is serving: every
\* unanswered request a worker has admitted and still holds is on its
\* slot's list, whoever aborts slots or takes batches meanwhile.
ListedWhileHeld ==
  \A w \in Workers : \A r \in Hands(w) :
    ~responded[r] /\ ~(pc[w] = "admit" /\ r = Last(held[w])) => r \in current[w]

\* A request that has not been sent yet is nowhere on the Ruby side.
UnsentNowhere ==
  \A r \in Requests : future[r] \in {"idle", "cloned"} =>
    r \notin ToSet(line) \cup garbage /\ \A w \in Workers : r \notin Hands(w)

\* A worker has requests in its hands exactly while it is between a
\* successful receive and the end of its batch.
HandsMatchPc ==
  \A w \in Workers :
    /\ pc[w] \in {"admit", "fill", "serve"} => held[w] # <<>>
    /\ pc[w] \in {"unborn", "checkout", "take", "wait", "exited", "crashed",
                  "aborted", "dead"} => held[w] = <<>>

\* The inductive invariant behind OwnedOnce, Answerable and ListedWhileHeld.
Ownership ==
  TypeOK /\ OwnedOnce /\ UnsentNowhere /\ HandsMatchPc /\ Answerable /\ ListedWhileHeld

\* queue.rs:191: when a worker comes back for more, everything on its list
\* has been answered, so clearing the list forgets no client.
BatchAnsweredAtCheckout ==
  \A w \in Workers : pc[w] = "checkout" => \A r \in current[w] : responded[r]

\* architecture.md: a crashed worker's clients are answered by the
\* supervisor, not when the collector gets around to them.
NoClientWaitsForGC ==
  (\A w \in Workers : pc[w] # "crashed") => \A r \in garbage : responded[r]

\* The in_flight gauge that the drain waits on counts exactly the requests
\* whose future is still running, through timeouts, aborts and rejections.
InFlightExact ==
  inFlight = Cardinality({r \in Requests :
    future[r] \in {"cloned", "sending", "expired", "awaiting"}})

\* A graceful shutdown that met its deadline leaves nothing in the queue:
\* workers only leave a closed queue once no sender can still fill it.
NothingLeftBehind ==
  phase \in {"teardown", "stopped"} /\ ~late /\ (\A w \in Workers : pc[w] # "dead") =>
    line = <<>>

\* A request's stage in RequestPromise.
Stage ==
  [r \in Requests |->
     CASE future[r] = "idle" -> "new"
       [] future[r] \in {"cloned", "sending", "expired", "awaiting"} -> "pending"
       [] future[r] \in {"writing", "done"} -> "answered"
       [] OTHER -> "lost"]

Promise == INSTANCE RequestPromise WITH stage <- Stage, reply <- answer, runs <- served

\* The queue path keeps the promise of RequestPromise.
KeepsPromise == Promise!Spec

\* w is inside an app call that may never return.
Hung(w) == w \in MayHang /\ pc[w] \in {"serve", "close"}

\* Supervised crashes lose nobody and a hung app costs only what its worker
\* holds: every request a client sends is settled (response written, client
\* gone, connection cut) unless it stays in a hung worker's hands for ever,
\* or no worker is left that is not hung.
EveryRequestSettles ==
  \A r \in Requests : future[r] = "cloned" ~>
    \/ future[r] \in {"done", "gone", "cut"}
    \/ [](\E w \in Workers : Hung(w) /\ r \in Hands(w))
    \/ [](\A w \in Workers : Hung(w) \/ pc[w] \in {"unborn", "exited", "dead"})

\* Server#shutdown returns even when app calls hang for ever.
ShutdownReturns == phase = "draining" ~> phase = "stopped"

\* A hung app holds only its own worker: closing the queue releases every
\* worker that is not inside an app call.
CloseReleasesWorkers ==
  \A w \in Workers : phase = "joining" ~>
    pc[w] \in {"unborn", "exited", "dead", "serve", "close"}
=============================================================================
