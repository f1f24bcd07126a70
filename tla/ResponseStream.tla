--------------------------- MODULE ResponseStream ---------------------------
(***************************************************************************)
(* One request's response: the Responder that the worker, the supervisor,  *)
(* Server#shutdown and the handle's Drop race for, and the bounded frame   *)
(* channel behind a streaming body.  Components: Worker.serve and          *)
(* deliver_streaming (the app's side), respond_500_if_unsent (up to four   *)
(* callers), handle_request's wait for the head, hyper pulling frames at   *)
(* the client's pace, and the escalation of Server#shutdown.               *)
(***************************************************************************)
EXTENDS Integers, Sequences, SequencesExt

CONSTANTS
  Kinds,          \* body shapes the app may return: "simple", "each", "call"
  Chunks,         \* chunks a streaming body writes
  StreamBuffer,   \* STREAM_BUFFER: capacity of the frame channel
  MayRaise,       \* TRUE when the app or its body may raise a StandardError
  MayCrash,       \* TRUE when it may raise anything else
  Modes,          \* worker modes of the server: "ractor", "threaded"
  RequestTimeout, \* TRUE when request_timeout is set
  ShutsDown       \* TRUE when Server#shutdown reaches its escalation

ASSUME StreamAssumption ==
  /\ Kinds \subseteq {"simple", "each", "call"} /\ Kinds # {}
  /\ Modes \subseteq {"ractor", "threaded"} /\ Modes # {}
  /\ Chunks \in Nat /\ StreamBuffer \in Nat \ {0}
  /\ {MayRaise, MayCrash, RequestTimeout, ShutsDown} \subseteq BOOLEAN

\* in the frame channel, next to the numbers of the chunks
ErrorFrame == 0

VARIABLES
  mode,        \* the server's worker mode, fixed at boot
  kind,        \* the shape of this response's body
  responded,   \* Responder::responded
  head,        \* the oneshot: "open", "claimed", "simple", "stream", "500" or "dropped"
  bodyTx,      \* Responder::body_tx holds a sender
  lock,        \* who holds the body_tx mutex across a blocking send
  frames,      \* the frame channel
  rx,          \* its receiver: "unmade", "held" or "gone"
  app,         \* where Worker.serve stands
  next,        \* the chunk the body writes next
  ended,       \* how the body ended
  abort,       \* each caller's progress in respond_500_if_unsent
  interrupted, \* WorkerSlot::interrupted
  client,      \* what the client sees
  status,      \* the status line it got
  got,         \* the chunks it got
  phase        \* Server#shutdown: "running", "aborting", "interrupting", "reaping", "stopped"

respVars   == <<responded, head>>
chanVars   == <<bodyTx, lock, frames, rx>>
appVars    == <<mode, kind, app, next, ended>>
clientVars == <<client, status, got>>
vars == <<respVars, chanVars, appVars, abort, interrupted, clientVars, phase>>

Parties == {"app", "supervisor", "main", "drop"}
AbortStates == {"idle", "claim", "take", "send", "done"}
AppStates == {"call", "claimed", "opened", "body", "write", "unwind", "rescue",
              "served", "dead"}

\* who still holds a sender: the responder, a write_chunk with its clone, an
\* aborter that took it
Senders == bodyTx \/ app = "write" \/ \E p \in Parties : abort[p] = "send"

-----------------------------------------------------------------------------
(* Worker.serve                                                            *)

Returns == app' = "served" /\ ended' = IF ended = "none" THEN "finished" ELSE ended

\* the handler raised: an `each` body is closed and serve's rescue aborts; a
\* `call` body's ensure closes the stream first
Raises(how) == app' = (IF kind = "call" /\ app \in {"body", "write"} THEN "unwind" ELSE "rescue")
               /\ ended' = how

\* A complete body: respond_simple, which loses quietly to an earlier claim.
RespondSimple ==
  /\ app = "call" /\ kind = "simple"
  /\ responded' = TRUE
  /\ head' = IF responded THEN head ELSE "simple"
  /\ Returns
  /\ UNCHANGED <<mode, kind, next, chanVars, abort, interrupted, clientVars, phase>>

\* send_stream_head claims; the loser goes on to a stream that is not there.
StreamClaim ==
  /\ app = "call" /\ kind # "simple"
  /\ app' = IF responded THEN "body" ELSE "claimed"
  /\ head' = IF responded THEN head ELSE "claimed"
  /\ responded' = TRUE
  /\ UNCHANGED <<mode, kind, next, ended, chanVars, abort, interrupted, clientVars, phase>>

\* mutant: an invalid head keeps the claimed sender
StreamOpenLeak ==
  /\ app = "claimed" /\ lock = "free"
  /\ \/ bodyTx' = TRUE /\ rx' = "held" /\ app' = "opened" /\ UNCHANGED <<head, ended>>
     \/ MayRaise /\ Raises("raised") /\ UNCHANGED <<head, bodyTx, rx>>
  /\ UNCHANGED <<responded, mode, kind, next, lock, frames, abort, interrupted, clientVars, phase>>

\* The channel is built and stored, unless a header turns out invalid: then
\* the claimed sender is dropped and send_headers raises.
StreamOpen ==
  /\ app = "claimed" /\ lock = "free"
  /\ \/ bodyTx' = TRUE /\ rx' = "held" /\ app' = "opened" /\ UNCHANGED <<head, ended>>
     \/ MayRaise /\ head' = "dropped" /\ Raises("raised") /\ UNCHANGED <<bodyTx, rx>>
  /\ UNCHANGED <<responded, mode, kind, next, lock, frames, abort, interrupted, clientVars, phase>>

\* The head goes out; with nobody waiting for it the receiver goes with it.
StreamHead ==
  /\ app = "opened"
  /\ head' = "stream"
  /\ rx' = IF client = "waiting" THEN rx ELSE "gone"
  /\ app' = "body"
  /\ UNCHANGED <<responded, mode, kind, next, ended, bodyTx, lock, frames, abort, interrupted, clientVars, phase>>

\* write_chunk clones the sender, or raises when there is no stream.
WriteBegin ==
  /\ app = "body" /\ next <= Chunks /\ lock = "free"
  /\ IF bodyTx THEN app' = "write" /\ UNCHANGED ended ELSE Raises("raised")
  /\ UNCHANGED <<mode, kind, next, respVars, chanVars, abort, interrupted, clientVars, phase>>

Wrote == app' = "body" /\ next' = next + 1 /\ UNCHANGED ended

\* mutant: a receiver that is gone counts as a full channel
WriteTickDeaf ==
  /\ app = "write"
  /\ \/ interrupted /\ Raises("interrupted") /\ UNCHANGED <<frames, next>>
     \/ ~interrupted /\ rx = "held" /\ Len(frames) < StreamBuffer /\ Wrote /\ frames' = Append(frames, next)
  /\ UNCHANGED <<mode, kind, respVars, bodyTx, lock, rx, abort, interrupted, clientVars, phase>>

\* One tick of send_timeout: the flag first; a gone client swallows chunks.
WriteTick ==
  /\ app = "write"
  /\ \/ interrupted /\ Raises("interrupted") /\ UNCHANGED <<frames, next>>
     \/ ~interrupted /\ rx = "gone" /\ Wrote /\ UNCHANGED frames
     \/ ~interrupted /\ rx = "held" /\ Len(frames) < StreamBuffer /\ Wrote /\ frames' = Append(frames, next)
  /\ UNCHANGED <<mode, kind, respVars, bodyTx, lock, rx, abort, interrupted, clientVars, phase>>

\* The app, or its body between two chunks, raises.
AppRaises ==
  /\ MayRaise /\ app \in {"call", "body"} /\ (app = "body" => next <= Chunks)
  /\ Raises("raised")
  /\ UNCHANGED <<mode, kind, next, respVars, chanVars, abort, interrupted, clientVars, phase>>

\* The body is through: finish_stream.
Finish ==
  /\ app = "body" /\ next > Chunks /\ lock = "free"
  /\ bodyTx' = FALSE
  /\ Returns
  /\ UNCHANGED <<mode, kind, next, respVars, lock, frames, rx, abort, interrupted, clientVars, phase>>

\* ensure stream.close, on the way out of a `call` body that raised
Unwind ==
  /\ app = "unwind" /\ lock = "free"
  /\ bodyTx' = FALSE
  /\ app' = IF ended \in {"crashed", "killed"} THEN "dead" ELSE "rescue"
  /\ UNCHANGED <<mode, kind, next, ended, respVars, lock, frames, rx, abort, interrupted, clientVars, phase>>

\* serve's rescue: request.abort, then the worker goes on.
Rescue ==
  /\ app = "rescue"
  /\ \/ abort["app"] = "idle" /\ abort' = [abort EXCEPT !["app"] = "claim"] /\ UNCHANGED app
     \/ abort["app"] = "done" /\ app' = "served" /\ UNCHANGED abort
  /\ UNCHANGED <<mode, kind, next, ended, respVars, chanVars, interrupted, clientVars, phase>>

Dies(how) ==
  /\ app \in {"call", "body", "write"}
  /\ app' = IF kind = "call" /\ app # "call" THEN "unwind" ELSE "dead"
  /\ ended' = how
  /\ UNCHANGED <<mode, kind, next, respVars, chanVars, abort, interrupted, clientVars, phase>>

\* A hard crash passes every rescue; only the ensures run.
Crash == MayCrash /\ app \in {"call", "body"} /\ Dies("crashed")

\* kill_stragglers (threaded mode): Thread#kill, which runs the ensures too.
Kill == phase = "reaping" /\ mode = "threaded" /\ Dies("killed")

-----------------------------------------------------------------------------
(* respond_500_if_unsent                                                   *)

\* Claim the head and answer 500; with the head gone, look for a stream.
AbortClaim(p) ==
  /\ abort[p] = "claim"
  /\ IF responded
     THEN abort' = [abort EXCEPT ![p] = "take"] /\ UNCHANGED respVars
     ELSE /\ responded' = TRUE /\ head' = "500"
          /\ abort' = [abort EXCEPT ![p] = "done"]
  /\ UNCHANGED <<chanVars, appVars, interrupted, clientVars, phase>>

\* The mutex guard lives as long as the `if let`: over the send.
AbortTake(p) ==
  /\ abort[p] = "take" /\ lock = "free"
  /\ IF bodyTx
     THEN /\ bodyTx' = FALSE /\ lock' = p
          /\ abort' = [abort EXCEPT ![p] = "send"]
     ELSE abort' = [abort EXCEPT ![p] = "done"] /\ UNCHANGED <<bodyTx, lock>>
  /\ UNCHANGED <<respVars, frames, rx, appVars, interrupted, clientVars, phase>>

\* mutant: the sender is dropped, no error frame
AbortSendSkipped(p) ==
  /\ abort[p] = "send"
  /\ lock' = "free"
  /\ abort' = [abort EXCEPT ![p] = "done"]
  /\ UNCHANGED <<respVars, bodyTx, frames, rx, appVars, interrupted, clientVars, phase>>

\* mutant: only room in the channel ends the wait
AbortSendDeaf(p) ==
  /\ abort[p] = "send"
  /\ Len(frames) < StreamBuffer /\ frames' = Append(frames, ErrorFrame)
  /\ lock' = "free"
  /\ abort' = [abort EXCEPT ![p] = "done"]
  /\ UNCHANGED <<respVars, bodyTx, rx, appVars, interrupted, clientVars, phase>>

\* A blocking send: it waits for room, or for the receiver to go.
AbortSend(p) ==
  /\ abort[p] = "send"
  /\ \/ rx = "gone" /\ UNCHANGED frames
     \/ rx = "held" /\ Len(frames) < StreamBuffer /\ frames' = Append(frames, ErrorFrame)
  /\ lock' = "free"
  /\ abort' = [abort EXCEPT ![p] = "done"]
  /\ UNCHANGED <<respVars, bodyTx, rx, appVars, interrupted, clientVars, phase>>

\* The supervisor of a dead ractor, or nobody in threaded mode.
Supervise ==
  /\ mode = "ractor" /\ app = "dead" /\ abort["supervisor"] = "idle"
  /\ abort' = [abort EXCEPT !["supervisor"] = "claim"]
  /\ UNCHANGED <<respVars, chanVars, appVars, interrupted, clientVars, phase>>

\* mutant: a collected handle does not fire the backstop
CollectSilently ==
  /\ app \in {"served", "dead"} /\ abort["drop"] = "idle"
  /\ abort' = [abort EXCEPT !["drop"] = "done"]
  /\ UNCHANGED <<respVars, chanVars, appVars, interrupted, clientVars, phase>>

\* The handle is unreachable: the garbage collector drops the RequestCtx.
Collect ==
  /\ app \in {"served", "dead"} /\ abort["drop"] = "idle"
  /\ abort' = [abort EXCEPT !["drop"] = "claim"]
  /\ UNCHANGED <<respVars, chanVars, appVars, interrupted, clientVars, phase>>

-----------------------------------------------------------------------------
(* handle_request, hyper and the client                                    *)

\* hyper is done with a response: its body, if any, is dropped
Ends(how) ==
  /\ client' = how
  /\ rx' = IF rx = "held" /\ head = "stream" THEN "gone" ELSE rx
  /\ UNCHANGED <<respVars, bodyTx, lock, frames, appVars, abort, interrupted, phase>>

\* The head oneshot resolves, a dropped sender as a 500.
HeadArrives ==
  /\ client = "waiting" /\ head \notin {"open", "claimed"}
  /\ status' = IF head \in {"simple", "stream"} THEN "app" ELSE "500"
  /\ client' = IF head = "stream" THEN "reading" ELSE "complete"
  /\ UNCHANGED <<got, respVars, chanVars, appVars, abort, interrupted, phase>>

\* request_timeout: 504, and whatever the app sends later is dropped.
HeadTimeout ==
  /\ RequestTimeout /\ client = "waiting"
  /\ status' = "504"
  /\ Ends("complete")
  /\ UNCHANGED got

\* The client takes a frame; an error frame makes hyper cut the connection.
Pull ==
  /\ client = "reading" /\ frames # <<>>
  /\ frames' = Tail(frames)
  /\ IF Head(frames) = ErrorFrame
     THEN client' = "failed" /\ rx' = "gone" /\ UNCHANGED got
     ELSE got' = Append(got, Head(frames)) /\ UNCHANGED <<client, rx>>
  /\ UNCHANGED <<status, respVars, bodyTx, lock, appVars, abort, interrupted, phase>>

\* Drained and no sender left: hyper ends the body cleanly.
StreamEnds ==
  /\ client = "reading" /\ frames = <<>> /\ ~Senders
  /\ Ends("complete")
  /\ UNCHANGED <<status, got>>

ClientLeaves ==
  /\ client \in {"waiting", "reading"}
  /\ Ends("gone")
  /\ UNCHANGED <<status, got>>

-----------------------------------------------------------------------------
(* Server#shutdown past its deadline                                       *)

GoTo(p) == phase' = p /\ UNCHANGED <<respVars, chanVars, appVars, clientVars>>

\* abort_all_inflight finds the request on its slot's list, or upgrades
\* nothing when the worker is through with it.
StartAbort ==
  /\ ShutsDown /\ phase = "running"
  /\ abort' = [abort EXCEPT !["main"] = IF app = "served" THEN "done" ELSE "claim"]
  /\ GoTo("aborting") /\ UNCHANGED interrupted

AbortedAll ==
  /\ phase = "aborting" /\ abort["main"] = "done"
  /\ GoTo("interrupting") /\ UNCHANGED <<abort, interrupted>>

InterruptAll ==
  /\ phase = "interrupting"
  /\ interrupted' = TRUE
  /\ GoTo("reaping") /\ UNCHANGED abort

\* shutdown_runtime drops the connections.
Teardown ==
  /\ phase = "reaping"
  /\ phase' = "stopped"
  /\ client' = IF client \in {"waiting", "reading"} THEN "gone" ELSE client
  /\ rx' = IF rx = "held" /\ head = "stream" THEN "gone" ELSE rx
  /\ UNCHANGED <<respVars, bodyTx, lock, frames, appVars, abort, interrupted, status, got>>

-----------------------------------------------------------------------------
Init ==
  /\ mode \in Modes /\ kind \in Kinds
  /\ responded = FALSE /\ head = "open"
  /\ bodyTx = FALSE /\ lock = "free" /\ frames = <<>> /\ rx = "unmade"
  /\ app = "call" /\ next = 1 /\ ended = "none"
  /\ abort = [p \in Parties |-> "idle"] /\ interrupted = FALSE
  /\ client = "waiting" /\ status = "none" /\ got = <<>>
  /\ phase = "running"

Work == RespondSimple \/ StreamClaim \/ StreamOpen \/ StreamHead \/ WriteBegin \/ WriteTick
        \/ Finish \/ Unwind \/ Rescue

Abort(p) == AbortClaim(p) \/ AbortTake(p) \/ AbortSend(p)

Hyper == HeadArrives \/ Pull \/ StreamEnds

Main == AbortedAll \/ InterruptAll \/ Teardown

Next ==
  \/ Work \/ AppRaises \/ Crash \/ Kill
  \/ \E p \in Parties : Abort(p)
  \/ Supervise \/ Collect
  \/ Hyper \/ HeadTimeout \/ ClientLeaves
  \/ StartAbort \/ Main

Spec == Init /\ [][Next]_vars

\* The app's calls return, supervisors and shutdown run, tokio polls.  The
\* garbage collector owes nothing, and a client may stop reading for ever.
StalledSpec ==
  /\ Spec /\ WF_vars(Work) /\ WF_vars(Supervise) /\ WF_vars(Main) /\ WF_vars(HeadArrives)
  /\ \A p \in Parties : WF_vars(Abort(p))

\* ... and here it keeps reading until it leaves.
ReadingSpec == StalledSpec /\ WF_vars(Pull) /\ WF_vars(StreamEnds)

-----------------------------------------------------------------------------
(* Properties                                                              *)

\* Every variable keeps its shape; the channel never holds more than
\* STREAM_BUFFER frames.
TypeOK ==
  /\ mode \in Modes /\ kind \in Kinds /\ responded \in BOOLEAN
  /\ head \in {"open", "claimed", "simple", "stream", "500", "dropped"}
  /\ bodyTx \in BOOLEAN /\ lock \in Parties \cup {"free"}
  /\ Len(frames) <= StreamBuffer /\ ToSet(frames) \subseteq (1..Chunks) \cup {ErrorFrame}
  /\ rx \in {"unmade", "held", "gone"}
  /\ app \in AppStates /\ next \in 1..(Chunks + 1)
  /\ ended \in {"none", "finished", "raised", "interrupted", "crashed", "killed"}
  /\ abort \in [Parties -> AbortStates] /\ interrupted \in BOOLEAN
  /\ client \in {"waiting", "reading", "complete", "failed", "gone"}
  /\ status \in {"none", "app", "500", "504"} /\ got \in Seq(1..Chunks)
  /\ phase \in {"running", "aborting", "interrupting", "reaping", "stopped"}

\* worker.rb:134-136, response.rs:119-122, CHANGELOG.md:210-212: a client
\* never takes a truncated stream for a complete one.  A stream that ends
\* cleanly carried every chunk of a body that ran to its end.
CleanEndIsComplete ==
  client = "complete" /\ status = "app" /\ kind # "simple" =>
    ended = "finished" /\ got = [i \in 1..Chunks |-> i]

\* The same of `each` bodies alone, whose sender only finish and the abort
\* paths let go of.
EachEndsComplete == kind = "each" => CleanEndIsComplete

\* The universal backstop (request.rs:81-84): with the handle dropped, the
\* head is out or dropped and no stream is left open, whoever lost a race.
BackstopLeavesNothing ==
  /\ TypeOK
  /\ abort["drop"] = "done" => head \notin {"open", "claimed"} /\ ~bodyTx

\* As long as the app's calls return and the client reads or leaves, the
\* client's exchange ends: a response, a cut connection, or it left.  Only
\* in threaded mode may the handle of a crashed worker, which no
\* supervisor aborts, wait for the collector.
EveryExchangeEnds ==
  client = "waiting" ~>
    \/ client \in {"complete", "failed", "gone"}
    \/ mode = "threaded" /\ ended = "crashed" /\ abort["drop"] = "idle"

\* A worker is not held by a client that went away (request.rs:431-436).
WorkerReleased == client = "gone" ~> app \in {"served", "dead"}

\* server.rb:199-202: shutdown always returns by about its deadline.
ShutdownReturns == phase = "aborting" ~> phase = "stopped"
=============================================================================
