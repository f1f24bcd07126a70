---------------------------- MODULE RequestBody ----------------------------
(***************************************************************************)
(* One request's body on its way in: hyper yields DATA frames, a forwarder *)
(* task caps and pushes them into a bounded channel, build_env decides     *)
(* which rack.input the app gets, and the app reads through Kino::Input    *)
(* (buffer, end of file) over Request#read_body (leftover, blocking        *)
(* receive, greedy drain).  The client may finish, break off or fall       *)
(* silent; the worker may be interrupted, the handle dropped.              *)
(*                                                                         *)
(* A byte is its position in the body, a chunk a sequence of bytes.        *)
(***************************************************************************)
EXTENDS Integers, Sequences, SequencesExt

CONSTANTS
  MaxSize,     \* bound on the length of the client's body
  FrameMax,    \* the longest frame hyper yields
  Limits,      \* values of max_body_size, 0 for none
  BodyBuffer,  \* capacity of the body channel
  ChunkSize,   \* Input::CHUNK_SIZE, the max_len of every read_body
  Lengths,     \* lengths the app asks Input#read for
  Newlines     \* positions that hold a newline

ASSUME BodyAssumption ==
  /\ MaxSize \in Nat /\ FrameMax \in Nat \ {0} /\ Limits \subseteq Nat /\ Limits # {}
  /\ BodyBuffer \in Nat \ {0} /\ ChunkSize \in Nat \ {0}
  /\ Lengths \subseteq Nat /\ Newlines \subseteq Nat

\* Input#read without a length, and Input#gets, next to the lengths
All  == -1
Line == -2
Ops  == {All, Line} \cup Lengths

VARIABLES
  size,        \* the length of this client's body
  limit,       \* ServerInner::max_body_size
  wire,        \* the client's end of the body: "open", "ended", "failed", "silent"
  pulled,      \* the forwarder's `total`: bytes hyper has yielded
  fw,          \* the forwarder: "none", "pull", "send", "parked", "drop", "gone"
  frame,       \* the frame it is about to send
  abandoned,   \* Responder::body_abandoned
  chan,        \* the body channel, then the parked sender's frame
  rx,          \* its receiver is alive: the RequestCtx has not been dropped
  input,       \* rack.input: "unbuilt", "null" or "live"
  leftover,    \* RequestCtx::leftover
  reader,      \* the app's read: "idle", "fill", "recv", "split", "drain"
  op,          \* what it reads
  chunk,       \* what read_body has assembled
  buffer,      \* Input's @buffer
  eof,         \* Input's @eof
  got,         \* the bytes the app has been given
  told,        \* how reads have ended: "eof", "oversize", "timeout", "interrupted"
  interrupted  \* WorkerSlot::interrupted

wireVars == <<size, limit, wire>>
fwVars   == <<pulled, fw, frame, abandoned>>
readVars == <<leftover, reader, op, chunk, buffer, eof, got, told>>
vars == <<wireVars, fwVars, chan, rx, input, readVars, interrupted>>

Bytes(a, b) == [i \in 1..(b - a) |-> a + i]

-----------------------------------------------------------------------------
(* The forwarder                                                           *)

\* mutant: the frame that passes the cap only ends the loop
PullFrameUnflagged ==
  /\ fw = "pull" /\ wire = "open" /\ pulled < size
  /\ \E k \in 1..FrameMax :
       /\ pulled + k <= size
       /\ pulled' = pulled + k
       /\ IF limit > 0 /\ pulled' > limit
          THEN fw' = "drop" /\ UNCHANGED <<frame, abandoned>>
          ELSE fw' = "send" /\ frame' = Bytes(pulled, pulled') /\ UNCHANGED abandoned
  /\ UNCHANGED <<wireVars, chan, rx, input, readVars, interrupted>>

\* hyper yields a non-empty frame; the one that passes the cap abandons the body.
PullFrame ==
  /\ fw = "pull" /\ wire = "open" /\ pulled < size
  /\ \E k \in 1..FrameMax :
       /\ pulled + k <= size
       /\ pulled' = pulled + k
       /\ IF limit > 0 /\ pulled' > limit
          THEN fw' = "drop" /\ abandoned' = "oversize" /\ UNCHANGED frame
          ELSE fw' = "send" /\ frame' = Bytes(pulled, pulled') /\ UNCHANGED abandoned
  /\ UNCHANGED <<wireVars, chan, rx, input, readVars, interrupted>>

\* The body ends, breaks off (both plain breaks), or is silent for
\* BODY_READ_TIMEOUT, which abandons it.
PullEnds ==
  /\ fw = "pull" /\ wire = "open"
  /\ \/ wire' = "ended" /\ pulled = size /\ UNCHANGED abandoned
     \/ wire' = "failed" /\ UNCHANGED abandoned
     \/ wire' = "silent" /\ abandoned' = "timeout"
  /\ fw' = "drop"
  /\ UNCHANGED <<size, limit, pulled, frame, chan, rx, input, readVars, interrupted>>

\* mutant: a send without a receiver is tried for ever
SendFrameForever ==
  /\ fw = "send" /\ rx
  /\ chan' = Append(chan, frame)
  /\ fw' = IF Len(chan) < BodyBuffer THEN "pull" ELSE "parked"
  /\ UNCHANGED <<wireVars, pulled, frame, abandoned, rx, input, readVars, interrupted>>

\* send_async: into the channel, or parked behind it; without a receiver
\* the forwarder stops.
SendFrame ==
  /\ fw = "send"
  /\ IF rx THEN /\ chan' = Append(chan, frame)
                /\ fw' = IF Len(chan) < BodyBuffer THEN "pull" ELSE "parked"
           ELSE fw' = "drop" /\ UNCHANGED chan
  /\ UNCHANGED <<wireVars, pulled, frame, abandoned, rx, input, readVars, interrupted>>

\* A receive made room for the parked frame, or the receiver went.
SendResumes ==
  /\ fw = "parked"
  /\ fw' = IF ~rx THEN "drop" ELSE "pull"
  /\ rx => Len(chan) <= BodyBuffer
  /\ UNCHANGED <<wireVars, pulled, frame, abandoned, chan, rx, input, readVars, interrupted>>

\* The task ends and the sender goes with it: end of file for the reader.
ForwarderExits ==
  /\ fw = "drop"
  /\ fw' = "gone"
  /\ UNCHANGED <<wireVars, pulled, frame, abandoned, chan, rx, input, readVars, interrupted>>

Disconnected == fw = "gone"

-----------------------------------------------------------------------------
(* build_env, Input and read_body                                          *)

\* body_possible: no channel, or an empty one without a sender, is no body
BodyPossible == fw # "none" /\ ~(chan = <<>> /\ Disconnected)

\* The worker admits the request at any time after it was queued.
BuildEnv ==
  /\ input = "unbuilt" /\ rx
  /\ input' = IF BodyPossible THEN "live" ELSE "null"
  /\ UNCHANGED <<wireVars, fwVars, chan, rx, readVars, interrupted>>

\* NullInput is at end of file for ever: "" without a length, nil with one
\* (a length of zero says nothing).
NullRead ==
  /\ input = "null" /\ rx
  /\ told' = told \cup {"eof"}
  /\ UNCHANGED <<wireVars, fwVars, chan, rx, input, leftover, reader, op, chunk, buffer, eof,
                 got, interrupted>>

StartRead ==
  /\ input = "live" /\ rx /\ reader = "idle"
  /\ op' \in Ops
  /\ reader' = "fill"
  /\ UNCHANGED <<wireVars, fwVars, chan, rx, input, leftover, chunk, buffer, eof, got, told,
                 interrupted>>

Newline(b) == b \in Newlines

\* fill, fill_all, fill_until_newline: what stops the pulling
Filled ==
  \/ eof
  \/ op = Line /\ SelectInSeq(buffer, Newline) > 0
  \/ op \in Lengths /\ Len(buffer) >= op

\* how many bytes of the buffer the read hands out
Share ==
  IF op = All THEN Len(buffer)
  ELSE IF op = Line
       THEN IF SelectInSeq(buffer, Newline) > 0 THEN SelectInSeq(buffer, Newline) ELSE Len(buffer)
  ELSE IF op < Len(buffer) THEN op ELSE Len(buffer)

\* The read returns; without a length that says end of file, otherwise nil
\* does.
ReadReturn ==
  /\ reader = "fill" /\ Filled
  /\ got' = got \o SubSeq(buffer, 1, Share)
  /\ buffer' = SubSeq(buffer, Share + 1, Len(buffer))
  /\ told' = IF op = All \/ (buffer = <<>> /\ op # 0) THEN told \cup {"eof"} ELSE told
  /\ reader' = "idle"
  /\ UNCHANGED <<wireVars, fwVars, chan, rx, input, leftover, op, chunk, eof, interrupted>>

\* pull: read_body starts with the leftover, if there is one.
Pull ==
  /\ reader = "fill" /\ ~Filled
  /\ chunk' = leftover /\ leftover' = <<>>
  /\ reader' = IF leftover # <<>> THEN "split" ELSE "recv"
  /\ UNCHANGED <<wireVars, fwVars, chan, rx, input, op, buffer, eof, got, told, interrupted>>

\* the read raises; what Input has buffered stays there
Raise(how) ==
  /\ told' = told \cup {how}
  /\ reader' = "idle"
  /\ UNCHANGED <<chan, chunk, eof>>

\* mutant: a disconnected channel counts as an elapsed tick
ReceiveDeaf ==
  /\ reader = "recv"
  /\ \/ interrupted /\ Raise("interrupted")
     \/ /\ ~interrupted /\ chan # <<>>
        /\ chunk' = Head(chan) /\ chan' = Tail(chan) /\ reader' = "split"
        /\ UNCHANGED <<eof, told>>
  /\ UNCHANGED <<wireVars, fwVars, rx, input, leftover, op, buffer, got, interrupted>>

\* One tick of the blocking receive: the flag, the channel, then its end,
\* which is end of file unless the forwarder says why it gave up.
Receive ==
  /\ reader = "recv"
  /\ \/ interrupted /\ Raise("interrupted")
     \/ /\ ~interrupted /\ chan # <<>>
        /\ chunk' = Head(chan) /\ chan' = Tail(chan) /\ reader' = "split"
        /\ UNCHANGED <<eof, told>>
     \/ /\ ~interrupted /\ chan = <<>> /\ Disconnected
        /\ \/ abandoned # "no" /\ Raise(abandoned)
           \/ /\ abandoned = "no"
              /\ eof' = TRUE /\ reader' = "fill"
              /\ UNCHANGED <<chan, chunk, told>>
  /\ UNCHANGED <<wireVars, fwVars, rx, input, leftover, op, buffer, got, interrupted>>

\* A chunk longer than max_len is split and returned; a shorter one goes
\* on to the greedy drain.
Split ==
  /\ reader = "split"
  /\ IF Len(chunk) > ChunkSize
     THEN /\ leftover' = SubSeq(chunk, ChunkSize + 1, Len(chunk))
          /\ buffer' = buffer \o SubSeq(chunk, 1, ChunkSize)
          /\ chunk' = <<>> /\ reader' = "fill"
     ELSE reader' = "drain" /\ UNCHANGED <<leftover, buffer, chunk>>
  /\ UNCHANGED <<wireVars, fwVars, chan, rx, input, op, eof, got, told, interrupted>>

\* mutant: the frame that does not fit whole is cut off at max_len
DrainCuts ==
  /\ reader = "drain"
  /\ IF Len(chunk) < ChunkSize /\ chan # <<>>
     THEN LET more == Head(chan)
              room == ChunkSize - Len(chunk)
          IN /\ chan' = Tail(chan)
             /\ chunk' = chunk \o (IF Len(more) > room THEN SubSeq(more, 1, room) ELSE more)
             /\ UNCHANGED <<leftover, reader, buffer>>
     ELSE /\ buffer' = buffer \o chunk
          /\ chunk' = <<>> /\ reader' = "fill"
          /\ UNCHANGED <<chan, leftover>>
  /\ UNCHANGED <<wireVars, fwVars, rx, input, op, eof, got, told, interrupted>>

\* The greedy drain: whatever is queued rides along up to max_len, the
\* rest of the last frame is left over.
Drain ==
  /\ reader = "drain"
  /\ IF Len(chunk) < ChunkSize /\ chan # <<>>
     THEN LET more == Head(chan)
              room == ChunkSize - Len(chunk)
          IN /\ chan' = Tail(chan)
             /\ chunk' = chunk \o SubSeq(more, 1, IF Len(more) > room THEN room ELSE Len(more))
             /\ leftover' = IF Len(more) > room THEN SubSeq(more, room + 1, Len(more)) ELSE leftover
             /\ UNCHANGED <<reader, buffer>>
     ELSE /\ buffer' = buffer \o chunk
          /\ chunk' = <<>> /\ reader' = "fill"
          /\ UNCHANGED <<chan, leftover>>
  /\ UNCHANGED <<wireVars, fwVars, rx, input, op, eof, got, told, interrupted>>

\* interrupt_all_workers, or the VM's ubf on a blocked read: the flag stays
\* until the worker's next checkout.
Interrupt ==
  /\ ~interrupted
  /\ interrupted' = TRUE
  /\ UNCHANGED <<wireVars, fwVars, chan, rx, input, readVars>>

\* The context is dropped: rejected, aborted, or its handle collected.
DropCtx ==
  /\ rx /\ reader = "idle"
  /\ rx' = FALSE /\ chan' = <<>>
  /\ UNCHANGED <<wireVars, fwVars, input, readVars, interrupted>>

-----------------------------------------------------------------------------
\* A body of length zero may or may not be known to be empty up front.
Init ==
  /\ size \in 0..MaxSize /\ limit \in Limits /\ wire = "open"
  /\ pulled = 0 /\ frame = <<>> /\ abandoned = "no"
  /\ fw \in {"pull"} \cup (IF size = 0 THEN {"none"} ELSE {})
  /\ chan = <<>> /\ rx = TRUE /\ input = "unbuilt"
  /\ leftover = <<>> /\ reader = "idle" /\ op = All /\ chunk = <<>> /\ buffer = <<>>
  /\ eof = FALSE /\ got = <<>> /\ told = {}
  /\ interrupted = FALSE

Forward == PullFrame \/ PullEnds \/ SendFrame \/ SendResumes \/ ForwarderExits
Read == ReadReturn \/ Pull \/ Receive \/ Split \/ Drain

Next == Forward \/ Read \/ BuildEnv \/ NullRead \/ StartRead \/ Interrupt \/ DropCtx

Spec == Init /\ [][Next]_vars

\* tokio polls the forwarder and fires its timer; a Ruby thread inside a
\* read runs.  Nobody owes a read, an interrupt or a drop.
LiveSpec == Spec /\ WF_vars(Forward) /\ WF_vars(Read)

-----------------------------------------------------------------------------
(* Properties                                                              *)

\* Every variable keeps its shape; beyond the channel's capacity there is
\* at most the parked sender's frame, and no pull hands over more than
\* CHUNK_SIZE.
TypeOK ==
  /\ size \in 0..MaxSize /\ limit \in Limits
  /\ wire \in {"open", "ended", "failed", "silent"}
  /\ pulled \in 0..MaxSize /\ fw \in {"none", "pull", "send", "parked", "drop", "gone"}
  /\ abandoned \in {"no", "oversize", "timeout"}
  /\ Len(chan) <= BodyBuffer + (IF fw = "parked" THEN 1 ELSE 0)
  /\ {rx, eof, interrupted} \subseteq BOOLEAN
  /\ input \in {"unbuilt", "null", "live"}
  /\ reader \in {"idle", "fill", "recv", "split", "drain"} /\ op \in Ops
  /\ Len(leftover) < MaxSize + 1 /\ (reader = "drain" => Len(chunk) <= ChunkSize)
  /\ told \subseteq {"eof", "oversize", "timeout", "interrupted"}

\* what has left the channel, and the frames that follow, in reading order
Passed == got \o buffer \o chunk \o leftover
Frames == IF fw = "send" THEN Append(chan, frame) ELSE chan

\* the last byte before the i-th frame
Before(i) == IF i = 1 THEN Len(Passed) ELSE Last(Frames[i - 1])

\* Through frames, splits, leftovers, the greedy drain and Input's buffer,
\* with reads of any kind and reads that raise, no byte is lost, repeated
\* or moved: what has passed and the frames that follow are the body's first
\* bytes in order, all that hyper yielded but a frame past the cap.
BytesInOrder ==
  /\ TypeOK
  /\ rx => LET end == Before(Len(Frames) + 1) IN
           /\ Passed = Bytes(0, Len(Passed))
           /\ \A i \in 1..Len(Frames) :
                Frames[i] # <<>> /\ Frames[i] = Bytes(Before(i), Last(Frames[i]))
           /\ abandoned # "oversize" => end = pulled
           /\ limit > 0 => end <= limit

\* response.rs:29-30: an abandoned body raises, it never reads as a
\* truncated clean end of file.  An app that is told end of file has every
\* byte, and the client ended the body (or broke off: server.rs:561).
EofIsWhole ==
  "eof" \in told => fw = "none" \/ (wire \in {"ended", "failed"} /\ Len(got) = pulled)

\* The same where the app reads through Kino::Input.
LiveEofIsWhole == input = "live" => EofIsWhole

\* README.md:403-404, CHANGELOG.md:235-239: a client that falls silent does
\* not hold a worker in a read for ever.
ReadReturns == reader # "idle" ~> reader = "idle"

\* The forwarder of a request that is gone stops pulling.
ForwarderStops == ~rx ~> fw \in {"none", "gone"}
=============================================================================
