------------------------ MODULE ResponseStreamProofs ------------------------
(***************************************************************************)
(* Two promises of a response, for every body shape, any number of chunks  *)
(* and any buffer: the backstop of a dropped handle leaves nothing open,   *)
(* and an `each` body that ends cleanly arrived whole.                     *)
(***************************************************************************)
EXTENDS ResponseStream, SequenceTheorems, TLAPS

-----------------------------------------------------------------------------
(* The inductive invariant                                                 *)

\* TypeOK speaks of the channel's members; the proofs need it as a sequence.
Shape == TypeOK /\ frames \in Seq(0..Chunks)

\* The one-shot is claimed exactly once, claimed without being sent only
\* inside send_stream_head, and no stream is open without a claim.
Claims ==
  /\ responded <=> head # "open"
  /\ head = "claimed" <=> app \in {"claimed", "opened"}
  /\ bodyTx => responded

\* Server#shutdown aborts once.  The handle's Drop comes after the worker is
\* through with it, finds the head claimed or claims it, and has taken the
\* sender before it ends.
AbortProgress ==
  /\ phase = "running" => abort["main"] = "idle"
  /\ abort["drop"] # "idle" => app \in {"served", "dead"}
  /\ abort["drop"] \in {"take", "send", "done"} => responded
  /\ abort["drop"] \in {"send", "done"} => ~bodyTx

\* A channel that was not built holds and has carried nothing.
Unmade == rx = "unmade" => frames = <<>> /\ got = <<>> /\ next = 1 /\ ~bodyTx

\* Where serve stands says whether there is a channel, and how the body ended.
ServeAt ==
  /\ app \in {"call", "claimed"} => rx = "unmade"
  /\ app = "opened" => rx = "held"
  /\ app = "write" => next <= Chunks
  /\ app = "unwind" => kind = "call"
  /\ app \in {"call", "claimed", "opened", "body", "write"} => ended = "none"
  /\ head = "simple" => kind = "simple"

\* A client that waits for a stream or reads it still holds the receiver.
Reads ==
  /\ client = "reading" => rx = "held" /\ head = "stream"
  /\ client = "waiting" /\ head = "stream" => rx = "held"

NoError(s) == \A i \in 1..Len(s) : s[i] # ErrorFrame

\* up to its first error frame, s continues after chunk n
Follows(s, n) ==
  \A i \in 1..Len(s) : (\A j \in 1..i : s[j] # ErrorFrame) => s[i] = n + i

\* Up to the first error frame the channel continues what the client got, and
\* without one it ends at the last chunk written.
Continues ==
  /\ \A i \in 1..Len(got) : got[i] = i
  /\ rx = "held" =>
       /\ Follows(frames, Len(got))
       /\ NoError(frames) => Len(got) + Len(frames) = next - 1

\* finish_stream was called after the last chunk
Through == app = "served" /\ ended = "finished" /\ next = Chunks + 1

\* Nobody lets go of an `each` body's sender without a reason: an aborter that
\* has yet to send its error frame, an error frame, or the body's end.
Released ==
  kind = "each" /\ rx = "held" /\ ~bodyTx =>
    (\E p \in Parties : abort[p] = "send") \/ ~NoError(frames) \/ Through

\* what a clean end stands for
CleanEach ==
  kind = "each" /\ client = "complete" /\ status = "app" => Through /\ Len(got) = Chunks

Core == Shape /\ Claims /\ AbortProgress /\ Unmade /\ ServeAt /\ Reads

Inv == Core /\ Continues /\ Released /\ CleanEach

-----------------------------------------------------------------------------
(* Sequences                                                               *)

\* The members of a channel of chunk numbers and error frames.
LEMMA Members ==
  ASSUME NEW s \in Seq(0..Chunks)
  PROVE  ToSet(s) \subseteq (1..Chunks) \cup {ErrorFrame}
  BY StreamAssumption DEF ToSet, ErrorFrame

\* What Append does to length and elements.
LEMMA Appended ==
  ASSUME NEW S, NEW s \in Seq(S), NEW e \in S
  PROVE  /\ Append(s, e) \in Seq(S)
         /\ Len(Append(s, e)) = Len(s) + 1 /\ Len(s) \in Nat
         /\ \A i \in 1..Len(s) : Append(s, e)[i] = s[i]
         /\ Append(s, e)[Len(s) + 1] = e
  OBVIOUS

\* What Head and Tail do to them.
LEMMA HeadTail ==
  ASSUME NEW S, NEW s \in Seq(S), s # <<>>
  PROVE  /\ Tail(s) \in Seq(S) /\ Head(s) \in S /\ Head(s) = s[1]
         /\ Len(s) \in Nat \ {0} /\ Len(Tail(s)) = Len(s) - 1
         /\ \A i \in 1..Len(Tail(s)) : Tail(s)[i] = s[i + 1]
  BY HeadTailProperties

-----------------------------------------------------------------------------
(* The steps, by what they do to the stream                                *)

\* Steps that leave the frames alone and at most drop the receiver.
Quiet == UNCHANGED <<frames, got, next>> /\ rx' \in {rx, "gone"}

\* A chunk enters the channel, or is swallowed because nobody reads.
ChunkIn ==
  /\ app = "write" /\ next' = next + 1 /\ UNCHANGED <<got, rx>>
  /\ \/ rx = "gone" /\ UNCHANGED frames
     \/ rx = "held" /\ Len(frames) < StreamBuffer /\ frames' = Append(frames, next)

\* An aborter's error frame enters it.
ErrorIn ==
  /\ rx = "held" /\ Len(frames) < StreamBuffer /\ frames' = Append(frames, ErrorFrame)
  /\ UNCHANGED <<got, next, rx>>

\* The channel is built.
Opens == app = "claimed" /\ rx' = "held" /\ bodyTx' = TRUE /\ UNCHANGED <<frames, got, next>>

\* The client takes a frame.
Pulls ==
  /\ client = "reading" /\ frames # <<>> /\ frames' = Tail(frames) /\ UNCHANGED next
  /\ IF Head(frames) = ErrorFrame
     THEN client' = "failed" /\ rx' = "gone" /\ UNCHANGED got
     ELSE got' = Append(got, Head(frames)) /\ UNCHANGED <<client, rx>>

\* Every step does one of these five things to the stream.
LEMMA StreamSteps ==
  ASSUME [Next]_vars
  PROVE  Quiet \/ ChunkIn \/ ErrorIn \/ Opens \/ Pulls
<1> USE DEF Quiet, ChunkIn, ErrorIn, Opens, Pulls, respVars, chanVars, appVars, clientVars
<1>1. CASE RespondSimple
  BY <1>1 DEF RespondSimple, Returns
<1>2. CASE StreamClaim
  BY <1>2 DEF StreamClaim
<1>3. CASE StreamOpen
  BY <1>3 DEF StreamOpen, Raises
<1>4. CASE StreamHead
  BY <1>4 DEF StreamHead
<1>5. CASE WriteBegin
  BY <1>5 DEF WriteBegin, Raises
<1>6. CASE WriteTick
  BY <1>6 DEF WriteTick, Raises, Wrote
<1>7. CASE Finish
  BY <1>7 DEF Finish, Returns
<1>8. CASE Unwind
  BY <1>8 DEF Unwind
<1>9. CASE Rescue
  BY <1>9 DEF Rescue
<1>10. CASE AppRaises
  BY <1>10 DEF AppRaises, Raises
<1>11. CASE Crash
  BY <1>11 DEF Crash, Dies
<1>12. CASE Kill
  BY <1>12 DEF Kill, Dies
<1>13. ASSUME NEW p \in Parties, AbortClaim(p) PROVE Quiet \/ ErrorIn
  BY <1>13 DEF AbortClaim
<1>14. ASSUME NEW p \in Parties, AbortTake(p) PROVE Quiet \/ ErrorIn
  BY <1>14 DEF AbortTake
<1>15. ASSUME NEW p \in Parties, AbortSend(p) PROVE Quiet \/ ErrorIn
  BY <1>15 DEF AbortSend
<1>16. CASE Supervise
  BY <1>16 DEF Supervise
<1>17. CASE Collect
  BY <1>17 DEF Collect
<1>18. CASE HeadArrives
  BY <1>18 DEF HeadArrives
<1>19. CASE Pull
  BY <1>19 DEF Pull
<1>20. CASE StreamEnds
  BY <1>20 DEF StreamEnds, Ends
<1>21. CASE HeadTimeout
  BY <1>21 DEF HeadTimeout, Ends
<1>22. CASE ClientLeaves
  BY <1>22 DEF ClientLeaves, Ends
<1>23. CASE StartAbort
  BY <1>23 DEF StartAbort, GoTo
<1>24. CASE AbortedAll
  BY <1>24 DEF AbortedAll, GoTo
<1>25. CASE InterruptAll
  BY <1>25 DEF InterruptAll, GoTo
<1>26. CASE Teardown
  BY <1>26 DEF Teardown
<1>27. CASE UNCHANGED vars
  BY <1>27 DEF vars
<1>28. QED
  BY <1>1, <1>2, <1>3, <1>4, <1>5, <1>6, <1>7, <1>8, <1>9, <1>10, <1>11, <1>12, <1>13,
     <1>14, <1>15, <1>16, <1>17, <1>18, <1>19, <1>20, <1>21, <1>22, <1>23, <1>24, <1>25,
     <1>26, <1>27
  DEF Next, Work, Abort, Hyper, Main

-----------------------------------------------------------------------------
(* Shape: the types, and the channel's bound                               *)

\* A step keeps the frames, what the client got and the next chunk in shape.
LEMMA FramesStep ==
  ASSUME Shape, ServeAt, [Next]_vars
  PROVE  /\ frames' \in Seq(0..Chunks) /\ Len(frames') <= StreamBuffer
         /\ got' \in Seq(1..Chunks) /\ next' \in 1..(Chunks + 1)
<1>0. /\ frames \in Seq(0..Chunks) /\ Len(frames) <= StreamBuffer
      /\ got \in Seq(1..Chunks) /\ next \in 1..(Chunks + 1) /\ StreamBuffer \in Nat
  BY StreamAssumption DEF Shape, TypeOK
<1>1. CASE Quiet \/ Opens
  BY <1>0, <1>1 DEF Quiet, Opens
<1>2. CASE ChunkIn
  <2>1. next \in 0..Chunks /\ next + 1 \in 1..(Chunks + 1)
    BY <1>2, StreamAssumption DEF ChunkIn, Shape, TypeOK, ServeAt
  <2>2. Append(frames, next) \in Seq(0..Chunks) /\ Len(Append(frames, next)) = Len(frames) + 1
        /\ Len(frames) \in Nat
    BY <2>1, Appended DEF Shape
  <2>3. next' \in 1..(Chunks + 1) /\ got' \in Seq(1..Chunks)
    BY <1>0, <1>2, <2>1 DEF ChunkIn
  <2>4. Len(frames) < StreamBuffer => Len(Append(frames, next)) <= StreamBuffer
    BY <1>0, <2>2
  <2>5. frames' \in Seq(0..Chunks) /\ Len(frames') <= StreamBuffer
    BY <1>0, <1>2, <2>2, <2>4, Zenon DEF ChunkIn
  <2>6. QED
    BY <2>3, <2>5
<1>3. CASE ErrorIn
  <2>1. ErrorFrame \in 0..Chunks
    BY StreamAssumption DEF ErrorFrame
  <2>2. Append(frames, ErrorFrame) \in Seq(0..Chunks)
        /\ Len(Append(frames, ErrorFrame)) = Len(frames) + 1 /\ Len(frames) \in Nat
    BY <2>1, Appended DEF Shape
  <2>3. QED
    BY <1>0, <1>3, <2>2 DEF ErrorIn
<1>4. CASE Pulls
  <2>1. /\ Tail(frames) \in Seq(0..Chunks) /\ Head(frames) \in 0..Chunks
        /\ Len(frames) \in Nat \ {0} /\ Len(Tail(frames)) = Len(frames) - 1
    BY <1>4, HeadTail DEF Pulls, Shape
  <2>2. Head(frames) # ErrorFrame => Append(got, Head(frames)) \in Seq(1..Chunks)
    BY <2>1, Appended, StreamAssumption DEF Shape, TypeOK, ErrorFrame
  <2>3. Len(Tail(frames)) <= StreamBuffer
    BY <1>0, <2>1
  <2>4. QED
    BY <1>0, <1>4, <2>1, <2>2, <2>3, Zenon DEF Pulls
<1>5. QED
  BY <1>1, <1>2, <1>3, <1>4, StreamSteps

\* The variables with finitely many values stay in their sets.
Values ==
  /\ mode \in Modes /\ kind \in Kinds
  /\ head \in {"open", "claimed", "simple", "stream", "500", "dropped"}
  /\ lock \in Parties \cup {"free"}
  /\ rx \in {"unmade", "held", "gone"}
  /\ app \in AppStates
  /\ ended \in {"none", "finished", "raised", "interrupted", "crashed", "killed"}
  /\ abort \in [Parties -> AbortStates]
  /\ client \in {"waiting", "reading", "complete", "failed", "gone"}
  /\ status \in {"none", "app", "500", "504"}
  /\ phase \in {"running", "aborting", "interrupting", "reaping", "stopped"}

\* A step keeps the enumerated variables in their sets.
LEMMA ValuesStep ==
  ASSUME Values, [Next]_vars
  PROVE  Values'
<1> USE DEF Values, Parties, AbortStates, AppStates, respVars, chanVars, appVars, clientVars
<1>1. CASE RespondSimple
  BY <1>1 DEF RespondSimple, Returns
<1>2. CASE StreamClaim
  BY <1>2 DEF StreamClaim
<1>3. CASE StreamOpen
  BY <1>3 DEF StreamOpen, Raises
<1>4. CASE StreamHead
  BY <1>4 DEF StreamHead
<1>5. CASE WriteBegin
  BY <1>5 DEF WriteBegin, Raises
<1>6. CASE WriteTick
  BY <1>6 DEF WriteTick, Raises, Wrote
<1>7. CASE Finish
  BY <1>7 DEF Finish, Returns
<1>8. CASE Unwind
  BY <1>8 DEF Unwind
<1>9. CASE Rescue
  BY <1>9 DEF Rescue
<1>10. CASE AppRaises
  BY <1>10 DEF AppRaises, Raises
<1>11. CASE Crash
  BY <1>11 DEF Crash, Dies
<1>12. CASE Kill
  BY <1>12 DEF Kill, Dies
<1>13. ASSUME NEW p \in Parties, AbortClaim(p) PROVE Values'
  BY <1>13 DEF AbortClaim
<1>14. ASSUME NEW p \in Parties, AbortTake(p) PROVE Values'
  BY <1>14 DEF AbortTake
<1>15. ASSUME NEW p \in Parties, AbortSend(p) PROVE Values'
  BY <1>15 DEF AbortSend
<1>16. CASE Supervise
  BY <1>16 DEF Supervise
<1>17. CASE Collect
  BY <1>17 DEF Collect
<1>18. CASE HeadArrives
  BY <1>18 DEF HeadArrives
<1>19. CASE Pull
  BY <1>19 DEF Pull
<1>20. CASE StreamEnds
  BY <1>20 DEF StreamEnds, Ends
<1>21. CASE HeadTimeout
  BY <1>21 DEF HeadTimeout, Ends
<1>22. CASE ClientLeaves
  BY <1>22 DEF ClientLeaves, Ends
<1>23. CASE StartAbort
  BY <1>23 DEF StartAbort, GoTo
<1>24. CASE AbortedAll
  BY <1>24 DEF AbortedAll, GoTo
<1>25. CASE InterruptAll
  BY <1>25 DEF InterruptAll, GoTo
<1>26. CASE Teardown
  BY <1>26 DEF Teardown
<1>27. CASE UNCHANGED vars
  BY <1>27 DEF vars
<1>28. QED
  BY <1>1, <1>2, <1>3, <1>4, <1>5, <1>6, <1>7, <1>8, <1>9, <1>10, <1>11, <1>12, <1>13,
     <1>14, <1>15, <1>16, <1>17, <1>18, <1>19, <1>20, <1>21, <1>22, <1>23, <1>24, <1>25,
     <1>26, <1>27, SMT
  DEF Next, Work, Abort, Hyper, Main

\* The flags.
Flags == responded \in BOOLEAN /\ bodyTx \in BOOLEAN /\ interrupted \in BOOLEAN

\* They stay Boolean.
LEMMA FlagsStep ==
  ASSUME Flags, [Next]_vars
  PROVE  Flags'
<1> USE DEF Flags, respVars, chanVars, appVars, clientVars
<1>1. CASE RespondSimple
  BY <1>1, Zenon DEF RespondSimple, Returns
<1>2. CASE StreamClaim
  BY <1>2, Zenon DEF StreamClaim
<1>3. CASE StreamOpen
  BY <1>3, Zenon DEF StreamOpen, Raises
<1>4. CASE StreamHead
  BY <1>4, Zenon DEF StreamHead
<1>5. CASE WriteBegin
  BY <1>5, Zenon DEF WriteBegin, Raises
<1>6. CASE WriteTick
  BY <1>6, Zenon DEF WriteTick, Raises, Wrote
<1>7. CASE Finish
  BY <1>7, Zenon DEF Finish, Returns
<1>8. CASE Unwind
  BY <1>8, Zenon DEF Unwind
<1>9. CASE Rescue
  BY <1>9, Zenon DEF Rescue
<1>10. CASE AppRaises
  BY <1>10, Zenon DEF AppRaises, Raises
<1>11. CASE Crash
  BY <1>11, Zenon DEF Crash, Dies
<1>12. CASE Kill
  BY <1>12, Zenon DEF Kill, Dies
<1>13. ASSUME NEW p \in Parties, AbortClaim(p) PROVE Flags'
  BY <1>13, Zenon DEF AbortClaim
<1>14. ASSUME NEW p \in Parties, AbortTake(p) PROVE Flags'
  BY <1>14, Zenon DEF AbortTake
<1>15. ASSUME NEW p \in Parties, AbortSend(p) PROVE Flags'
  BY <1>15, Zenon DEF AbortSend
<1>16. CASE Supervise
  BY <1>16, Zenon DEF Supervise
<1>17. CASE Collect
  BY <1>17, Zenon DEF Collect
<1>18. CASE HeadArrives
  BY <1>18, Zenon DEF HeadArrives
<1>19. CASE Pull
  BY <1>19, Zenon DEF Pull
<1>20. CASE StreamEnds
  BY <1>20, Zenon DEF StreamEnds, Ends
<1>21. CASE HeadTimeout
  BY <1>21, Zenon DEF HeadTimeout, Ends
<1>22. CASE ClientLeaves
  BY <1>22, Zenon DEF ClientLeaves, Ends
<1>23. CASE StartAbort
  BY <1>23, Zenon DEF StartAbort, GoTo
<1>24. CASE AbortedAll
  BY <1>24, Zenon DEF AbortedAll, GoTo
<1>25. CASE InterruptAll
  BY <1>25, Zenon DEF InterruptAll, GoTo
<1>26. CASE Teardown
  BY <1>26, Zenon DEF Teardown
<1>27. CASE UNCHANGED vars
  BY <1>27, Zenon DEF vars
<1>28. QED
  BY <1>1, <1>2, <1>3, <1>4, <1>5, <1>6, <1>7, <1>8, <1>9, <1>10, <1>11, <1>12, <1>13,
     <1>14, <1>15, <1>16, <1>17, <1>18, <1>19, <1>20, <1>21, <1>22, <1>23, <1>24, <1>25,
     <1>26, <1>27
  DEF Next, Work, Abort, Hyper, Main

\* A step keeps the shape.
LEMMA ShapeStep ==
  ASSUME Shape, ServeAt, [Next]_vars
  PROVE  Shape'
<1>1. Values /\ Flags
  BY DEF Shape, TypeOK, Values, Flags
<1>2. Values' /\ Flags'
  BY <1>1, ValuesStep, FlagsStep
<1>3. /\ frames' \in Seq(0..Chunks) /\ Len(frames') <= StreamBuffer
      /\ got' \in Seq(1..Chunks) /\ next' \in 1..(Chunks + 1)
  BY FramesStep
<1>4. ToSet(frames') \subseteq (1..Chunks) \cup {ErrorFrame}
  BY <1>3, Members
<1>5. QED
  BY <1>2, <1>3, <1>4 DEF Shape, TypeOK, Values, Flags

-----------------------------------------------------------------------------
(* The head, the sender and the receiver                                   *)

\* The responder is claimed once, by whoever sends or drops the head.
LEMMA ClaimsStep ==
  ASSUME Shape, Claims, [Next]_vars
  PROVE  Claims'
<1> USE DEF Claims, Shape, TypeOK, respVars, chanVars, appVars, clientVars
<1>1. CASE RespondSimple
  BY <1>1 DEF RespondSimple, Returns
<1>2. CASE StreamClaim
  BY <1>2 DEF StreamClaim
<1>3. CASE StreamOpen
  BY <1>3 DEF StreamOpen, Raises
<1>4. CASE StreamHead
  BY <1>4 DEF StreamHead
<1>5. CASE WriteBegin
  BY <1>5 DEF WriteBegin, Raises
<1>6. CASE WriteTick
  BY <1>6 DEF WriteTick, Raises, Wrote
<1>7. CASE Finish
  BY <1>7 DEF Finish, Returns
<1>8. CASE Unwind
  BY <1>8 DEF Unwind
<1>9. CASE Rescue
  BY <1>9 DEF Rescue
<1>10. CASE AppRaises
  BY <1>10 DEF AppRaises, Raises
<1>11. CASE Crash
  BY <1>11 DEF Crash, Dies
<1>12. CASE Kill
  BY <1>12 DEF Kill, Dies
<1>13. ASSUME NEW p \in Parties, AbortClaim(p) PROVE Claims'
  BY <1>13 DEF AbortClaim
<1>14. ASSUME NEW p \in Parties, AbortTake(p) PROVE Claims'
  BY <1>14 DEF AbortTake
<1>15. ASSUME NEW p \in Parties, AbortSend(p) PROVE Claims'
  BY <1>15 DEF AbortSend
<1>16. CASE Supervise
  BY <1>16 DEF Supervise
<1>17. CASE Collect
  BY <1>17 DEF Collect
<1>18. CASE HeadArrives
  BY <1>18 DEF HeadArrives
<1>19. CASE Pull
  BY <1>19 DEF Pull
<1>20. CASE StreamEnds
  BY <1>20 DEF StreamEnds, Ends
<1>21. CASE HeadTimeout
  BY <1>21 DEF HeadTimeout, Ends
<1>22. CASE ClientLeaves
  BY <1>22 DEF ClientLeaves, Ends
<1>23. CASE StartAbort
  BY <1>23 DEF StartAbort, GoTo
<1>24. CASE AbortedAll
  BY <1>24 DEF AbortedAll, GoTo
<1>25. CASE InterruptAll
  BY <1>25 DEF InterruptAll, GoTo
<1>26. CASE Teardown
  BY <1>26 DEF Teardown
<1>27. CASE UNCHANGED vars
  BY <1>27 DEF vars
<1>28. QED
  BY <1>1, <1>2, <1>3, <1>4, <1>5, <1>6, <1>7, <1>8, <1>9, <1>10, <1>11, <1>12, <1>13,
     <1>14, <1>15, <1>16, <1>17, <1>18, <1>19, <1>20, <1>21, <1>22, <1>23, <1>24, <1>25,
     <1>26, <1>27
  DEF Next, Work, Abort, Hyper, Main

\* Nobody opens a stream, or takes the head back, once the handle is dropped,
\* and only StartAbort starts shutdown's abort.
LEMMA AbortsStep ==
  ASSUME Shape, Claims, AbortProgress, [Next]_vars
  PROVE  AbortProgress'
<1> USE DEF AbortProgress, Claims, Shape, TypeOK, Parties, respVars, chanVars, appVars, clientVars
<1>1. CASE RespondSimple
  BY <1>1 DEF RespondSimple, Returns
<1>2. CASE StreamClaim
  BY <1>2 DEF StreamClaim
<1>3. CASE StreamOpen
  BY <1>3 DEF StreamOpen, Raises
<1>4. CASE StreamHead
  BY <1>4 DEF StreamHead
<1>5. CASE WriteBegin
  BY <1>5 DEF WriteBegin, Raises
<1>6. CASE WriteTick
  BY <1>6 DEF WriteTick, Raises, Wrote
<1>7. CASE Finish
  BY <1>7 DEF Finish, Returns
<1>8. CASE Unwind
  BY <1>8 DEF Unwind
<1>9. CASE Rescue
  BY <1>9 DEF Rescue
<1>10. CASE AppRaises
  BY <1>10 DEF AppRaises, Raises
<1>11. CASE Crash
  BY <1>11 DEF Crash, Dies
<1>12. CASE Kill
  BY <1>12 DEF Kill, Dies
<1>13. ASSUME NEW p \in Parties, AbortClaim(p) PROVE AbortProgress'
  <2>1. CASE responded
    BY <1>13, <2>1 DEF AbortClaim
  <2>2. CASE ~responded
    <3>1. /\ abort[p] = "claim" /\ abort' = [abort EXCEPT ![p] = "done"] /\ responded'
          /\ UNCHANGED <<bodyTx, app, phase>>
      BY <1>13, <2>2, Zenon DEF AbortClaim, chanVars, appVars
    <3>2. ~bodyTx'
      BY <2>2, <3>1
    <3>3. QED
      BY <3>1, <3>2
  <2>3. QED
    BY <2>1, <2>2
<1>14. ASSUME NEW p \in Parties, AbortTake(p) PROVE AbortProgress'
  BY <1>14 DEF AbortTake
<1>15. ASSUME NEW p \in Parties, AbortSend(p) PROVE AbortProgress'
  BY <1>15 DEF AbortSend
<1>16. CASE Supervise
  BY <1>16 DEF Supervise
<1>17. CASE Collect
  BY <1>17 DEF Collect
<1>18. CASE HeadArrives
  BY <1>18 DEF HeadArrives
<1>19. CASE Pull
  BY <1>19 DEF Pull
<1>20. CASE StreamEnds
  BY <1>20 DEF StreamEnds, Ends
<1>21. CASE HeadTimeout
  BY <1>21 DEF HeadTimeout, Ends
<1>22. CASE ClientLeaves
  BY <1>22 DEF ClientLeaves, Ends
<1>23. CASE StartAbort
  BY <1>23 DEF StartAbort, GoTo
<1>24. CASE AbortedAll
  BY <1>24 DEF AbortedAll, GoTo
<1>25. CASE InterruptAll
  BY <1>25 DEF InterruptAll, GoTo
<1>26. CASE Teardown
  BY <1>26 DEF Teardown
<1>27. CASE UNCHANGED vars
  BY <1>27 DEF vars
<1>28. QED
  BY <1>1, <1>2, <1>3, <1>4, <1>5, <1>6, <1>7, <1>8, <1>9, <1>10, <1>11, <1>12, <1>13,
     <1>14, <1>15, <1>16, <1>17, <1>18, <1>19, <1>20, <1>21, <1>22, <1>23, <1>24, <1>25,
     <1>26, <1>27
  DEF Next, Work, Abort, Hyper, Main

\* Before the channel is built nothing enters it.
LEMMA UnmadeStep ==
  ASSUME Shape, Unmade, ServeAt, Reads, [Next]_vars
  PROVE  Unmade'
<1> USE DEF Unmade, ServeAt, Reads, Shape, TypeOK, respVars, chanVars, appVars, clientVars
<1>1. CASE RespondSimple
  BY <1>1 DEF RespondSimple, Returns
<1>2. CASE StreamClaim
  BY <1>2 DEF StreamClaim
<1>3. CASE StreamOpen
  BY <1>3 DEF StreamOpen, Raises
<1>4. CASE StreamHead
  BY <1>4 DEF StreamHead
<1>5. CASE WriteBegin
  BY <1>5 DEF WriteBegin, Raises
<1>6. CASE WriteTick
  BY <1>6 DEF WriteTick, Raises, Wrote
<1>7. CASE Finish
  BY <1>7 DEF Finish, Returns
<1>8. CASE Unwind
  BY <1>8 DEF Unwind
<1>9. CASE Rescue
  BY <1>9 DEF Rescue
<1>10. CASE AppRaises
  BY <1>10 DEF AppRaises, Raises
<1>11. CASE Crash
  BY <1>11 DEF Crash, Dies
<1>12. CASE Kill
  BY <1>12 DEF Kill, Dies
<1>13. ASSUME NEW p \in Parties, AbortClaim(p) PROVE Unmade'
  BY <1>13 DEF AbortClaim
<1>14. ASSUME NEW p \in Parties, AbortTake(p) PROVE Unmade'
  BY <1>14 DEF AbortTake
<1>15. ASSUME NEW p \in Parties, AbortSend(p) PROVE Unmade'
  BY <1>15 DEF AbortSend
<1>16. CASE Supervise
  BY <1>16 DEF Supervise
<1>17. CASE Collect
  BY <1>17 DEF Collect
<1>18. CASE HeadArrives
  BY <1>18 DEF HeadArrives
<1>19. CASE Pull
  BY <1>19 DEF Pull
<1>20. CASE StreamEnds
  BY <1>20 DEF StreamEnds, Ends
<1>21. CASE HeadTimeout
  BY <1>21 DEF HeadTimeout, Ends
<1>22. CASE ClientLeaves
  BY <1>22 DEF ClientLeaves, Ends
<1>23. CASE StartAbort
  BY <1>23 DEF StartAbort, GoTo
<1>24. CASE AbortedAll
  BY <1>24 DEF AbortedAll, GoTo
<1>25. CASE InterruptAll
  BY <1>25 DEF InterruptAll, GoTo
<1>26. CASE Teardown
  BY <1>26 DEF Teardown
<1>27. CASE UNCHANGED vars
  BY <1>27 DEF vars
<1>28. QED
  BY <1>1, <1>2, <1>3, <1>4, <1>5, <1>6, <1>7, <1>8, <1>9, <1>10, <1>11, <1>12, <1>13,
     <1>14, <1>15, <1>16, <1>17, <1>18, <1>19, <1>20, <1>21, <1>22, <1>23, <1>24, <1>25,
     <1>26, <1>27
  DEF Next, Work, Abort, Hyper, Main

\* Each step of serve leaves the channel as its next step expects it.
LEMMA ServeStep ==
  ASSUME Shape, Claims, Unmade, ServeAt, Reads, [Next]_vars
  PROVE  ServeAt'
<1> USE DEF ServeAt, Claims, Unmade, Reads, Shape, TypeOK, respVars, chanVars, appVars, clientVars
<1>1. CASE RespondSimple
  BY <1>1, StreamAssumption DEF RespondSimple, Returns
<1>2. CASE StreamClaim
  BY <1>2, StreamAssumption DEF StreamClaim
<1>3. CASE StreamOpen
  BY <1>3, StreamAssumption DEF StreamOpen, Raises
<1>4. CASE StreamHead
  BY <1>4, StreamAssumption DEF StreamHead
<1>5. CASE WriteBegin
  BY <1>5, StreamAssumption DEF WriteBegin, Raises
<1>6. CASE WriteTick
  BY <1>6, StreamAssumption DEF WriteTick, Raises, Wrote
<1>7. CASE Finish
  BY <1>7, StreamAssumption DEF Finish, Returns
<1>8. CASE Unwind
  BY <1>8, StreamAssumption DEF Unwind
<1>9. CASE Rescue
  BY <1>9, StreamAssumption DEF Rescue
<1>10. CASE AppRaises
  BY <1>10, StreamAssumption DEF AppRaises, Raises
<1>11. CASE Crash
  BY <1>11, StreamAssumption DEF Crash, Dies
<1>12. CASE Kill
  BY <1>12, StreamAssumption DEF Kill, Dies
<1>13. ASSUME NEW p \in Parties, AbortClaim(p) PROVE ServeAt'
  BY <1>13, StreamAssumption DEF AbortClaim
<1>14. ASSUME NEW p \in Parties, AbortTake(p) PROVE ServeAt'
  BY <1>14, StreamAssumption DEF AbortTake
<1>15. ASSUME NEW p \in Parties, AbortSend(p) PROVE ServeAt'
  BY <1>15, StreamAssumption DEF AbortSend
<1>16. CASE Supervise
  BY <1>16, StreamAssumption DEF Supervise
<1>17. CASE Collect
  BY <1>17, StreamAssumption DEF Collect
<1>18. CASE HeadArrives
  BY <1>18, StreamAssumption DEF HeadArrives
<1>19. CASE Pull
  BY <1>19, StreamAssumption DEF Pull
<1>20. CASE StreamEnds
  BY <1>20, StreamAssumption DEF StreamEnds, Ends
<1>21. CASE HeadTimeout
  BY <1>21, StreamAssumption DEF HeadTimeout, Ends
<1>22. CASE ClientLeaves
  BY <1>22, StreamAssumption DEF ClientLeaves, Ends
<1>23. CASE StartAbort
  BY <1>23, StreamAssumption DEF StartAbort, GoTo
<1>24. CASE AbortedAll
  BY <1>24, StreamAssumption DEF AbortedAll, GoTo
<1>25. CASE InterruptAll
  BY <1>25, StreamAssumption DEF InterruptAll, GoTo
<1>26. CASE Teardown
  BY <1>26, StreamAssumption DEF Teardown
<1>27. CASE UNCHANGED vars
  BY <1>27, StreamAssumption DEF vars
<1>28. QED
  BY <1>1, <1>2, <1>3, <1>4, <1>5, <1>6, <1>7, <1>8, <1>9, <1>10, <1>11, <1>12, <1>13,
     <1>14, <1>15, <1>16, <1>17, <1>18, <1>19, <1>20, <1>21, <1>22, <1>23, <1>24, <1>25,
     <1>26, <1>27
  DEF Next, Work, Abort, Hyper, Main

\* The receiver goes only when its client has ended.
LEMMA ReadsStep ==
  ASSUME Shape, Claims, ServeAt, Reads, [Next]_vars
  PROVE  Reads'
<1> USE DEF Reads, ServeAt, Claims, Shape, TypeOK, respVars, chanVars, appVars, clientVars
<1>1. CASE RespondSimple
  BY <1>1 DEF RespondSimple, Returns
<1>2. CASE StreamClaim
  BY <1>2 DEF StreamClaim
<1>3. CASE StreamOpen
  BY <1>3 DEF StreamOpen, Raises
<1>4. CASE StreamHead
  BY <1>4 DEF StreamHead
<1>5. CASE WriteBegin
  BY <1>5 DEF WriteBegin, Raises
<1>6. CASE WriteTick
  BY <1>6 DEF WriteTick, Raises, Wrote
<1>7. CASE Finish
  BY <1>7 DEF Finish, Returns
<1>8. CASE Unwind
  BY <1>8 DEF Unwind
<1>9. CASE Rescue
  BY <1>9 DEF Rescue
<1>10. CASE AppRaises
  BY <1>10 DEF AppRaises, Raises
<1>11. CASE Crash
  BY <1>11 DEF Crash, Dies
<1>12. CASE Kill
  BY <1>12 DEF Kill, Dies
<1>13. ASSUME NEW p \in Parties, AbortClaim(p) PROVE Reads'
  BY <1>13 DEF AbortClaim
<1>14. ASSUME NEW p \in Parties, AbortTake(p) PROVE Reads'
  BY <1>14 DEF AbortTake
<1>15. ASSUME NEW p \in Parties, AbortSend(p) PROVE Reads'
  BY <1>15 DEF AbortSend
<1>16. CASE Supervise
  BY <1>16 DEF Supervise
<1>17. CASE Collect
  BY <1>17 DEF Collect
<1>18. CASE HeadArrives
  BY <1>18 DEF HeadArrives
<1>19. CASE Pull
  BY <1>19 DEF Pull
<1>20. CASE StreamEnds
  BY <1>20 DEF StreamEnds, Ends
<1>21. CASE HeadTimeout
  BY <1>21 DEF HeadTimeout, Ends
<1>22. CASE ClientLeaves
  BY <1>22 DEF ClientLeaves, Ends
<1>23. CASE StartAbort
  BY <1>23 DEF StartAbort, GoTo
<1>24. CASE AbortedAll
  BY <1>24 DEF AbortedAll, GoTo
<1>25. CASE InterruptAll
  BY <1>25 DEF InterruptAll, GoTo
<1>26. CASE Teardown
  BY <1>26 DEF Teardown
<1>27. CASE UNCHANGED vars
  BY <1>27 DEF vars
<1>28. QED
  BY <1>1, <1>2, <1>3, <1>4, <1>5, <1>6, <1>7, <1>8, <1>9, <1>10, <1>11, <1>12, <1>13,
     <1>14, <1>15, <1>16, <1>17, <1>18, <1>19, <1>20, <1>21, <1>22, <1>23, <1>24, <1>25,
     <1>26, <1>27
  DEF Next, Work, Abort, Hyper, Main

\* The part of the invariant that needs nothing of the frames is inductive.
LEMMA CoreStep ==
  ASSUME Core, [Next]_vars
  PROVE  Core'
  BY ShapeStep, ClaimsStep, AbortsStep, UnmadeStep, ServeStep, ReadsStep DEF Core

\* It holds at boot.
LEMMA CoreInit ==
  ASSUME Init
  PROVE  Core
<1>1. frames \in Seq(0..Chunks) /\ got \in Seq(1..Chunks) /\ Len(frames) = 0
  BY DEF Init
<1>2. ToSet(frames) \subseteq (1..Chunks) \cup {ErrorFrame}
  BY <1>1, Members
<1>3. Values
  BY DEF Init, Values, Parties, AbortStates, AppStates
<1>4. Flags
  BY Zenon DEF Init, Flags
<1>5. Len(frames) <= StreamBuffer /\ next \in 1..(Chunks + 1)
  BY <1>1, StreamAssumption DEF Init
<1>6. Shape
  BY <1>1, <1>2, <1>3, <1>4, <1>5 DEF Shape, TypeOK, Values, Flags
<1>7. QED
  BY <1>6 DEF Init, Core, Claims, AbortProgress, Unmade, ServeAt, Reads, Parties

\* The backstop (request.rs:81-84) leaves no head unanswered and no stream
\* open, for every body, buffer and mode: BackstopLeavesNothing is invariant.
THEOREM BackstopComplete == Spec => []BackstopLeavesNothing
<1>1. Init => Core
  BY CoreInit
<1>2. Core /\ [Next]_vars => Core'
  BY CoreStep
<1>3. Core => BackstopLeavesNothing
  BY DEF Core, Shape, Claims, AbortProgress, BackstopLeavesNothing
<1>4. QED
  BY <1>1, <1>2, <1>3, PTL DEF Spec

-----------------------------------------------------------------------------
(* The frames                                                              *)

\* A chunk that continues the channel, or an error frame, may be appended.
LEMMA FollowsAppend ==
  ASSUME NEW s \in Seq(0..Chunks), NEW n \in Nat, NEW e \in 0..Chunks,
         Follows(s, n), e = ErrorFrame \/ (NoError(s) => e = n + Len(s) + 1)
  PROVE  Follows(Append(s, e), n)
<1> DEFINE t == Append(s, e)
<1>1. /\ Len(t) = Len(s) + 1 /\ Len(s) \in Nat /\ t[Len(s) + 1] = e
      /\ \A i \in 1..Len(s) : t[i] = s[i]
  BY Appended
<1> HIDE DEF t
<1>2. SUFFICES ASSUME NEW i \in 1..Len(t), \A j \in 1..i : t[j] # ErrorFrame
               PROVE  t[i] = n + i
  BY DEF Follows, t
<1>3. CASE i \in 1..Len(s)
  <2>1. \A j \in 1..i : s[j] # ErrorFrame
    BY <1>1, <1>2, <1>3
  <2>2. QED
    BY <1>1, <1>3, <2>1 DEF Follows
<1>4. CASE i = Len(s) + 1
  <2>1. NoError(s)
    BY <1>1, <1>2, <1>4 DEF NoError
  <2>2. e # ErrorFrame
    BY <1>1, <1>2, <1>4
  <2>3. QED
    BY <1>1, <1>4, <2>1, <2>2
<1>5. QED
  BY <1>1, <1>2, <1>3, <1>4

\* Taking a chunk leaves a channel that continues after it.
LEMMA FollowsTail ==
  ASSUME NEW s \in Seq(0..Chunks), NEW n \in Nat, s # <<>>, Follows(s, n),
         Head(s) # ErrorFrame
  PROVE  Head(s) = n + 1 /\ Follows(Tail(s), n + 1)
<1> DEFINE t == Tail(s)
<1>1. /\ Head(s) = s[1] /\ Len(s) \in Nat \ {0} /\ Len(t) = Len(s) - 1
      /\ \A i \in 1..Len(t) : t[i] = s[i + 1]
  BY HeadTail
<1> HIDE DEF t
<1>2. Head(s) = n + 1
  BY <1>1 DEF Follows
<1>3. ASSUME NEW i \in 1..Len(t), \A j \in 1..i : t[j] # ErrorFrame
      PROVE  t[i] = (n + 1) + i
  <2>1. i + 1 \in 1..Len(s) /\ t[i] = s[i + 1]
    BY <1>1
  <2>2. ASSUME NEW j \in 1..(i + 1) PROVE s[j] # ErrorFrame
    <3>1. CASE j = 1
      BY <1>1, <3>1
    <3>2. CASE j # 1
      <4>1. j - 1 \in 1..i /\ j - 1 \in 1..Len(t) /\ (j - 1) + 1 = j
        BY <1>1, <3>2
      <4>2. QED
        BY <1>1, <1>3, <4>1
    <3>3. QED
      BY <3>1, <3>2
  <2>3. s[i + 1] = n + (i + 1)
    BY <2>1, <2>2 DEF Follows
  <2>4. QED
    BY <2>1, <2>3
<1>4. QED
  BY <1>2, <1>3 DEF Follows, t

\* An error frame stays in the channel when what is taken is a chunk.
LEMMA ErrorStays ==
  ASSUME NEW s \in Seq(0..Chunks), s # <<>>, Head(s) # ErrorFrame
  PROVE  NoError(s) <=> NoError(Tail(s))
<1> DEFINE t == Tail(s)
<1>1. /\ Head(s) = s[1] /\ Len(s) \in Nat \ {0} /\ Len(t) = Len(s) - 1
      /\ \A i \in 1..Len(t) : t[i] = s[i + 1]
  BY HeadTail
<1> HIDE DEF t
<1>2. ASSUME NoError(s) PROVE NoError(t)
  BY <1>1, <1>2 DEF NoError
<1>3. ASSUME NoError(t) PROVE NoError(s)
  <2>1. ASSUME NEW i \in 1..Len(s) PROVE s[i] # ErrorFrame
    <3>1. CASE i = 1
      BY <1>1, <3>1
    <3>2. CASE i # 1
      <4>1. i - 1 \in 1..Len(t) /\ (i - 1) + 1 = i
        BY <1>1, <3>2
      <4>2. QED
        BY <1>1, <1>3, <4>1 DEF NoError
    <3>3. QED
      BY <3>1, <3>2
  <2>2. QED
    BY <2>1 DEF NoError
<1>4. QED
  BY <1>2, <1>3 DEF t

\* An appended frame leaves the channel free of errors only if it was, and
\* the frame is none.
LEMMA ErrorAppended ==
  ASSUME NEW s \in Seq(0..Chunks), NEW e \in 0..Chunks
  PROVE  NoError(Append(s, e)) <=> NoError(s) /\ e # ErrorFrame
<1> DEFINE t == Append(s, e)
<1>1. /\ Len(t) = Len(s) + 1 /\ Len(s) \in Nat /\ t[Len(s) + 1] = e
      /\ \A i \in 1..Len(s) : t[i] = s[i]
  BY Appended
<1> HIDE DEF t
<1>2. ASSUME NoError(t) PROVE NoError(s) /\ e # ErrorFrame
  BY <1>1, <1>2 DEF NoError
<1>3. ASSUME NoError(s), e # ErrorFrame PROVE NoError(t)
  BY <1>1, <1>3 DEF NoError
<1>4. QED
  BY <1>2, <1>3 DEF t

\* What the client got, and what waits for it, stays in the order written.
LEMMA ContinuesStep ==
  ASSUME Core, Continues, [Next]_vars
  PROVE  Continues'
<1>0. /\ frames \in Seq(0..Chunks) /\ got \in Seq(1..Chunks) /\ next \in 1..(Chunks + 1)
      /\ Len(frames) \in Nat /\ Len(got) \in Nat /\ Chunks \in Nat
  BY StreamAssumption DEF Core, Shape, TypeOK
<1>1. CASE Quiet
  BY <1>1 DEF Quiet, Continues, Follows, NoError
<1>2. CASE Opens
  <2>1. frames' = <<>> /\ got' = <<>> /\ next' = 1
    BY <1>2 DEF Opens, Core, ServeAt, Unmade
  <2>2. QED
    BY <2>1 DEF Continues, Follows, NoError
<1>3. CASE ChunkIn
  <2>1. got' = got /\ rx' = rx /\ next' = next + 1 /\ next \in 1..Chunks /\ next # ErrorFrame
    BY <1>0, <1>3 DEF ChunkIn, Core, ServeAt, ErrorFrame
  <2>2. CASE rx = "gone"
    BY <2>1, <2>2 DEF Continues
  <2>3. CASE rx = "held" /\ frames' = Append(frames, next)
    <3>1. /\ Follows(frames, Len(got))
          /\ NoError(frames) => Len(got) + Len(frames) = next - 1
      BY <2>3 DEF Continues
    <3>2. Follows(frames', Len(got'))
      <4>1. next \in 0..Chunks /\ (NoError(frames) => next = Len(got) + Len(frames) + 1)
        BY <1>0, <2>1, <3>1
      <4>2. Follows(Append(frames, next), Len(got))
        BY <1>0, <3>1, <4>1, FollowsAppend
      <4>3. QED
        BY <2>1, <2>3, <4>2
    <3>3. NoError(frames') => Len(got') + Len(frames') = next' - 1
      <4>1. NoError(frames') => NoError(frames)
        BY <1>0, <2>1, <2>3, ErrorAppended
      <4>2. Len(frames') = Len(frames) + 1
        BY <1>0, <2>1, <2>3, Appended
      <4>3. QED
        BY <1>0, <2>1, <3>1, <4>1, <4>2
    <3>4. QED
      BY <2>1, <3>2, <3>3 DEF Continues
  <2>4. QED
    BY <1>3, <2>2, <2>3 DEF ChunkIn
<1>4. CASE ErrorIn
  <2>1. ErrorFrame \in 0..Chunks
    BY <1>0 DEF ErrorFrame
  <2>2. Follows(frames, Len(got)) /\ got' = got /\ rx' = rx /\ frames' = Append(frames, ErrorFrame)
    BY <1>4 DEF ErrorIn, Continues
  <2>3. Follows(Append(frames, ErrorFrame), Len(got))
    BY <1>0, <2>1, <2>2, FollowsAppend
  <2>4. ~NoError(Append(frames, ErrorFrame))
    BY <1>0, <2>1, ErrorAppended
  <2>5. QED
    BY <2>2, <2>3, <2>4 DEF Continues
<1>5. CASE Pulls
  <2>1. CASE Head(frames) = ErrorFrame
    BY <1>5, <2>1 DEF Pulls, Continues
  <2>2. CASE Head(frames) # ErrorFrame
    <3>1. /\ rx = "held" /\ frames # <<>> /\ frames' = Tail(frames) /\ rx' = rx
          /\ got' = Append(got, Head(frames)) /\ next' = next
      BY <1>5, <2>2 DEF Pulls, Core, Reads
    <3>2. /\ Follows(frames, Len(got))
          /\ NoError(frames) => Len(got) + Len(frames) = next - 1
      BY <3>1 DEF Continues
    <3>3. Head(frames) = Len(got) + 1 /\ Follows(Tail(frames), Len(got) + 1)
      BY <1>0, <2>2, <3>1, <3>2, FollowsTail
    <3>4. Head(frames) \in 1..Chunks
      <4>1. Head(frames) \in 0..Chunks
        BY <1>0, <3>1, HeadTail
      <4>2. QED
        BY <1>0, <2>2, <4>1 DEF ErrorFrame
    <3>5. /\ Len(got') = Len(got) + 1 /\ got'[Len(got) + 1] = Head(frames)
          /\ \A i \in 1..Len(got) : got'[i] = got[i]
      BY <1>0, <3>1, <3>4, Appended
    <3>6. \A i \in 1..Len(got') : got'[i] = i
      <4>1. \A i \in 1..Len(got) : got'[i] = i
        BY <3>5 DEF Continues
      <4>2. \A i \in 1..Len(got') : i \in 1..Len(got) \/ i = Len(got) + 1
        BY <1>0, <3>5
      <4>3. QED
        BY <3>3, <3>5, <4>1, <4>2
    <3>7. NoError(frames') => Len(got') + Len(frames') = next' - 1
      <4>1. NoError(frames') => NoError(frames)
        BY <1>0, <2>2, <3>1, ErrorStays
      <4>2. Len(frames') = Len(frames) - 1
        BY <1>0, <3>1, HeadTail
      <4>3. QED
        BY <1>0, <3>1, <3>2, <3>5, <4>1, <4>2
    <3>8. Follows(frames', Len(got'))
      BY <3>1, <3>3, <3>5
    <3>9. QED
      BY <3>1, <3>6, <3>7, <3>8 DEF Continues
  <2>3. QED
    BY <2>1, <2>2
<1>6. QED
  BY <1>1, <1>2, <1>3, <1>4, <1>5, StreamSteps

\* An `each` body's sender is let go of only for a reason the client will see.
LEMMA ReleasedStep ==
  ASSUME Core, Released, [Next]_vars
  PROVE  Released'
<1>0. frames \in Seq(0..Chunks) /\ next \in 1..(Chunks + 1) /\ Chunks \in Nat
  BY StreamAssumption DEF Core, Shape, TypeOK
<1> USE DEF Released, Through, NoError, Core, Shape, TypeOK, Claims, AbortProgress, Unmade,
        ServeAt, Reads,
        Parties, AbortStates, respVars, chanVars, appVars, clientVars
<1>1. CASE RespondSimple
  BY <1>1 DEF RespondSimple, Returns
<1>2. CASE StreamClaim
  BY <1>2 DEF StreamClaim
<1>3. CASE StreamOpen
  BY <1>3 DEF StreamOpen, Raises
<1>4. CASE StreamHead
  BY <1>4 DEF StreamHead
<1>5. CASE WriteBegin
  BY <1>5 DEF WriteBegin, Raises
<1>6. CASE WriteTick
  BY <1>6 DEF WriteTick, Raises, Wrote
<1>7. CASE Finish
  BY <1>0, <1>7 DEF Finish, Returns
<1>8. CASE Unwind
  BY <1>8 DEF Unwind
<1>9. CASE Rescue
  BY <1>9 DEF Rescue
<1>10. CASE AppRaises
  BY <1>10 DEF AppRaises, Raises
<1>11. CASE Crash
  BY <1>11 DEF Crash, Dies
<1>12. CASE Kill
  BY <1>12 DEF Kill, Dies
<1>13. ASSUME NEW p \in Parties, AbortClaim(p) PROVE Released'
  BY <1>13 DEF AbortClaim
<1>14. ASSUME NEW p \in Parties, AbortTake(p) PROVE Released'
  BY <1>14 DEF AbortTake
<1>15. ASSUME NEW p \in Parties, AbortSend(p) PROVE Released'
  BY <1>15 DEF AbortSend
<1>16. CASE Supervise
  BY <1>16 DEF Supervise
<1>17. CASE Collect
  BY <1>17 DEF Collect
<1>18. CASE HeadArrives
  BY <1>18 DEF HeadArrives
<1>19. CASE Pull
  <2>1. kind' = "each" /\ rx' = "held" /\ ~bodyTx' =>
          Head(frames) # ErrorFrame /\ kind = "each" /\ rx = "held" /\ ~bodyTx
    BY <1>19 DEF Pull
  <2>2. Head(frames) # ErrorFrame /\ ~NoError(frames) => ~NoError(Tail(frames))
    BY <1>0, <1>19, ErrorStays DEF Pull
  <2>3. frames' = Tail(frames) /\ abort' = abort /\ (Through => Through')
    BY <1>19 DEF Pull, Through
  <2>4. QED
    BY <2>1, <2>2, <2>3, Zenon DEF Released
<1>20. CASE StreamEnds
  BY <1>20 DEF StreamEnds, Ends
<1>21. CASE HeadTimeout
  BY <1>21 DEF HeadTimeout, Ends
<1>22. CASE ClientLeaves
  BY <1>22 DEF ClientLeaves, Ends
<1>23. CASE StartAbort
  BY <1>23 DEF StartAbort, GoTo
<1>24. CASE AbortedAll
  BY <1>24 DEF AbortedAll, GoTo
<1>25. CASE InterruptAll
  BY <1>25 DEF InterruptAll, GoTo
<1>26. CASE Teardown
  BY <1>26 DEF Teardown
<1>27. CASE UNCHANGED vars
  BY <1>27 DEF vars
<1>28. QED
  BY <1>1, <1>2, <1>3, <1>4, <1>5, <1>6, <1>7, <1>8, <1>9, <1>10, <1>11, <1>12, <1>13,
     <1>14, <1>15, <1>16, <1>17, <1>18, <1>19, <1>20, <1>21, <1>22, <1>23, <1>24, <1>25,
     <1>26, <1>27
  DEF Next, Work, Abort, Hyper, Main

\* A clean end of an `each` body comes after its last chunk was read.
LEMMA CleanStep ==
  ASSUME Core, Continues, Released, CleanEach, [Next]_vars
  PROVE  CleanEach'
<1> USE DEF CleanEach, Through, Core, Shape, TypeOK, Claims, ServeAt, Reads,
        respVars, chanVars, appVars, clientVars
<1>1. CASE RespondSimple
  BY <1>1 DEF RespondSimple, Returns
<1>2. CASE StreamClaim
  BY <1>2 DEF StreamClaim
<1>3. CASE StreamOpen
  BY <1>3 DEF StreamOpen, Raises
<1>4. CASE StreamHead
  BY <1>4 DEF StreamHead
<1>5. CASE WriteBegin
  BY <1>5 DEF WriteBegin, Raises
<1>6. CASE WriteTick
  BY <1>6 DEF WriteTick, Raises, Wrote
<1>7. CASE Finish
  BY <1>7 DEF Finish, Returns
<1>8. CASE Unwind
  BY <1>8 DEF Unwind
<1>9. CASE Rescue
  BY <1>9 DEF Rescue
<1>10. CASE AppRaises
  BY <1>10 DEF AppRaises, Raises
<1>11. CASE Crash
  BY <1>11 DEF Crash, Dies
<1>12. CASE Kill
  BY <1>12 DEF Kill, Dies
<1>13. ASSUME NEW p \in Parties, AbortClaim(p) PROVE CleanEach'
  BY <1>13 DEF AbortClaim
<1>14. ASSUME NEW p \in Parties, AbortTake(p) PROVE CleanEach'
  BY <1>14 DEF AbortTake
<1>15. ASSUME NEW p \in Parties, AbortSend(p) PROVE CleanEach'
  BY <1>15 DEF AbortSend
<1>16. CASE Supervise
  BY <1>16 DEF Supervise
<1>17. CASE Collect
  BY <1>17 DEF Collect
<1>18. CASE HeadArrives
  BY <1>18 DEF HeadArrives
<1>19. CASE Pull
  BY <1>19 DEF Pull
<1>20. CASE StreamEnds
  <2>1. SUFFICES ASSUME kind = "each", status = "app"
                 PROVE  Through /\ Len(got) = Chunks
    BY <1>20 DEF StreamEnds, Ends
  <2>2. rx = "held" /\ ~bodyTx /\ frames = <<>> /\ ~\E p \in Parties : abort[p] = "send"
    BY <1>20 DEF StreamEnds, Senders
  <2>3. NoError(frames) /\ Len(frames) = 0
    BY <2>2 DEF NoError
  <2>4. Through
    BY <2>1, <2>2, <2>3 DEF Released
  <2>5. Len(got) + Len(frames) = next - 1 /\ Len(got) \in Nat
    BY <2>2, <2>3 DEF Continues
  <2>6. QED
    BY <2>3, <2>4, <2>5, StreamAssumption
<1>21. CASE HeadTimeout
  BY <1>21 DEF HeadTimeout, Ends
<1>22. CASE ClientLeaves
  BY <1>22 DEF ClientLeaves, Ends
<1>23. CASE StartAbort
  BY <1>23 DEF StartAbort, GoTo
<1>24. CASE AbortedAll
  BY <1>24 DEF AbortedAll, GoTo
<1>25. CASE InterruptAll
  BY <1>25 DEF InterruptAll, GoTo
<1>26. CASE Teardown
  BY <1>26 DEF Teardown
<1>27. CASE UNCHANGED vars
  BY <1>27 DEF vars
<1>28. QED
  BY <1>1, <1>2, <1>3, <1>4, <1>5, <1>6, <1>7, <1>8, <1>9, <1>10, <1>11, <1>12, <1>13,
     <1>14, <1>15, <1>16, <1>17, <1>18, <1>19, <1>20, <1>21, <1>22, <1>23, <1>24, <1>25,
     <1>26, <1>27
  DEF Next, Work, Abort, Hyper, Main

\* At boot nothing has been sent or got.
LEMMA StreamInit ==
  ASSUME Init
  PROVE  Continues /\ Released /\ CleanEach
  BY DEF Init, Continues, Follows, NoError, Released, CleanEach

\* Whatever the number of chunks and the buffer, and whoever aborts when: an
\* `each` body whose stream ended cleanly (worker.rb:134-136,
\* response.rs:119-122) ran to its end and reached the client whole.
THEOREM EachArrivesWhole == Spec => []EachEndsComplete
<1>1. Init => Inv
  BY CoreInit, StreamInit DEF Inv
<1>2. Inv /\ [Next]_vars => Inv'
  BY CoreStep, ContinuesStep, ReleasedStep, CleanStep DEF Inv
<1>3. Inv => EachEndsComplete
  <2>1. SUFFICES ASSUME Inv, kind = "each", client = "complete", status = "app"
                 PROVE  ended = "finished" /\ got = [i \in 1..Chunks |-> i]
    BY DEF EachEndsComplete, CleanEndIsComplete
  <2>2. ended = "finished" /\ Len(got) = Chunks
    BY <2>1 DEF Inv, CleanEach, Through
  <2>3. got \in Seq(1..Chunks) /\ \A i \in 1..Len(got) : got[i] = i
    BY <2>1 DEF Inv, Core, Shape, TypeOK, Continues
  <2>4. QED
    BY <2>2, <2>3
<1>4. QED
  BY <1>1, <1>2, <1>3, PTL DEF Spec
=============================================================================
