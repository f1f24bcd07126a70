-------------------------- MODULE RequestBodyProofs --------------------------
(***************************************************************************)
(* A request's body on its way in, for any length, frames, cap, channel,   *)
(* chunk size and reads: the app is given its bytes in order, and told of  *)
(* its end only when it has them all.                                      *)
(***************************************************************************)
EXTENDS RequestBody, SequenceTheorems, WellFoundedInduction, TLAPS

-----------------------------------------------------------------------------
(* Runs of bytes                                                           *)

\* Every set of naturals has a least one.
LEMMA LeastNatural ==
  ASSUME NEW T, T \subseteq Nat, T # {}
  PROVE  \E x \in T : \A y \in T : x <= y
<1> DEFINE R == {ss \in Nat \X Nat : ss[1] < ss[2]}
<1>1. IsWellFoundedOn(R, Nat)
  BY NatLessThanWellFounded DEF OpToRel
<1>2. \A x, y \in Nat : y < x => <<y, x>> \in R
  OBVIOUS
<1> HIDE DEF R
<1>3. PICK x \in T : \A y \in T : ~(<<y, x>> \in R)
  BY <1>1, WFMin
<1>4. \A y \in T : ~(y < x)
  BY <1>2, <1>3
<1>5. \A y \in T : x <= y
  BY <1>4
<1>6. QED
  BY <1>5

\* The bytes after a up to b.
LEMMA BytesFacts ==
  ASSUME NEW a \in Nat, NEW b \in Nat, a <= b
  PROVE  /\ Bytes(a, b) \in Seq(Nat) /\ Len(Bytes(a, b)) = b - a
         /\ \A i \in 1..(b - a) : Bytes(a, b)[i] = a + i
         /\ Bytes(a, b) = <<>> <=> a = b
<1>1. b - a \in Nat
  OBVIOUS
<1>2. Bytes(a, b) \in [1..(b - a) -> Nat]
  BY DEF Bytes
<1>3. Bytes(a, b) \in Seq(Nat) /\ Len(Bytes(a, b)) = b - a
  BY <1>1, <1>2
<1>4. \A i \in 1..(b - a) : Bytes(a, b)[i] = a + i
  BY DEF Bytes
<1>5. Bytes(a, b) = <<>> <=> a = b
  BY <1>3, EmptySeq
<1>6. QED
  BY <1>3, <1>4, <1>5

\* Two runs that meet are one.
LEMMA BytesJoin ==
  ASSUME NEW a \in Nat, NEW b \in Nat, NEW c \in Nat, a <= b, b <= c
  PROVE  Bytes(a, b) \o Bytes(b, c) = Bytes(a, c)
<1> DEFINE s == Bytes(a, b)
           t == Bytes(b, c)
           u == Bytes(a, c)
<1>1. /\ s \in Seq(Nat) /\ Len(s) = b - a /\ \A i \in 1..(b - a) : s[i] = a + i
      /\ t \in Seq(Nat) /\ Len(t) = c - b /\ \A i \in 1..(c - b) : t[i] = b + i
      /\ u \in Seq(Nat) /\ Len(u) = c - a /\ \A i \in 1..(c - a) : u[i] = a + i
  <2>1. a <= c
    OBVIOUS
  <2>2. s \in Seq(Nat) /\ Len(s) = b - a /\ \A i \in 1..(b - a) : s[i] = a + i
    BY BytesFacts
  <2>3. t \in Seq(Nat) /\ Len(t) = c - b /\ \A i \in 1..(c - b) : t[i] = b + i
    BY BytesFacts
  <2>4. u \in Seq(Nat) /\ Len(u) = c - a /\ \A i \in 1..(c - a) : u[i] = a + i
    BY <2>1, BytesFacts
  <2>5. QED
    BY <2>2, <2>3, <2>4
<1> HIDE DEF s, t, u
<1>2. /\ s \o t \in Seq(Nat) /\ Len(s \o t) = Len(s) + Len(t)
      /\ \A i \in 1 .. Len(s) + Len(t) : (s \o t)[i] = IF i <= Len(s) THEN s[i] ELSE t[i - Len(s)]
  BY <1>1, ConcatProperties
<1>3. Len(s \o t) = Len(u)
  BY <1>1, <1>2
<1>4. ASSUME NEW i \in 1..Len(s \o t) PROVE (s \o t)[i] = u[i]
  <2>1. CASE i <= Len(s)
    BY <1>1, <1>2, <1>4, <2>1
  <2>2. CASE ~(i <= Len(s))
    <3>1. i - (b - a) \in 1..(c - b)
      BY <1>1, <1>2, <1>4, <2>2
    <3>2. t[i - (b - a)] = b + (i - (b - a))
      BY <1>1, <3>1
    <3>3. (s \o t)[i] = t[i - (b - a)]
      BY <1>1, <1>2, <1>4, <2>2
    <3>4. QED
      BY <1>1, <1>2, <1>4, <3>2, <3>3
  <2>3. QED
    BY <2>1, <2>2
<1>5. s \o t = u
  BY <1>1, <1>2, <1>3, <1>4, SeqEqual
<1>6. QED
  BY <1>5 DEF s, t, u

\* the bytes after a up to b, cut after the k-th at d
CutAt(a, b, k, d) ==
  /\ SubSeq(Bytes(a, b), 1, k) = Bytes(a, d)
  /\ SubSeq(Bytes(a, b), k + 1, Len(Bytes(a, b))) = Bytes(d, b)

\* A run that is cut gives two that meet.
LEMMA BytesCut ==
  ASSUME NEW a \in Nat, NEW b \in Nat, a <= b, NEW k \in Nat, k <= b - a, NEW d \in Nat, d = a + k
  PROVE  CutAt(a, b, k, d)
<1> DEFINE s == Bytes(a, b)
           t == SubSeq(s, 1, k)
           u == SubSeq(s, k + 1, b - a)
           v == Bytes(a, a + k)
           x == Bytes(a + k, b)
<1>1. /\ s \in Seq(Nat) /\ Len(s) = b - a /\ \A i \in 1..(b - a) : s[i] = a + i
      /\ a + k \in Nat /\ a + k <= b
  BY BytesFacts
<1>2. /\ v \in Seq(Nat) /\ Len(v) = k /\ \A i \in 1..k : v[i] = a + i
      /\ x \in Seq(Nat) /\ Len(x) = b - (a + k) /\ \A i \in 1..(b - (a + k)) : x[i] = a + k + i
  <2>1. d \in Nat /\ a <= d /\ d <= b
    OBVIOUS
  <2>2. Bytes(a, d) \in Seq(Nat) /\ Len(Bytes(a, d)) = d - a /\ \A i \in 1..(d - a) : Bytes(a, d)[i] = a + i
    BY <2>1, BytesFacts
  <2>3. Bytes(d, b) \in Seq(Nat) /\ Len(Bytes(d, b)) = b - d /\ \A i \in 1..(b - d) : Bytes(d, b)[i] = d + i
    BY <1>1, <2>1, BytesFacts
  <2>4. d - a = k
    BY <2>1
  <2>5. QED
    BY <2>1, <2>2, <2>3, <2>4
<1> HIDE DEF s, v, x
<1>3. t \in Seq(Nat) /\ Len(t) = k /\ \A i \in 1..k : t[i] = s[i]
  <2>1. \A i \in 1..k : s[i] \in Nat
    BY <1>1
  <2>2. /\ t \in Seq(Nat) /\ Len(t) = (IF 1 <= k THEN k - 1 + 1 ELSE 0)
        /\ \A i \in 1 .. k - 1 + 1 : t[i] = s[1 + i - 1]
    BY <2>1, SubSeqProperties
  <2>3. QED
    BY <2>2
<1>4. u \in Seq(Nat) /\ Len(u) = b - a - k /\ \A i \in 1..(b - a - k) : u[i] = s[k + i]
  <2>1. \A i \in (k + 1)..(b - a) : s[i] \in Nat
    BY <1>1
  <2>2. /\ u \in Seq(Nat) /\ Len(u) = (IF k + 1 <= b - a THEN b - a - (k + 1) + 1 ELSE 0)
        /\ \A i \in 1 .. b - a - (k + 1) + 1 : u[i] = s[k + 1 + i - 1]
    BY <2>1, SubSeqProperties
  <2>3. QED
    BY <2>2
<1> HIDE DEF t, u
<1>5. t = v
  <2>1. ASSUME NEW i \in 1..Len(t) PROVE t[i] = v[i]
    <3>1. i \in 1..k /\ i \in 1..(b - a)
      BY <1>3, <2>1
    <3>2. t[i] = a + i /\ v[i] = a + i
      BY <1>1, <1>2, <1>3, <3>1
    <3>3. QED
      BY <3>2
  <2>2. QED
    BY <1>2, <1>3, <2>1, SeqEqual
<1>6. \A i \in 1..Len(u) : u[i] = x[i]
  BY <1>1, <1>2, <1>4
<1>7. u = x
  BY <1>1, <1>2, <1>4, <1>6, SeqEqual
<1>8. QED
  BY <1>1, <1>5, <1>7 DEF s, t, u, v, x, CutAt

-----------------------------------------------------------------------------
(* Frames that follow each other                                           *)

\* the cuts m between frames, from a to b
Cuts(fs, a, b, m) ==
  /\ m \in [0..Len(fs) -> Nat] /\ m[0] = a /\ m[Len(fs)] = b
  /\ \A i, j \in 0..Len(fs) : i < j => m[i] < m[j]
  /\ \A i \in 1..Len(fs) : fs[i] = Bytes(m[i - 1], m[i])

\* non-empty frames, in order, of the bytes after a up to b
Linked(fs, a, b) == fs \in Seq(Seq(Nat)) /\ \E m : Cuts(fs, a, b, m)

\* No frame, no byte.
LEMMA LinkedNone ==
  ASSUME NEW a \in Nat, NEW b
  PROVE  Linked(<<>>, a, b) <=> a = b
<1>1. ASSUME a = b PROVE Linked(<<>>, a, b)
  <2> DEFINE m == [i \in 0..0 |-> a]
  <2>1. Cuts(<<>>, a, b, m)
    BY <1>1 DEF Cuts
  <2> HIDE DEF m
  <2>2. QED
    BY <2>1, EmptySeq DEF Linked
<1>2. ASSUME Linked(<<>>, a, b) PROVE a = b
  BY <1>2 DEF Linked, Cuts
<1>3. QED
  BY <1>1, <1>2

\* The bounds of linked frames.
LEMMA LinkedBounds ==
  ASSUME NEW fs, NEW a, NEW b, Linked(fs, a, b)
  PROVE  a \in Nat /\ b \in Nat /\ a <= b /\ Len(fs) \in Nat /\ fs \in Seq(Seq(Nat))
<1>1. PICK m : Cuts(fs, a, b, m)
  BY DEF Linked
<1>2. Len(fs) \in Nat /\ fs \in Seq(Seq(Nat))
  BY LenProperties DEF Linked
<1>3. 0 \in 0..Len(fs) /\ Len(fs) \in 0..Len(fs)
  BY <1>2
<1>4. a \in Nat /\ b \in Nat
  BY <1>1, <1>3 DEF Cuts
<1>5. CASE Len(fs) = 0
  BY <1>1, <1>4, <1>5 DEF Cuts
<1>6. CASE 0 < Len(fs)
  <2>1. m[0] < m[Len(fs)]
    BY <1>1, <1>3, <1>6 DEF Cuts
  <2>2. QED
    BY <1>1, <1>2, <1>4, <2>1 DEF Cuts
<1>7. QED
  BY <1>2, <1>4, <1>5, <1>6

\* A frame sent after them.
LEMMA LinkedAppend ==
  ASSUME NEW fs, NEW a, NEW b, Linked(fs, a, b), NEW c \in Nat, b < c
  PROVE  Linked(Append(fs, Bytes(b, c)), a, c)
<1> DEFINE n == Len(fs)
           x == Bytes(b, c)
           gs == Append(fs, x)
<1>1. PICK m : Cuts(fs, a, b, m)
  BY DEF Linked
<1>2. a \in Nat /\ b \in Nat /\ n \in Nat /\ fs \in Seq(Seq(Nat))
  BY LinkedBounds
<1>3. x \in Seq(Nat)
  BY <1>2, BytesFacts
<1> HIDE DEF x
<1>4. /\ gs \in Seq(Seq(Nat)) /\ Len(gs) = n + 1
      /\ \A i \in 1..n : gs[i] = fs[i]
  BY <1>2, <1>3, AppendProperties
<1>5. gs[n + 1] = x
  BY <1>2, <1>3, AppendProperties
<1> DEFINE k == [i \in 0..(n + 1) |-> IF i = n + 1 THEN c ELSE m[i]]
<1> HIDE DEF n, gs
<1>6. m \in [0..n -> Nat] /\ m[0] = a /\ m[n] = b
  BY <1>1 DEF Cuts, n
<1>7. k \in [0..(n + 1) -> Nat] /\ k[0] = a /\ k[n + 1] = c /\ k[n] = b
  BY <1>2, <1>6
<1>8. ASSUME NEW i \in 0..(n + 1), NEW j \in 0..(n + 1), i < j PROVE k[i] < k[j]
  <2>1. i \in 0..n
    BY <1>2, <1>8
  <2>2. CASE j = n + 1
    <3>1. m[i] <= b
      <4>1. CASE i = n
        BY <1>2, <1>6, <4>1
      <4>2. CASE i # n
        <5>1. i < n /\ n \in 0..n
          BY <1>2, <2>1, <4>2
        <5>2. m[i] < m[n]
          BY <1>1, <2>1, <5>1 DEF Cuts, n
        <5>3. m[i] \in Nat
          BY <1>6, <2>1
        <5>4. QED
          BY <1>2, <1>6, <5>2, <5>3
      <4>3. QED
        BY <4>1, <4>2
    <3>2. m[i] \in Nat /\ k[i] = m[i] /\ k[j] = c
      BY <1>2, <1>6, <2>1, <2>2
    <3>3. QED
      BY <1>2, <3>1, <3>2
  <2>3. CASE j # n + 1
    <3>1. j \in 0..n /\ k[i] = m[i] /\ k[j] = m[j]
      BY <1>2, <1>8, <2>1, <2>3
    <3>2. QED
      BY <1>1, <1>8, <2>1, <3>1 DEF Cuts, n
  <2>4. QED
    BY <2>2, <2>3
<1>9. ASSUME NEW i \in 1..(n + 1) PROVE gs[i] = Bytes(k[i - 1], k[i])
  <2>1. CASE i = n + 1
    BY <1>2, <1>5, <1>7, <2>1 DEF x
  <2>2. CASE i # n + 1
    <3>1. i \in 1..n /\ k[i - 1] = m[i - 1] /\ k[i] = m[i]
      BY <1>2, <1>9, <2>2
    <3>2. gs[i] = fs[i] /\ fs[i] = Bytes(m[i - 1], m[i])
      BY <1>1, <1>4, <3>1 DEF Cuts, n
    <3>3. QED
      BY <3>1, <3>2
  <2>3. QED
    BY <2>1, <2>2
<1> HIDE DEF k
<1>10. Cuts(gs, a, c, k)
  BY <1>4, <1>7, <1>8, <1>9 DEF Cuts
<1>11. Linked(gs, a, c)
  BY <1>4, <1>10 DEF Linked
<1>12. QED
  BY <1>11 DEF gs, x

\* The first of them taken out.
LEMMA LinkedTail ==
  ASSUME NEW fs, NEW a, NEW b, Linked(fs, a, b), fs # <<>>
  PROVE  \E c \in Nat : a < c /\ c <= b /\ Head(fs) = Bytes(a, c) /\ Linked(Tail(fs), c, b)
<1> DEFINE n == Len(fs)
           gs == Tail(fs)
<1>1. PICK m : Cuts(fs, a, b, m)
  BY DEF Linked
<1>2. a \in Nat /\ b \in Nat /\ n \in Nat \ {0} /\ fs \in Seq(Seq(Nat))
  BY LinkedBounds, EmptySeq
<1>3. /\ gs \in Seq(Seq(Nat)) /\ Len(gs) = n - 1
      /\ \A i \in 1..Len(gs) : gs[i] = fs[i + 1]
  BY <1>2, HeadTailProperties
<1>4. Head(fs) = fs[1]
  BY <1>2
<1> HIDE DEF n, gs
<1>5. m \in [0..n -> Nat] /\ m[0] = a /\ m[n] = b
  BY <1>1 DEF Cuts, n
<1> DEFINE k == [i \in 0..(n - 1) |-> m[i + 1]]
<1>6. k \in [0..(n - 1) -> Nat] /\ k[0] = m[1] /\ k[n - 1] = b /\ m[1] \in Nat
  BY <1>2, <1>5
<1>7. \A i, j \in 0..(n - 1) : i < j => k[i] < k[j]
  <2>1. ASSUME NEW i \in 0..(n - 1), NEW j \in 0..(n - 1), i < j PROVE k[i] < k[j]
    <3>1. i + 1 \in 0..n /\ j + 1 \in 0..n /\ i + 1 < j + 1
      BY <1>2, <2>1
    <3>2. m[i + 1] < m[j + 1]
      BY <1>1, <3>1 DEF Cuts, n
    <3>3. QED
      BY <2>1, <3>2
  <2>2. QED
    BY <2>1
<1>8. ASSUME NEW i \in 1..(n - 1) PROVE gs[i] = Bytes(k[i - 1], k[i])
  <2>1. i + 1 \in 1..n /\ k[i - 1] = m[i] /\ k[i] = m[i + 1] /\ (i + 1) - 1 = i
    BY <1>2, <1>8
  <2>2. gs[i] = fs[i + 1]
    BY <1>3, <1>8
  <2>3. fs[i + 1] = Bytes(m[(i + 1) - 1], m[i + 1])
    BY <1>1, <2>1 DEF Cuts, n
  <2>4. QED
    BY <2>1, <2>2, <2>3
<1>9. m[0] < m[1] /\ fs[1] = Bytes(m[1 - 1], m[1])
  <2>1. 0 \in 0..n /\ 1 \in 0..n /\ 1 \in 1..n
    BY <1>2
  <2>2. QED
    BY <1>1, <2>1 DEF Cuts, n
<1> HIDE DEF k
<1>10. Cuts(gs, m[1], b, k)
  BY <1>3, <1>6, <1>7, <1>8 DEF Cuts
<1>11. Linked(gs, m[1], b)
  BY <1>3, <1>10 DEF Linked
<1>12. m[1] <= b
  BY <1>11, LinkedBounds
<1>13. Head(fs) = Bytes(a, m[1])
  BY <1>4, <1>5, <1>9
<1>14. QED
  BY <1>5, <1>6, <1>9, <1>11, <1>12, <1>13 DEF gs

-----------------------------------------------------------------------------
(* The inductive invariant                                                 *)

\* What has left the channel: g bytes with the app, then Input's buffer up to
\* b, the chunk in the making up to c and the leftover up to l,
Pieces(g, b, c, l) ==
  /\ {g, b, c, l} \subseteq Nat /\ g <= b /\ b <= c /\ c <= l
  /\ got = Bytes(0, g) /\ buffer = Bytes(g, b) /\ chunk = Bytes(b, c) /\ leftover = Bytes(c, l)

\* and what has not: the channel from there up to e, then the frame in hand,
\* together all that was pulled but a frame past the cap.
Coming(l, e) ==
  /\ Linked(chan, l, e) /\ e <= pulled
  /\ fw = "send" => e < pulled /\ frame = Bytes(e, pulled)
  /\ fw # "send" /\ abandoned # "oversize" => e = pulled
  /\ limit > 0 => e <= limit

Whole == rx => \E g, b, c, l, e : Pieces(g, b, c, l) /\ Coming(l, e)

\* Where a read stands says what it has in hand: a leftover is used up
\* before anything is received, and made only by a chunk that is full.
Reading ==
  /\ reader # "idle" => rx /\ input = "live"
  /\ reader \in {"idle", "fill", "recv"} => chunk = <<>>
  /\ reader \in {"recv", "split"} => leftover = <<>>
  /\ reader = "drain" /\ Len(chunk) < ChunkSize => leftover = <<>>
  /\ ~rx => chan = <<>>

\* The forwarder stops at an end of the body, or says why it gave up.
Forwarding ==
  /\ abandoned # "no" => fw \in {"drop", "gone"}
  /\ fw \in {"drop", "gone"} /\ abandoned = "no" /\ rx => wire \in {"ended", "failed"}
  /\ limit > 0 /\ abandoned # "oversize" => pulled <= limit
  /\ pulled <= size

\* Input's @eof is the end of all that was pulled, and the app hears of it
\* with an empty buffer.
Ending ==
  /\ eof => /\ fw = "gone" /\ abandoned = "no" /\ wire \in {"ended", "failed"}
            /\ reader \in {"idle", "fill"} /\ chan = <<>> /\ leftover = <<>>
            /\ Len(got) \in Nat /\ Len(buffer) \in Nat /\ Len(got) + Len(buffer) = pulled
  /\ input = "unbuilt" => "eof" \notin told
  /\ input = "live" => fw # "none"
  /\ input = "live" /\ "eof" \in told => eof /\ buffer = <<>>

Inv == TypeOK /\ Whole /\ Reading /\ Forwarding /\ Ending

\* The cut points of a body that is still read.
LEMMA WholeNow ==
  ASSUME Inv, rx
  PROVE  \E g, b, c, l, e \in Nat :
           /\ Pieces(g, b, c, l) /\ Coming(l, e) /\ g <= b /\ b <= c /\ c <= l /\ l <= e
           /\ Len(got) = g /\ Len(buffer) = b - g /\ Len(chunk) = c - b /\ Len(leftover) = l - c
           /\ (buffer = <<>> <=> g = b) /\ (chunk = <<>> <=> b = c) /\ (leftover = <<>> <=> c = l)
<1>1. PICK g, b, c, l, e : Pieces(g, b, c, l) /\ Coming(l, e)
  BY DEF Inv, Whole
<1>2. g \in Nat /\ b \in Nat /\ c \in Nat /\ l \in Nat /\ g <= b /\ b <= c /\ c <= l
  BY <1>1 DEF Pieces
<1>3. e \in Nat /\ l <= e
  BY <1>1, LinkedBounds DEF Coming
<1>4. Len(got) = g
  BY <1>1, <1>2, BytesFacts DEF Pieces
<1>5. Len(buffer) = b - g /\ (buffer = <<>> <=> g = b)
  BY <1>1, <1>2, BytesFacts DEF Pieces
<1>6. Len(chunk) = c - b /\ (chunk = <<>> <=> b = c)
  BY <1>1, <1>2, BytesFacts DEF Pieces
<1>7. Len(leftover) = l - c /\ (leftover = <<>> <=> c = l)
  BY <1>1, <1>2, BytesFacts DEF Pieces
<1>8. QED
  BY <1>1, <1>2, <1>3, <1>4, <1>5, <1>6, <1>7

-----------------------------------------------------------------------------
(* The forwarder's steps                                                   *)

\* hyper yields a frame, within the cap or past it.
LEMMA PullFrameStep ==
  ASSUME Inv, PullFrame
  PROVE  Inv'
<1>0. TypeOK /\ Whole /\ Reading /\ Forwarding /\ Ending
  BY DEF Inv
<1>1. PICK k \in 1..FrameMax :
        /\ pulled + k <= size /\ pulled' = pulled + k
        /\ IF limit > 0 /\ pulled' > limit
           THEN fw' = "drop" /\ abandoned' = "oversize" /\ UNCHANGED frame
           ELSE fw' = "send" /\ frame' = Bytes(pulled, pulled') /\ UNCHANGED abandoned
  BY DEF PullFrame
<1>2. /\ fw = "pull" /\ wire = "open"
      /\ UNCHANGED <<size, limit, wire, chan, rx, input, leftover, reader, op, chunk, buffer, eof,
                     got, told, interrupted>>
  BY DEF PullFrame, wireVars, readVars
<1>3. abandoned = "no" /\ ~eof
  BY <1>0, <1>2 DEF Forwarding, Ending
<1>4. /\ pulled \in Nat /\ size \in 0..MaxSize /\ k \in Nat /\ k > 0 /\ limit \in Nat /\ MaxSize \in Nat
      /\ FrameMax \in Nat
  BY <1>0, <1>1, BodyAssumption DEF TypeOK
<1>5. pulled' \in 0..MaxSize /\ pulled < pulled' /\ pulled' <= size
  BY <1>1, <1>4
<1>6. TypeOK'
  BY <1>0, <1>1, <1>2, <1>5 DEF TypeOK
<1>7. Whole'
  <2> SUFFICES ASSUME rx PROVE \E g, b, c, l, e : (Pieces(g, b, c, l) /\ Coming(l, e))'
    BY <1>2 DEF Whole
  <2>1. PICK g, b, c, l, e \in Nat : Pieces(g, b, c, l) /\ Coming(l, e)
    BY WholeNow
  <2>2. Pieces(g, b, c, l)'
    BY <1>2, <2>1 DEF Pieces
  <2>3. e = pulled
    BY <1>2, <1>3, <2>1 DEF Coming
  <2>4. Coming(l, e)'
    BY <1>1, <1>2, <1>3, <1>4, <1>5, <2>1, <2>3 DEF Coming
  <2>5. QED
    BY <2>2, <2>4
<1>8. Reading'
  BY <1>0, <1>2 DEF Reading
<1>9. Forwarding'
  BY <1>0, <1>1, <1>2, <1>3, <1>4, <1>5 DEF Forwarding
<1>10. Ending'
  BY <1>0, <1>1, <1>2, <1>3 DEF Ending
<1>11. QED
  BY <1>6, <1>7, <1>8, <1>9, <1>10 DEF Inv

\* The body ends, breaks off or falls silent.
LEMMA PullEndsStep ==
  ASSUME Inv, PullEnds
  PROVE  Inv'
<1>0. TypeOK /\ Whole /\ Reading /\ Forwarding /\ Ending
  BY DEF Inv
<1>1. /\ fw = "pull" /\ fw' = "drop"
      /\ \/ wire' \in {"ended", "failed"} /\ UNCHANGED abandoned
         \/ wire' = "silent" /\ abandoned' = "timeout"
      /\ UNCHANGED <<size, limit, pulled, frame, chan, rx, input, leftover, reader, op, chunk,
                     buffer, eof, got, told, interrupted>>
  BY DEF PullEnds, readVars
<1>2. abandoned = "no" /\ ~eof
  BY <1>0, <1>1 DEF Forwarding, Ending
<1>3. TypeOK'
  BY <1>0, <1>1 DEF TypeOK
<1>4. Whole'
  BY <1>0, <1>1, <1>2 DEF Whole, Pieces, Coming
<1>5. Reading' /\ Forwarding' /\ Ending'
  BY <1>0, <1>1, <1>2 DEF Reading, Forwarding, Ending
<1>6. QED
  BY <1>3, <1>4, <1>5 DEF Inv

\* The frame goes into the channel, or nowhere when the receiver is gone.
LEMMA SendFrameStep ==
  ASSUME Inv, SendFrame
  PROVE  Inv'
<1>0. TypeOK /\ Whole /\ Reading /\ Forwarding /\ Ending
  BY DEF Inv
<1>1. /\ fw = "send"
      /\ IF rx THEN /\ chan' = Append(chan, frame)
                    /\ fw' = IF Len(chan) < BodyBuffer THEN "pull" ELSE "parked"
               ELSE fw' = "drop" /\ UNCHANGED chan
      /\ UNCHANGED <<size, limit, wire, pulled, frame, abandoned, rx, input, leftover, reader, op,
                     chunk, buffer, eof, got, told, interrupted>>
  BY DEF SendFrame, wireVars, readVars
<1>2. abandoned = "no" /\ ~eof /\ BodyBuffer \in Nat
  BY <1>0, <1>1, BodyAssumption DEF Forwarding, Ending
<1>3. CASE ~rx
  <2>1. chan = <<>> /\ chan' = <<>> /\ fw' = "drop"
    BY <1>0, <1>1, <1>3 DEF Reading
  <2>2. TypeOK'
    BY <1>0, <1>1, <1>2, <2>1 DEF TypeOK
  <2>3. Whole' /\ Reading' /\ Forwarding' /\ Ending'
    BY <1>0, <1>1, <1>2, <1>3, <2>1 DEF Whole, Reading, Forwarding, Ending
  <2>4. QED
    BY <2>2, <2>3 DEF Inv
<1>4. CASE rx
  <2>1. PICK g, b, c, l, e \in Nat : Pieces(g, b, c, l) /\ Coming(l, e)
    BY <1>4, WholeNow
  <2>2. /\ Linked(chan, l, e) /\ e < pulled /\ frame = Bytes(e, pulled) /\ pulled \in Nat
        /\ Len(chan) \in Nat /\ chan \in Seq(Seq(Nat))
    BY <1>0, <1>1, <2>1, LinkedBounds DEF Coming, TypeOK
  <2>3. Linked(chan', l, pulled)
    BY <1>1, <1>4, <2>2, LinkedAppend
  <2>4. Len(chan') = Len(chan) + 1
    <3>1. frame \in Seq(Nat)
      BY <2>1, <2>2, BytesFacts
    <3>2. QED
      BY <1>1, <1>4, <2>2, <3>1, AppendProperties
  <2>5. TypeOK'
    BY <1>0, <1>1, <1>2, <1>4, <2>2, <2>4 DEF TypeOK
  <2>6. Pieces(g, b, c, l)' /\ Coming(l, pulled)'
    BY <1>0, <1>1, <1>2, <1>4, <2>1, <2>2, <2>3 DEF Pieces, Coming, Forwarding
  <2>7. Whole'
    BY <1>1, <2>6 DEF Whole, Pieces, Coming
  <2>8. Reading' /\ Forwarding' /\ Ending'
    BY <1>0, <1>1, <1>2, <1>4 DEF Reading, Forwarding, Ending
  <2>9. QED
    BY <2>5, <2>7, <2>8 DEF Inv
<1>5. QED
  BY <1>3, <1>4

\* The parked frame is in, or the task ends.
LEMMA ForwarderStep ==
  ASSUME Inv, SendResumes \/ ForwarderExits
  PROVE  Inv'
<1>0. TypeOK /\ Whole /\ Reading /\ Forwarding /\ Ending
  BY DEF Inv
<1>1. /\ UNCHANGED <<size, limit, wire, pulled, frame, abandoned, chan, rx, input, leftover, reader,
                     op, chunk, buffer, eof, got, told, interrupted>>
      /\ \/ fw = "parked" /\ fw' = "drop" /\ ~rx
         \/ fw = "parked" /\ fw' = "pull" /\ rx /\ Len(chan) <= BodyBuffer
         \/ fw = "drop" /\ fw' = "gone"
  BY DEF SendResumes, ForwarderExits, wireVars, readVars
<1>2. TypeOK'
  <2>1. ~rx => Len(chan) = 0
    BY <1>0, EmptySeq DEF Reading
  <2>2. QED
    BY <1>0, <1>1, <2>1, BodyAssumption DEF TypeOK
<1>3. Whole'
  BY <1>0, <1>1 DEF Whole, Pieces, Coming
<1>4. Reading' /\ Forwarding' /\ Ending'
  BY <1>0, <1>1 DEF Reading, Forwarding, Ending
<1>5. QED
  BY <1>2, <1>3, <1>4 DEF Inv

-----------------------------------------------------------------------------
(* The reader's steps                                                      *)

\* A read hands out no more than there is: all of it without a length, and
\* nothing of nothing.
LEMMA ShareFacts ==
  ASSUME BodyAssumption, buffer \in Seq(Nat), op \in Ops
  PROVE  /\ Share \in Nat /\ Share <= Len(buffer)
         /\ op = All => Share = Len(buffer)
<1> DEFINE I == {i \in 1..Len(buffer) : Newline(buffer[i])}
<1>1. Len(buffer) \in Nat
  BY LenProperties
<1>2. SelectInSeq(buffer, Newline) = IF I # {} THEN Min(I) ELSE 0
  BY DEF SelectInSeq
<1>3. ASSUME I # {} PROVE Min(I) \in I
  <2>1. I \subseteq Nat
    BY <1>1
  <2> HIDE DEF I
  <2>2. \E x \in I : \A y \in I : x <= y
    BY <1>3, <2>1, LeastNatural
  <2>3. QED
    BY <2>2 DEF Min
<1>4. SelectInSeq(buffer, Newline) \in 0..Len(buffer)
  <2>1. I \subseteq 0..Len(buffer) /\ 0 \in 0..Len(buffer)
    BY <1>1
  <2> HIDE DEF I
  <2>2. QED
    BY <1>2, <1>3, <2>1
<1>5. op \in Int /\ (op \notin {All, Line} => op \in Nat)
  BY BodyAssumption DEF Ops, All, Line
<1>6. QED
  BY <1>1, <1>4, <1>5 DEF Share, All, Line

\* Input hands out the front of its buffer; end of file is told at the end.
LEMMA ReadReturnStep ==
  ASSUME Inv, ReadReturn
  PROVE  Inv'
<1>0. TypeOK /\ Whole /\ Reading /\ Forwarding /\ Ending
  BY DEF Inv
<1>1. PICK k : k = Share
  OBVIOUS
<1>2. /\ reader = "fill" /\ Filled /\ reader' = "idle"
      /\ got' = got \o SubSeq(buffer, 1, k)
      /\ buffer' = SubSeq(buffer, k + 1, Len(buffer))
      /\ told' = IF op = All \/ (buffer = <<>> /\ op # 0) THEN told \cup {"eof"} ELSE told
      /\ UNCHANGED <<size, limit, wire, pulled, fw, frame, abandoned, chan, rx, input, leftover, op,
                     chunk, eof, interrupted>>
  BY <1>1 DEF ReadReturn, wireVars, fwVars
<1>3. rx /\ input = "live" /\ chunk = <<>>
  BY <1>0, <1>2 DEF Reading
<1>4. PICK g, b, c, l, e \in Nat :
        /\ Pieces(g, b, c, l) /\ Coming(l, e) /\ g <= b /\ b <= c /\ c <= l
        /\ Len(got) = g /\ Len(buffer) = b - g /\ (buffer = <<>> <=> g = b)
  BY <1>3, WholeNow
<1>5. got = Bytes(0, g) /\ buffer = Bytes(g, b) /\ buffer \in Seq(Nat)
  BY <1>4, BytesFacts DEF Pieces
<1>6. k \in Nat /\ k <= b - g /\ (op = All => k = b - g)
  BY <1>0, <1>1, <1>4, <1>5, ShareFacts, BodyAssumption DEF TypeOK
<1>7. PICK h \in Nat : h = g + k
  BY <1>6
<1>8. g <= h /\ h <= b
  BY <1>4, <1>6, <1>7
<1>9. buffer' = Bytes(h, b) /\ SubSeq(buffer, 1, k) = Bytes(g, h)
  <2>1. /\ SubSeq(Bytes(g, b), 1, k) = Bytes(g, h)
        /\ SubSeq(Bytes(g, b), k + 1, Len(Bytes(g, b))) = Bytes(h, b)
    <3>1. g \in Nat /\ b \in Nat /\ g <= b /\ k \in Nat /\ k <= b - g /\ h = g + k
      BY <1>4, <1>6, <1>7
    <3>2. CutAt(g, b, k, h)
      BY <3>1, BytesCut
    <3>3. QED
      BY <3>2 DEF CutAt
  <2>2. QED
    BY <1>2, <1>5, <2>1
<1>10. got' = Bytes(0, h)
  <2>1. 0 \in Nat /\ 0 <= g
    BY <1>4
  <2>2. Bytes(0, g) \o Bytes(g, h) = Bytes(0, h)
    BY <1>7, <1>8, <2>1, BytesJoin
  <2>3. QED
    BY <1>2, <1>5, <1>9, <2>2
<1>11. Len(got') = h /\ Len(buffer') = b - h /\ (buffer' = <<>> <=> h = b)
  <2>1. Len(Bytes(0, h)) = h
    <3>1. 0 \in Nat /\ 0 <= h
      BY <1>7
    <3>2. Len(Bytes(0, h)) = h - 0
      BY <1>7, <3>1, BytesFacts
    <3>3. QED
      BY <1>7, <3>2
  <2>2. Len(Bytes(h, b)) = b - h /\ (Bytes(h, b) = <<>> <=> h = b)
    BY <1>7, <1>8, BytesFacts
  <2>3. QED
    BY <1>7, <1>9, <1>10, <2>1, <2>2
<1>12. Pieces(h, b, c, l)'
  BY <1>2, <1>4, <1>8, <1>9, <1>10 DEF Pieces
<1>13. Coming(l, e)'
  BY <1>2, <1>4 DEF Coming
<1>14. TypeOK'
  BY <1>0, <1>2 DEF TypeOK
<1>15. Whole'
  BY <1>12, <1>13 DEF Whole
<1>16. Reading' /\ Forwarding'
  BY <1>0, <1>2 DEF Reading, Forwarding
<1>17. ASSUME "eof" \in told' PROVE eof /\ buffer' = <<>>
  <2>1. CASE "eof" \in told
    <3>1. eof /\ buffer = <<>>
      BY <1>0, <1>3, <2>1 DEF Ending
    <3>2. QED
      BY <1>4, <1>8, <1>11, <3>1
  <2>2. CASE "eof" \notin told
    <3>1. op = All \/ (buffer = <<>> /\ op # 0)
      BY <1>2, <1>17, <2>2
    <3>2. h = b
      BY <1>4, <1>6, <1>7, <3>1
    <3>3. eof
      <4>1. CASE op = All
        BY <1>2, <4>1, BodyAssumption DEF Filled, All, Line
      <4>2. CASE buffer = <<>> /\ op # 0
        <5>1. Len(buffer) = 0 /\ SelectInSeq(buffer, Newline) = 0
          BY <4>2 DEF SelectInSeq
        <5>2. op \in Lengths => op \in Nat
          BY BodyAssumption
        <5>3. QED
          BY <1>2, <4>2, <5>1, <5>2 DEF Filled
      <4>3. QED
        BY <3>1, <4>1, <4>2
    <3>4. QED
      BY <1>11, <3>2, <3>3
  <2>3. QED
    BY <2>1, <2>2
<1>18. Ending'
  <2>1. ASSUME eof PROVE Len(got') + Len(buffer') = pulled
    <3>1. g + (b - g) = pulled
      BY <1>0, <1>4, <2>1 DEF Ending
    <3>2. QED
      BY <1>7, <1>11, <3>1
  <2>2. Len(got') \in Nat /\ Len(buffer') \in Nat
    BY <1>7, <1>8, <1>11
  <2>3. input' = "live"
    BY <1>2, <1>3
  <2>4. QED
    BY <1>0, <1>2, <1>17, <2>1, <2>2, <2>3 DEF Ending
<1>19. QED
  BY <1>14, <1>15, <1>16, <1>18 DEF Inv

\* read_body starts with the leftover.
LEMMA PullStep ==
  ASSUME Inv, Pull
  PROVE  Inv'
<1>0. TypeOK /\ Whole /\ Reading /\ Forwarding /\ Ending
  BY DEF Inv
<1>1. /\ reader = "fill" /\ ~eof /\ chunk' = leftover /\ leftover' = <<>>
      /\ reader' = IF leftover # <<>> THEN "split" ELSE "recv"
      /\ UNCHANGED <<size, limit, wire, pulled, fw, frame, abandoned, chan, rx, input, op, buffer,
                     eof, got, told, interrupted>>
  BY DEF Pull, Filled, wireVars, fwVars
<1>2. rx /\ chunk = <<>>
  BY <1>0, <1>1 DEF Reading
<1>3. PICK g, b, c, l, e \in Nat :
        Pieces(g, b, c, l) /\ Coming(l, e) /\ g <= b /\ c <= l /\ b = c
  BY <1>2, WholeNow
<1>4. leftover' = Bytes(l, l)
  BY <1>1, BytesFacts
<1>5. Pieces(g, b, l, l)' /\ Coming(l, e)'
  BY <1>1, <1>3, <1>4 DEF Pieces, Coming
<1>6. Whole'
  BY <1>5 DEF Whole
<1>7. TypeOK'
  <2>1. Len(leftover') = 0 /\ MaxSize \in Nat
    BY <1>1, BodyAssumption
  <2>2. QED
    BY <1>0, <1>1, <2>1 DEF TypeOK
<1>8. Reading' /\ Forwarding' /\ Ending'
  BY <1>0, <1>1 DEF Reading, Forwarding, Ending
<1>9. QED
  BY <1>6, <1>7, <1>8 DEF Inv

\* The blocking receive: a frame, the interrupt, or the end of the channel.
LEMMA ReceiveStep ==
  ASSUME Inv, Receive
  PROVE  Inv'
<1>0. TypeOK /\ Whole /\ Reading /\ Forwarding /\ Ending
  BY DEF Inv
<1>1. /\ reader = "recv"
      /\ UNCHANGED <<size, limit, wire, pulled, fw, frame, abandoned, rx, input, leftover, op, buffer,
                     got, interrupted>>
  BY DEF Receive, wireVars, fwVars
<1>2. rx /\ chunk = <<>> /\ leftover = <<>> /\ ~eof
  BY <1>0, <1>1 DEF Reading, Ending
<1>3. PICK g, b, c, l, e \in Nat :
        /\ Pieces(g, b, c, l) /\ Coming(l, e) /\ g <= b /\ b = c /\ c = l
        /\ Len(got) = g /\ Len(buffer) = b - g
  BY <1>2, WholeNow
<1>4. ASSUME NEW how \in {"oversize", "timeout", "interrupted"}, Raise(how) PROVE Inv'
  <2>1. told' = told \cup {how} /\ reader' = "idle" /\ UNCHANGED <<chan, chunk, eof>>
    BY <1>4 DEF Raise
  <2>2. TypeOK'
    BY <1>0, <1>1, <2>1 DEF TypeOK
  <2>3. Whole'
    BY <1>0, <1>1, <2>1 DEF Whole, Pieces, Coming
  <2>4. Reading' /\ Forwarding' /\ Ending'
    BY <1>0, <1>1, <1>2, <2>1 DEF Reading, Forwarding, Ending
  <2>5. QED
    BY <2>2, <2>3, <2>4 DEF Inv
<1>5. ASSUME chan # <<>>, chunk' = Head(chan), chan' = Tail(chan), reader' = "split",
             UNCHANGED <<eof, told>>
      PROVE  Inv'
  <2>1. PICK d \in Nat : l < d /\ d <= e /\ Head(chan) = Bytes(l, d) /\ Linked(Tail(chan), d, e)
    BY <1>3, <1>5, LinkedTail DEF Coming
  <2>2. leftover' = Bytes(d, d)
    BY <1>1, <1>2, BytesFacts
  <2>3. Pieces(g, b, d, d)' /\ Coming(d, e)'
    BY <1>1, <1>3, <1>5, <2>1, <2>2 DEF Pieces, Coming
  <2>4. Whole'
    BY <2>3 DEF Whole
  <2>5. TypeOK'
    <3>1. chan \in Seq(Seq(Nat)) /\ Len(chan) \in Nat /\ Len(Tail(chan)) = Len(chan) - 1
      BY <1>3, <1>5, LinkedBounds, HeadTailProperties DEF Coming
    <3>2. QED
      BY <1>0, <1>1, <1>5, <3>1, BodyAssumption DEF TypeOK
  <2>6. Reading' /\ Forwarding' /\ Ending'
    BY <1>0, <1>1, <1>2, <1>5 DEF Reading, Forwarding, Ending
  <2>7. QED
    BY <2>4, <2>5, <2>6 DEF Inv
<1>6. ASSUME chan = <<>>, Disconnected, abandoned = "no", eof' = TRUE, reader' = "fill",
             UNCHANGED <<chan, chunk, told>>
      PROVE  Inv'
  <2>1. fw = "gone" /\ wire \in {"ended", "failed"} /\ e = pulled
    BY <1>0, <1>2, <1>3, <1>6 DEF Disconnected, Forwarding, Coming
  <2>2. l = e
    BY <1>3, <1>6, LinkedNone DEF Coming
  <2>3. TypeOK'
    BY <1>0, <1>1, <1>6 DEF TypeOK
  <2>4. Whole'
    BY <1>0, <1>1, <1>6 DEF Whole, Pieces, Coming
  <2>5. Reading' /\ Forwarding'
    BY <1>0, <1>1, <1>2, <1>6 DEF Reading, Forwarding
  <2>6. Ending'
    BY <1>0, <1>1, <1>2, <1>3, <1>6, <2>1, <2>2 DEF Ending
  <2>7. QED
    BY <2>3, <2>4, <2>5, <2>6 DEF Inv
<1>7. QED
  <2>1. abandoned \in {"no", "oversize", "timeout"}
    BY <1>0 DEF TypeOK
  <2>2. CASE interrupted
    BY <1>4, <2>2 DEF Receive
  <2>3. CASE ~interrupted /\ chan # <<>>
    BY <1>5, <2>3 DEF Receive
  <2>4. CASE ~interrupted /\ chan = <<>> /\ abandoned # "no"
    <3>1. Raise(abandoned)
      BY <2>4 DEF Receive
    <3>2. PICK how \in {"oversize", "timeout", "interrupted"} : how = abandoned
      BY <2>1, <2>4
    <3>3. Raise(how)
      BY <3>1, <3>2
    <3>4. QED
      BY <1>4, <3>3
  <2>5. CASE ~interrupted /\ chan = <<>> /\ abandoned = "no"
    BY <1>6, <2>5 DEF Receive
  <2>6. QED
    BY <2>2, <2>3, <2>4, <2>5

\* A chunk longer than max_len is split into buffer and leftover.
LEMMA SplitStep ==
  ASSUME Inv, Split
  PROVE  Inv'
<1>0. TypeOK /\ Whole /\ Reading /\ Forwarding /\ Ending
  BY DEF Inv
<1>1. /\ reader = "split"
      /\ IF Len(chunk) > ChunkSize
         THEN /\ leftover' = SubSeq(chunk, ChunkSize + 1, Len(chunk))
              /\ buffer' = buffer \o SubSeq(chunk, 1, ChunkSize)
              /\ chunk' = <<>> /\ reader' = "fill"
         ELSE reader' = "drain" /\ UNCHANGED <<leftover, buffer, chunk>>
      /\ UNCHANGED <<size, limit, wire, pulled, fw, frame, abandoned, chan, rx, input, op, eof, got,
                     told, interrupted>>
  BY DEF Split, wireVars, fwVars
<1>2. rx /\ leftover = <<>> /\ ~eof /\ ChunkSize \in Nat /\ MaxSize \in Nat
  BY <1>0, <1>1, BodyAssumption DEF Reading, Ending
<1>3. PICK g, b, c, l, e \in Nat :
        /\ Pieces(g, b, c, l) /\ Coming(l, e) /\ g <= b /\ b <= c /\ c = l /\ l <= e
        /\ Len(chunk) = c - b
  BY <1>2, WholeNow
<1>4. CASE Len(chunk) > ChunkSize
  <2>1. PICK d \in Nat : d = b + ChunkSize
    BY <1>2
  <2>2. /\ b \in Nat /\ c \in Nat /\ b <= c /\ ChunkSize \in Nat /\ ChunkSize <= c - b
        /\ d = b + ChunkSize
    BY <1>2, <1>3, <1>4, <2>1
  <2>3. /\ SubSeq(Bytes(b, c), 1, ChunkSize) = Bytes(b, d)
        /\ SubSeq(Bytes(b, c), ChunkSize + 1, Len(Bytes(b, c))) = Bytes(d, c)
    <3>1. CutAt(b, c, ChunkSize, d)
      BY <2>2, BytesCut
    <3>2. QED
      BY <3>1 DEF CutAt
  <2>4. g <= b /\ b <= d /\ d <= c
    BY <1>3, <2>1, <2>2
  <2>5. Bytes(g, b) \o Bytes(b, d) = Bytes(g, d)
    BY <2>1, <2>4, BytesJoin
  <2>6. buffer = Bytes(g, b) /\ chunk = Bytes(b, c)
    BY <1>3 DEF Pieces
  <2>7. leftover' = Bytes(d, c) /\ buffer' = Bytes(g, d)
    BY <1>1, <1>4, <2>3, <2>5, <2>6
  <2>8. chunk' = Bytes(d, d)
    BY <1>1, <1>4, <2>1, BytesFacts
  <2>9. Pieces(g, d, d, c)' /\ Coming(c, e)'
    BY <1>1, <1>3, <2>1, <2>4, <2>7, <2>8 DEF Pieces, Coming
  <2>10. Whole'
    BY <2>9 DEF Whole
  <2>11. TypeOK'
    <3>1. Len(leftover') = c - d
      BY <2>1, <2>4, <2>7, BytesFacts
    <3>2. e <= pulled /\ pulled \in 0..MaxSize
      BY <1>0, <1>3 DEF Coming, TypeOK
    <3>3. Len(leftover') < MaxSize + 1
      BY <1>2, <1>3, <2>1, <2>4, <3>1, <3>2
    <3>4. QED
      BY <1>0, <1>1, <1>4, <3>3 DEF TypeOK
  <2>12. Reading' /\ Forwarding' /\ Ending'
    BY <1>0, <1>1, <1>2, <1>4 DEF Reading, Forwarding, Ending
  <2>13. QED
    BY <2>10, <2>11, <2>12 DEF Inv
<1>5. CASE ~(Len(chunk) > ChunkSize)
  <2>1. reader' = "drain" /\ UNCHANGED <<leftover, buffer, chunk>> /\ Len(chunk) <= ChunkSize
    BY <1>1, <1>2, <1>3, <1>5
  <2>2. Whole'
    BY <1>0, <1>1, <2>1 DEF Whole, Pieces, Coming
  <2>3. TypeOK'
    BY <1>0, <1>1, <2>1 DEF TypeOK
  <2>4. Reading' /\ Forwarding' /\ Ending'
    BY <1>0, <1>1, <1>2, <2>1 DEF Reading, Forwarding, Ending
  <2>5. QED
    BY <2>2, <2>3, <2>4 DEF Inv
<1>6. QED
  BY <1>4, <1>5

\* The greedy drain: a leftover is made only when the chunk is full.
LEMMA DrainStep ==
  ASSUME Inv, Drain
  PROVE  Inv'
<1>0. TypeOK /\ Whole /\ Reading /\ Forwarding /\ Ending
  BY DEF Inv
<1>1. /\ reader = "drain"
      /\ UNCHANGED <<size, limit, wire, pulled, fw, frame, abandoned, rx, input, op, eof, got, told,
                     interrupted>>
  BY DEF Drain, wireVars, fwVars
<1>2. /\ rx /\ ~eof /\ ChunkSize \in Nat /\ MaxSize \in Nat /\ BodyBuffer \in Nat
      /\ Len(chunk) <= ChunkSize
  BY <1>0, <1>1, BodyAssumption DEF Reading, Ending, TypeOK
<1>3. PICK g, b, c, l, e \in Nat :
        /\ Pieces(g, b, c, l) /\ Coming(l, e) /\ g <= b /\ b <= c /\ c <= l /\ l <= e
        /\ Len(chunk) = c - b /\ (leftover = <<>> <=> c = l)
  BY <1>2, WholeNow
<1>4. got = Bytes(0, g) /\ buffer = Bytes(g, b) /\ chunk = Bytes(b, c) /\ leftover = Bytes(c, l)
  BY <1>3 DEF Pieces
<1>5. CASE Len(chunk) < ChunkSize /\ chan # <<>>
  <2>1. leftover = <<>> /\ c = l
    BY <1>0, <1>1, <1>3, <1>5 DEF Reading
  <2>2. PICK more : more = Head(chan)
    OBVIOUS
  <2>3. PICK room \in Nat : room = ChunkSize - Len(chunk)
    BY <1>2, <1>3
  <2>4. PICK k : k = IF Len(more) > room THEN room ELSE Len(more)
    OBVIOUS
  <2>5. /\ chan' = Tail(chan) /\ chunk' = chunk \o SubSeq(more, 1, k)
        /\ leftover' = (IF Len(more) > room THEN SubSeq(more, room + 1, Len(more)) ELSE leftover)
        /\ UNCHANGED <<reader, buffer>>
    BY <1>5, <2>2, <2>3, <2>4 DEF Drain
  <2>6. PICK d \in Nat : c < d /\ d <= e /\ more = Bytes(c, d) /\ Linked(Tail(chan), d, e)
    BY <1>3, <1>5, <2>1, <2>2, LinkedTail DEF Coming
  <2>7. Len(more) = d - c
    <3>1. c <= d /\ more = Bytes(c, d)
      BY <2>6
    <3>2. Len(Bytes(c, d)) = d - c
      BY <3>1, BytesFacts
    <3>3. QED
      BY <3>1, <3>2
  <2>8. k \in Nat /\ k <= d - c /\ (Len(more) > room => k = room) /\ (~(Len(more) > room) => k = d - c)
    BY <2>3, <2>4, <2>6, <2>7
  <2>9. PICK h \in Nat : h = c + k
    BY <2>8
  <2>10. b <= c /\ c <= h /\ h <= d
    BY <1>3, <2>6, <2>8, <2>9
  <2>11. /\ SubSeq(Bytes(c, d), 1, k) = Bytes(c, h)
         /\ SubSeq(Bytes(c, d), k + 1, Len(Bytes(c, d))) = Bytes(h, d)
    <3>1. c \in Nat /\ d \in Nat /\ c <= d /\ k \in Nat /\ k <= d - c /\ h = c + k
      BY <2>6, <2>8, <2>9
    <3>2. CutAt(c, d, k, h)
      BY <3>1, BytesCut
    <3>3. QED
      BY <3>2 DEF CutAt
  <2>12. chunk' = Bytes(b, h)
    <3>1. Bytes(b, c) \o Bytes(c, h) = Bytes(b, h)
      BY <2>9, <2>10, BytesJoin
    <3>2. QED
      BY <1>4, <2>5, <2>6, <2>11, <3>1
  <2>13. leftover' = Bytes(h, d)
    <3>1. CASE Len(more) > room
      BY <2>5, <2>6, <2>8, <2>11, <3>1
    <3>2. CASE ~(Len(more) > room)
      <4>1. h = d
        BY <2>6, <2>8, <2>9, <3>2
      <4>2. Bytes(h, d) = <<>>
        BY <2>9, <2>10, <4>1, BytesFacts
      <4>3. QED
        BY <2>1, <2>5, <3>2, <4>2
    <3>3. QED
      BY <3>1, <3>2
  <2>14. Pieces(g, b, h, d)'
    <3>1. {g, b, h, d} \subseteq Nat /\ g <= b /\ b <= h /\ h <= d
      BY <1>3, <2>6, <2>9, <2>10
    <3>2. QED
      BY <1>1, <1>4, <2>5, <2>12, <2>13, <3>1 DEF Pieces
  <2>15. Coming(d, e)'
    BY <1>1, <1>3, <2>5, <2>6 DEF Coming
  <2>16. Whole'
    BY <2>14, <2>15 DEF Whole
  <2>17. Len(leftover') = d - h /\ Len(chunk') = h - b /\ (leftover' = <<>> <=> h = d)
    <3>1. b <= h
      BY <2>9, <2>10
    <3>2. Len(Bytes(b, h)) = h - b
      BY <2>9, <3>1, BytesFacts
    <3>3. Len(Bytes(h, d)) = d - h /\ (Bytes(h, d) = <<>> <=> h = d)
      BY <2>9, <2>10, BytesFacts
    <3>4. QED
      BY <2>12, <2>13, <3>2, <3>3
  <2>18. Len(chunk') <= ChunkSize /\ (Len(chunk') < ChunkSize => leftover' = <<>>)
    <3>1. CASE Len(more) > room
      BY <1>2, <1>3, <2>3, <2>8, <2>9, <2>17, <3>1
    <3>2. CASE ~(Len(more) > room)
      BY <1>2, <1>3, <2>3, <2>6, <2>7, <2>8, <2>9, <2>17, <3>2
    <3>3. QED
      BY <3>1, <3>2
  <2>19. TypeOK'
    <3>1. e <= pulled /\ pulled \in 0..MaxSize
      BY <1>0, <1>3 DEF Coming, TypeOK
    <3>2. Len(leftover') < MaxSize + 1
      BY <1>2, <2>6, <2>9, <2>10, <2>17, <3>1
    <3>3. chan \in Seq(Seq(Nat)) /\ Len(chan) \in Nat /\ Len(Tail(chan)) = Len(chan) - 1
      BY <1>3, <1>5, LinkedBounds, HeadTailProperties DEF Coming
    <3>4. Len(chan') <= BodyBuffer + (IF fw = "parked" THEN 1 ELSE 0)
      BY <1>0, <1>2, <2>5, <3>3 DEF TypeOK
    <3>5. QED
      BY <1>0, <1>1, <2>5, <2>18, <3>2, <3>4 DEF TypeOK
  <2>20. Reading' /\ Forwarding' /\ Ending'
    BY <1>0, <1>1, <1>2, <2>5, <2>18 DEF Reading, Forwarding, Ending
  <2>21. QED
    BY <2>16, <2>19, <2>20 DEF Inv
<1>6. CASE ~(Len(chunk) < ChunkSize /\ chan # <<>>)
  <2>1. /\ buffer' = buffer \o chunk /\ chunk' = <<>> /\ reader' = "fill"
        /\ UNCHANGED <<chan, leftover>>
    BY <1>6 DEF Drain
  <2>2. buffer' = Bytes(g, c)
    <3>1. Bytes(g, b) \o Bytes(b, c) = Bytes(g, c)
      BY <1>3, BytesJoin
    <3>2. QED
      BY <1>4, <2>1, <3>1
  <2>3. chunk' = Bytes(c, c)
    <3>1. c <= c
      BY <1>3
    <3>2. QED
      BY <2>1, <3>1, BytesFacts
  <2>4. Pieces(g, c, c, l)' /\ Coming(l, e)'
    BY <1>1, <1>3, <1>4, <2>1, <2>2, <2>3 DEF Pieces, Coming
  <2>5. Whole'
    BY <2>4 DEF Whole
  <2>6. TypeOK'
    BY <1>0, <1>1, <2>1 DEF TypeOK
  <2>7. Reading' /\ Forwarding' /\ Ending'
    BY <1>0, <1>1, <1>2, <2>1 DEF Reading, Forwarding, Ending
  <2>8. QED
    BY <2>5, <2>6, <2>7 DEF Inv
<1>7. QED
  BY <1>5, <1>6

\* The worker admits the request, the app starts a read or asks an input
\* without a body, the worker is interrupted, the context is dropped.
LEMMA OtherStep ==
  ASSUME Inv, BuildEnv \/ NullRead \/ StartRead \/ Interrupt \/ DropCtx \/ UNCHANGED vars
  PROVE  Inv'
<1>0. TypeOK /\ Whole /\ Reading /\ Forwarding /\ Ending
  BY DEF Inv
<1>1. /\ UNCHANGED <<size, limit, wire, pulled, fw, frame, abandoned, leftover, chunk, buffer, eof, got>>
      /\ \/ /\ input = "unbuilt" /\ input' \in {"live", "null"} /\ (input' = "live" => fw # "none")
            /\ UNCHANGED <<chan, rx, reader, op, told, interrupted>>
         \/ /\ input = "null" /\ told' = told \cup {"eof"}
            /\ UNCHANGED <<chan, rx, input, reader, op, interrupted>>
         \/ /\ input = "live" /\ rx /\ reader = "idle" /\ op' \in Ops /\ reader' = "fill"
            /\ UNCHANGED <<chan, rx, input, told, interrupted>>
         \/ /\ interrupted' = TRUE /\ UNCHANGED <<chan, rx, input, reader, op, told>>
         \/ /\ rx /\ reader = "idle" /\ rx' = FALSE /\ chan' = <<>>
            /\ UNCHANGED <<input, reader, op, told, interrupted>>
         \/ UNCHANGED <<chan, rx, input, reader, op, told, interrupted>>
  BY DEF BuildEnv, NullRead, StartRead, Interrupt, DropCtx, BodyPossible, vars, wireVars, fwVars,
         readVars
<1>2. TypeOK'
  <2>1. chan' = chan \/ Len(chan') = 0
    BY <1>1
  <2>2. 0 <= BodyBuffer + (IF fw = "parked" THEN 1 ELSE 0)
    BY BodyAssumption
  <2>3. Len(chan') <= BodyBuffer + (IF fw' = "parked" THEN 1 ELSE 0)
    BY <1>0, <1>1, <2>1, <2>2 DEF TypeOK
  <2>4. /\ {rx', eof', interrupted'} \subseteq BOOLEAN /\ op' \in Ops
        /\ input' \in {"unbuilt", "null", "live"}
        /\ reader' \in {"idle", "fill", "recv", "split", "drain"} /\ (reader' = "drain" => reader = "drain")
        /\ told' \subseteq {"eof", "oversize", "timeout", "interrupted"}
    BY <1>0, <1>1 DEF TypeOK
  <2>5. QED
    BY <1>0, <1>1, <2>3, <2>4 DEF TypeOK
<1>3. Whole'
  <2>1. CASE ~rx'
    BY <2>1 DEF Whole
  <2>2. CASE rx'
    <3>1. rx /\ chan' = chan
      BY <1>1, <2>2
    <3>2. QED
      BY <1>0, <1>1, <3>1 DEF Whole, Pieces, Coming
  <2>3. QED
    BY <2>1, <2>2
<1>4. Reading' /\ Forwarding'
  BY <1>0, <1>1 DEF Reading, Forwarding
<1>5. Ending'
  BY <1>0, <1>1 DEF Ending
<1>6. QED
  BY <1>2, <1>3, <1>4, <1>5 DEF Inv

\* Every step keeps the invariant.
LEMMA InvStep ==
  ASSUME Inv, [Next]_vars
  PROVE  Inv'
<1>1. CASE Forward
  BY <1>1, PullFrameStep, PullEndsStep, SendFrameStep, ForwarderStep DEF Forward
<1>2. CASE Read
  BY <1>2, ReadReturnStep, PullStep, ReceiveStep, SplitStep, DrainStep DEF Read
<1>3. CASE ~Forward /\ ~Read
  BY <1>3, OtherStep DEF Next
<1>4. QED
  BY <1>1, <1>2, <1>3

\* A request starts with nothing pulled.
LEMMA InvInit ==
  ASSUME Init
  PROVE  Inv
<1>1. TypeOK
  <2>1. /\ Len(chan) = 0 /\ Len(leftover) = 0 /\ fw \in {"pull", "none"} /\ op \in Ops
        /\ pulled \in 0..MaxSize
    BY BodyAssumption DEF Init, Ops
  <2>2. Len(leftover) < MaxSize + 1 /\ Len(chan) <= BodyBuffer + (IF fw = "parked" THEN 1 ELSE 0)
    BY <2>1, BodyAssumption
  <2>3. {rx, eof, interrupted} \subseteq BOOLEAN /\ told \subseteq {"eof", "oversize", "timeout", "interrupted"}
    BY DEF Init
  <2>4. QED
    BY <2>1, <2>2, <2>3 DEF Init, TypeOK
<1>2. Bytes(0, 0) = <<>>
  <2>1. 0 \in Nat /\ 0 <= 0
    OBVIOUS
  <2>2. QED
    BY <2>1, BytesFacts
<1>3. Linked(chan, 0, 0)
  BY LinkedNone DEF Init
<1>4. Pieces(0, 0, 0, 0) /\ Coming(0, 0)
  BY <1>2, <1>3, BodyAssumption DEF Init, Pieces, Coming
<1>5. Whole
  BY <1>4 DEF Whole
<1>6. Reading /\ Forwarding /\ Ending
  BY BodyAssumption DEF Init, Reading, Forwarding, Ending
<1>7. QED
  BY <1>1, <1>5, <1>6 DEF Inv

\* The invariant of a body's life.
LEMMA InvHolds == Spec => []Inv
<1>1. Init => Inv
  BY InvInit
<1>2. Inv /\ [Next]_vars => Inv'
  BY InvStep
<1>3. QED
  BY <1>1, <1>2, PTL DEF Spec

-----------------------------------------------------------------------------
(* What it gives                                                           *)

\* the last byte before the i-th of the frames fs that follow a
Start(fs, a, i) == IF i = 1 THEN a ELSE Last(fs[i - 1])

\* Linked frames are told by their last bytes.
LEMMA LinkedEnds ==
  ASSUME NEW fs, NEW a, NEW b, Linked(fs, a, b)
  PROVE  /\ \A i \in 1..Len(fs) : fs[i] # <<>> /\ fs[i] = Bytes(Start(fs, a, i), Last(fs[i]))
         /\ Start(fs, a, Len(fs) + 1) = b
<1>1. PICK m : Cuts(fs, a, b, m)
  BY DEF Linked
<1>2. a \in Nat /\ b \in Nat /\ Len(fs) \in Nat
  BY LinkedBounds
<1>3. PICK n \in Nat : n = Len(fs)
  BY <1>2
<1>4. m \in [0..n -> Nat] /\ m[0] = a /\ m[n] = b
  BY <1>1, <1>3 DEF Cuts
<1>5. ASSUME NEW i \in 1..n PROVE fs[i] = Bytes(m[i - 1], m[i]) /\ fs[i] # <<>> /\ Last(fs[i]) = m[i]
  <2>1. i \in 0..n /\ i - 1 \in 0..n /\ i - 1 < i
    BY <1>3, <1>5
  <2>2. fs[i] = Bytes(m[i - 1], m[i])
    BY <1>1, <1>3, <1>5 DEF Cuts
  <2>3. m[i - 1] < m[i]
    BY <1>1, <1>3, <2>1 DEF Cuts
  <2>4. PICK x \in Nat, y \in Nat : x = m[i - 1] /\ y = m[i]
    BY <1>4, <2>1
  <2>5. x <= y /\ x # y /\ y - x \in 1..(y - x) /\ x + (y - x) = y
    BY <2>3, <2>4
  <2>6. /\ Len(Bytes(x, y)) = y - x /\ Bytes(x, y) # <<>>
        /\ \A j \in 1..(y - x) : Bytes(x, y)[j] = x + j
    BY <2>5, BytesFacts
  <2>7. Bytes(x, y)[Len(Bytes(x, y))] = y
    BY <2>5, <2>6
  <2>8. QED
    BY <2>2, <2>4, <2>6, <2>7 DEF Last
<1>6. ASSUME NEW i \in 1..(n + 1) PROVE Start(fs, a, i) = m[i - 1]
  <2>1. CASE i = 1
    BY <1>4, <2>1 DEF Start
  <2>2. CASE i # 1
    <3>1. i - 1 \in 1..n
      BY <1>3, <1>6, <2>2
    <3>2. Last(fs[i - 1]) = m[i - 1]
      BY <1>5, <3>1
    <3>3. QED
      BY <2>2, <3>2 DEF Start
  <2>3. QED
    BY <2>1, <2>2
<1>7. ASSUME NEW i \in 1..n PROVE fs[i] # <<>> /\ fs[i] = Bytes(Start(fs, a, i), Last(fs[i]))
  <2>1. i \in 1..(n + 1)
    BY <1>3, <1>7
  <2>2. Start(fs, a, i) = m[i - 1]
    BY <1>6, <2>1
  <2>3. QED
    BY <1>5, <1>7, <2>2
<1>8. Start(fs, a, n + 1) = b
  <2>1. n + 1 \in 1..(n + 1) /\ (n + 1) - 1 = n
    BY <1>3
  <2>2. Start(fs, a, n + 1) = m[(n + 1) - 1]
    BY <1>6, <2>1
  <2>3. QED
    BY <1>4, <2>1, <2>2
<1>9. QED
  BY <1>3, <1>7, <1>8

\* What has left the channel is one run of bytes, and the frames after it
\* are linked to it.
LEMMA InvInOrder ==
  ASSUME Inv
  PROVE  BytesInOrder
<1>0. TypeOK /\ Forwarding
  BY DEF Inv
<1>1. ASSUME rx
      PROVE  /\ Passed = Bytes(0, Len(Passed))
             /\ \A i \in 1..Len(Frames) :
                  Frames[i] # <<>> /\ Frames[i] = Bytes(Before(i), Last(Frames[i]))
             /\ abandoned # "oversize" => Before(Len(Frames) + 1) = pulled
             /\ limit > 0 => Before(Len(Frames) + 1) <= limit
  <2>1. PICK g, b, c, l, e \in Nat :
          Pieces(g, b, c, l) /\ Coming(l, e) /\ g <= b /\ b <= c /\ c <= l /\ l <= e
    BY <1>1, WholeNow
  <2>2. Passed = Bytes(0, l)
    <3>1. got = Bytes(0, g) /\ buffer = Bytes(g, b) /\ chunk = Bytes(b, c) /\ leftover = Bytes(c, l)
      BY <2>1 DEF Pieces
    <3>2. 0 \in Nat /\ 0 <= g /\ 0 <= b /\ 0 <= c /\ g <= b /\ b <= c /\ c <= l
      BY <2>1
    <3>3. Bytes(0, g) \o Bytes(g, b) = Bytes(0, b)
      BY <3>2, BytesJoin
    <3>4. Bytes(0, b) \o Bytes(b, c) = Bytes(0, c)
      BY <3>2, BytesJoin
    <3>5. Bytes(0, c) \o Bytes(c, l) = Bytes(0, l)
      BY <3>2, BytesJoin
    <3>6. QED
      BY <3>1, <3>3, <3>4, <3>5 DEF Passed
  <2>3. Len(Passed) = l
    <3>1. 0 \in Nat /\ 0 <= l /\ l - 0 = l
      BY <2>1
    <3>2. Len(Bytes(0, l)) = l - 0
      BY <3>1, BytesFacts
    <3>3. QED
      BY <2>2, <3>1, <3>2
  <2>4. PICK n : n = IF fw = "send" THEN pulled ELSE e
    OBVIOUS
  <2>5. Linked(Frames, l, n)
    <3>1. CASE fw = "send"
      <4>1. Linked(chan, l, e) /\ e < pulled /\ frame = Bytes(e, pulled) /\ pulled \in Nat
        BY <1>0, <2>1, <3>1 DEF Coming, TypeOK
      <4>2. Linked(Append(chan, Bytes(e, pulled)), l, pulled)
        BY <4>1, LinkedAppend
      <4>3. QED
        BY <2>4, <3>1, <4>1, <4>2 DEF Frames
    <3>2. CASE fw # "send"
      BY <2>1, <2>4, <3>2 DEF Coming, Frames
    <3>3. QED
      BY <3>1, <3>2
  <2>6. PICK fs : fs = Frames
    OBVIOUS
  <2>7. /\ \A i \in 1..Len(fs) : fs[i] # <<>> /\ fs[i] = Bytes(Start(fs, l, i), Last(fs[i]))
        /\ Start(fs, l, Len(fs) + 1) = n
    <3>1. Linked(fs, l, n)
      BY <2>5, <2>6
    <3>2. QED
      BY <3>1, LinkedEnds
  <2>8. \A i : Before(i) = Start(fs, l, i)
    BY <2>3, <2>6 DEF Before, Start
  <2>9. abandoned # "oversize" => n = pulled
    BY <2>1, <2>4 DEF Coming
  <2>10. limit > 0 => n <= limit
    <3>1. fw = "send" => abandoned = "no"
      BY <1>0 DEF Forwarding
    <3>2. QED
      BY <1>0, <2>1, <2>4, <3>1 DEF Coming, Forwarding
  <2>11. QED
    BY <2>2, <2>3, <2>6, <2>7, <2>8, <2>9, <2>10
<1>2. QED
  BY <1>0, <1>1 DEF BytesInOrder

\* Whatever the frames hyper yields, the cap, the channel, the chunk size
\* and the reads, raised ones included: no byte of the body is lost,
\* repeated or moved on its way from the forwarder through read_body's
\* leftover and greedy drain and Input's buffer to the app.
THEOREM BytesKeepOrder == Spec => []BytesInOrder
<1>1. Inv => BytesInOrder
  BY InvInOrder
<1>2. QED
  BY <1>1, InvHolds, PTL

\* An app that Kino::Input has told end of file has every byte hyper
\* yielded, and neither the cap nor the silent client's timeout was the
\* end: those raise.
THEOREM EofOnlyWhenWhole == Spec => []LiveEofIsWhole
<1>1. Inv => LiveEofIsWhole
  <2> SUFFICES ASSUME Inv, input = "live", "eof" \in told
               PROVE  wire \in {"ended", "failed"} /\ Len(got) = pulled
    BY DEF LiveEofIsWhole, EofIsWhole
  <2>1. eof /\ buffer = <<>>
    BY DEF Inv, Ending
  <2>2. /\ wire \in {"ended", "failed"}
        /\ Len(got) \in Nat /\ Len(buffer) \in Nat /\ Len(got) + Len(buffer) = pulled
    BY <2>1 DEF Inv, Ending
  <2>3. Len(buffer) = 0
    BY <2>1
  <2>4. QED
    BY <2>2, <2>3
<1>2. QED
  BY <1>1, InvHolds, PTL
=============================================================================
