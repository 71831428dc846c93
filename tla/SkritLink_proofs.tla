--------------------------- MODULE SkritLink_proofs ---------------------------
(***************************************************************************)
(* Theorems about the framing of SkritLink, for frames, receive buffers    *)
(* and faults of any number: it is a frame channel, a frame that is owed   *)
(* is delivered, and each refusal has a fault or a line to blame.          *)
(***************************************************************************)
EXTENDS SkritLink, SequenceTheorems, FiniteSetTheorems, TLAPS

-----------------------------------------------------------------------------
(* The order of the bytes on the way                                       *)

\* A byte of a frame, and the order in which the host wrote two of them.
Real(b)      == b[1] > 0
Before(a, b) == a[1] < b[1] \/ (a[1] = b[1] /\ a[2] < b[2])
Written(a, b) == Real(a) /\ Real(b) => Before(a, b)

Ordered(s) == \A i, j \in 1..Len(s) : i < j => Written(s[i], s[j])

\* The bytes r that the receiver holds and the bytes l on the way stand in the order they
\* were written in, and belong to frames up to m that are not among the dispatched ones, d.
InOrder(r, l, d, m) ==
  /\ Ordered(r) /\ Ordered(l)
  /\ \A i \in 1..Len(r), j \in 1..Len(l) : Written(r[i], l[j])
  /\ \A i \in 1..Len(r) : r[i][1] <= m
  /\ \A i \in 1..Len(l) : l[i][1] <= m
  /\ \A n \in 1..Len(d) :
       /\ d[n] <= m
       /\ \A i \in 1..Len(r) : Real(r[i]) => d[n] < r[i][1]
       /\ \A i \in 1..Len(l) : Real(l[i]) => d[n] < l[i][1]
  /\ \A i, n \in 1..Len(d) : i < n => d[i] < d[n]

OrderInv == InOrder(rx, link, delivered, sent)

Types == TypeOK /\ (mode # "frame" => rx = <<>>)

-----------------------------------------------------------------------------
(* In phase                                                                *)

\* The stream that the receiver reads: within a frame it begins with the delimiter that
\* opened the frame and the bytes that are stored.
Opened(r, l) == (<<Zero>> \o r) \o l
Stream == IF mode = "frame" THEN Opened(rx, link) ELSE link

Covers(p, k, i) == p[k] <= i /\ i <= p[k] + BodyLen + 1

\* From its byte c + 1 on, the stream s holds the frames of K, frame k at p[k], and
\* between them bytes of lines and bursts only.
Holds(K, p, c, s) ==
  /\ p \in [K -> Nat]
  /\ \A k \in K :
       /\ c < p[k] /\ p[k] + BodyLen + 1 <= Len(s)
       /\ s[p[k]] = Zero /\ s[p[k] + BodyLen + 1] = Zero
       /\ \A j \in 1..BodyLen : s[p[k] + j] = <<k, j>>
  /\ \A k, n \in K : k < n => p[k] + BodyLen + 1 < p[n]
  /\ \A i \in 1..Len(s) : c < i => (\E k \in K : Covers(p, k, i)) \/ s[i] \in {Char, Eol}

\* The receiver reads such a stream, with the frames after lo, from its beginning.
Synced(lo, p) == Holds(lo+1..sent, p, 0, Stream)

\* The receiver will read it: behind c bytes of whatever else there is comes a burst
\* of m bytes, which no receive buffer holds.
Flushing(lo, p, c, m) ==
  /\ Holds(lo+1..sent, p, c, link)
  /\ c + m <= Len(link) /\ \A i \in 1..Len(link) : c < i /\ i <= c + m => link[i] = Char
  /\ m > RxCap \/ (c = 0 /\ Len(rx) + m > RxCap)

Done == {delivered[i] : i \in DOMAIN delivered}

\* The frames up to lo are settled, the later ones are on the way to be delivered.
Since(lo) ==
  /\ \A k \in owed : k \in Done \/ k \in lo+1..sent
  /\ \/ /\ \E p : Synced(lo, p)
        /\ faults = 0 => lo = Channel!Newest
     \/ /\ \E p, c, m : c \in Nat /\ m \in Nat /\ Flushing(lo, p, c, m)
        /\ faults > 0

\* Out of phase, nothing is owed but what has been delivered.
PhaseInv ==
  /\ faults = 0 => inPhase
  /\ ~inPhase => owed \subseteq Done
  /\ inPhase => \E lo \in 0..sent : Since(lo)

\* The lines that are not answered end at the places e of the link, behind a character.
Awaited(e) ==
  /\ e \in [answers+1..lines -> Nat]
  /\ \A n \in answers+1..lines :
       /\ e[n] \in 1..Len(link) /\ link[e[n]] = Eol
       /\ e[n] = 1 => mode = "ascii"
       /\ e[n] # 1 => link[e[n] - 1] = Char
  /\ \A m, n \in answers+1..lines : m < n => e[m] < e[n]
  /\ \A i \in 1..Len(link) : link[i] = Eol => \E n \in answers+1..lines : e[n] = i

\* On a clean dual link the lines that are not answered are on the way.
LineInv == faults = 0 /\ ~muxed => answers <= lines /\ \E e : Awaited(e)

LinkInv == Types /\ OrderInv /\ PhaseInv /\ LineInv

-----------------------------------------------------------------------------
(* Bytes and sequences of bytes                                            *)

\* The three bytes that belong to no frame, and those that do.
LEMMA ByteKinds ==
  /\ Zero \in Bytes /\ Char \in Bytes /\ Eol \in Bytes
  /\ Zero # Char /\ Zero # Eol /\ Char # Eol
  /\ ~Real(Zero) /\ ~Real(Char) /\ ~Real(Eol) /\ Zero[1] = 0 /\ Char[1] = 0 /\ Eol[1] = 0
  /\ \A b \in Bytes : \/ b = Zero \/ b = Char \/ b = Eol
                      \/ b[1] \in Frames /\ b[2] \in 1..BodyLen
  /\ \A b \in Bytes : b[1] \in Nat /\ b[2] \in Nat
  /\ \A k \in Frames, j \in 1..BodyLen :
       /\ <<k, j>> \in Bytes /\ Real(<<k, j>>)
       /\ <<k, j>> # Zero /\ <<k, j>> # Char /\ <<k, j>> # Eol
  BY LinkAssumption DEF Zero, Char, Eol, Bytes, Frames, Real

\* The bytes of a frame.
LEMMA FrameIs ==
  ASSUME NEW k \in Frames
  PROVE  /\ FrameBytes(k) \in Seq(Bytes) /\ Len(FrameBytes(k)) = BodyLen
         /\ \A j \in 1..BodyLen : FrameBytes(k)[j] = <<k, j>>
         /\ BodyLen \in Nat \ {0} /\ FrameBytes(k) # <<>>
<1>1. BodyLen \in Nat \ {0} /\ \A j \in 1..BodyLen : <<k, j>> \in Bytes
  BY LinkAssumption, ByteKinds
<1>2. FrameBytes(k) \in Seq(Bytes) /\ Len(FrameBytes(k)) = BodyLen
  BY <1>1 DEF FrameBytes
<1> QED
  BY <1>1, <1>2, EmptySeq DEF FrameBytes

\* A queue without its first element.
LEMMA TailIs ==
  ASSUME NEW q \in Seq(Bytes), q # <<>>
  PROVE  /\ Tail(q) \in Seq(Bytes) /\ Len(Tail(q)) = Len(q) - 1 /\ Len(q) \in Nat \ {0}
         /\ \A i \in 1..Len(q)-1 : Tail(q)[i] = q[i + 1]
         /\ Head(q) = q[1] /\ Head(q) \in Bytes
<1>1. Len(q) \in Nat /\ Len(q) # 0
  BY LenProperties, EmptySeq
<1>2. Head(q) \in Bytes /\ Tail(q) \in Seq(Bytes) /\ Len(Tail(q)) = Len(q) - 1
  BY <1>1, HeadTailProperties
<1> QED
  BY <1>1, <1>2, HeadTailProperties

\* A queue that is longer.
LEMMA JoinIs ==
  ASSUME NEW q \in Seq(Bytes), NEW t \in Seq(Bytes)
  PROVE  /\ q \o t \in Seq(Bytes) /\ Len(q \o t) = Len(q) + Len(t)
         /\ Len(q) \in Nat /\ Len(t) \in Nat
         /\ \A i \in 1..Len(q) : (q \o t)[i] = q[i]
         /\ \A i \in 1..Len(t) : (q \o t)[Len(q) + i] = t[i]
<1>1. /\ q \o t \in Seq(Bytes) /\ Len(q \o t) = Len(q) + Len(t)
      /\ \A i \in 1..Len(q) + Len(t) : (q \o t)[i] = IF i <= Len(q) THEN q[i] ELSE t[i - Len(q)]
      /\ Len(q) \in Nat /\ Len(t) \in Nat
  BY ConcatProperties, LenProperties
<1> HIDE DEF Bytes
<1>2. ASSUME NEW i \in 1..Len(t) PROVE (q \o t)[Len(q) + i] = t[i]
  <2>1. PICK n \in 1..Len(q) + Len(t) : n = Len(q) + i /\ ~(n <= Len(q)) /\ n - Len(q) = i
    BY <1>1
  <2>2. (q \o t)[n] = t[n - Len(q)]
    BY <1>1, <2>1
  <2> QED
    BY <2>1, <2>2
<1>3. \A i \in 1..Len(q) : i \in 1..Len(q) + Len(t) /\ i <= Len(q)
  BY <1>1
<1> QED
  BY <1>1, <1>2, <1>3

\* A beginning and an end of a queue.
LEMMA PartsIs ==
  ASSUME NEW q \in Seq(Bytes), NEW n \in 0..Len(q)
  PROVE  /\ SubSeq(q, 1, n) \in Seq(Bytes) /\ Len(SubSeq(q, 1, n)) = n
         /\ \A i \in 1..n : SubSeq(q, 1, n)[i] = q[i]
         /\ SubSeq(q, n + 1, Len(q)) \in Seq(Bytes)
         /\ Len(SubSeq(q, n + 1, Len(q))) = Len(q) - n
         /\ \A i \in 1..Len(q)-n : SubSeq(q, n + 1, Len(q))[i] = q[n + i]
<1>1. Len(q) \in Nat /\ \A i \in 1..Len(q) : q[i] \in Bytes
  BY LenProperties, ElementOfSeq
<1>2. n \in Int /\ 1 \in Int /\ n + 1 \in Int /\ Len(q) \in Int
      /\ (\A i \in 1..n : q[i] \in Bytes) /\ (\A i \in n+1..Len(q) : q[i] \in Bytes)
  BY <1>1
<1>3. /\ SubSeq(q, 1, n) \in Seq(Bytes)
      /\ Len(SubSeq(q, 1, n)) = IF 1 <= n THEN n - 1 + 1 ELSE 0
      /\ \A i \in 1..n-1+1 : SubSeq(q, 1, n)[i] = q[1 + i - 1]
  BY <1>2, SubSeqProperties
<1>4. /\ SubSeq(q, n + 1, Len(q)) \in Seq(Bytes)
      /\ Len(SubSeq(q, n + 1, Len(q))) = IF n + 1 <= Len(q) THEN Len(q) - (n + 1) + 1 ELSE 0
      /\ \A i \in 1..Len(q)-(n+1)+1 : SubSeq(q, n + 1, Len(q))[i] = q[(n + 1) + i - 1]
  BY <1>2, SubSeqProperties
<1>5. /\ n \in Nat /\ (IF 1 <= n THEN n - 1 + 1 ELSE 0) = n
      /\ (IF n + 1 <= Len(q) THEN Len(q) - (n + 1) + 1 ELSE 0) = Len(q) - n
      /\ n - 1 + 1 = n /\ Len(q) - (n + 1) + 1 = Len(q) - n
      /\ \A i \in 1..n : 1 + i - 1 = i
      /\ \A i \in 1..Len(q)-n : (n + 1) + i - 1 = n + i
  BY <1>1
<1> QED
  BY <1>3, <1>4, <1>5

\* What comes of two queues, place by place.
LEMMA JoinAt ==
  ASSUME NEW q \in Seq(Bytes), NEW t \in Seq(Bytes)
  PROVE  /\ q \o t \in Seq(Bytes) /\ Len(q \o t) = Len(q) + Len(t)
         /\ Len(q) \in Nat /\ Len(t) \in Nat
         /\ \A i \in 1..Len(q) + Len(t) :
              (q \o t)[i] = IF i <= Len(q) THEN q[i] ELSE t[i - Len(q)]
  BY ConcatProperties, LenProperties

\* A queue without its byte i ...
LEMMA WithoutIs ==
  ASSUME NEW q \in Seq(Bytes), NEW i \in 1..Len(q)
  PROVE  /\ Without(q, i) \in Seq(Bytes) /\ Len(Without(q, i)) = Len(q) - 1 /\ Len(q) \in Nat
         /\ \A j \in 1..Len(q)-1 : Without(q, i)[j] = IF j < i THEN q[j] ELSE q[j + 1]
<1>0. Len(q) \in Nat /\ i \in Nat /\ i - 1 \in 0..Len(q) /\ i \in 0..Len(q)
  BY LenProperties
<1>1. PICK a : a = SubSeq(q, 1, i - 1)
  OBVIOUS
<1>2. PICK c : c = SubSeq(q, i + 1, Len(q))
  OBVIOUS
<1>3. a \in Seq(Bytes) /\ Len(a) = i - 1 /\ \A j \in 1..i-1 : a[j] = q[j]
  BY <1>0, <1>1, PartsIs
<1>4. c \in Seq(Bytes) /\ Len(c) = Len(q) - i /\ \A j \in 1..Len(q)-i : c[j] = q[i + j]
  BY <1>0, <1>2, PartsIs
<1>5. Without(q, i) = a \o c
  BY <1>1, <1>2 DEF Without
<1>6. /\ a \o c \in Seq(Bytes) /\ Len(a \o c) = Len(a) + Len(c)
      /\ \A j \in 1..Len(a) + Len(c) : (a \o c)[j] = IF j <= Len(a) THEN a[j] ELSE c[j - Len(a)]
  BY <1>3, <1>4, JoinAt
<1>7. ASSUME NEW j \in 1..Len(q)-1 PROVE (a \o c)[j] = IF j < i THEN q[j] ELSE q[j + 1]
  <2>0. j \in 1..Len(a) + Len(c) /\ Len(a) = i - 1
    BY <1>0, <1>3, <1>4
  <2>1. (a \o c)[j] = IF j <= i - 1 THEN a[j] ELSE c[j - (i - 1)]
    BY <1>6, <2>0
  <2>2. CASE j < i
    <3>1. j <= i - 1 /\ j \in 1..i-1
      BY <1>0, <2>2
    <3> QED
      BY <1>3, <2>1, <2>2, <3>1
  <2>3. CASE ~(j < i)
    <3>1. ~(j <= i - 1) /\ j - (i - 1) \in 1..Len(q)-i /\ i + (j - (i - 1)) = j + 1
      BY <1>0, <2>3
    <3> QED
      BY <1>4, <2>1, <2>3, <3>1
  <2> QED
    BY <2>2, <2>3
<1> QED
  BY <1>0, <1>3, <1>4, <1>5, <1>6, <1>7

\* ... and with b behind its byte i, place by place.
Grown(l, q, i, b) ==
  /\ l \in Seq(Bytes) /\ Len(l) = Len(q) + 1 /\ Len(q) \in Nat
  /\ \A j \in 1..Len(q)+1 :
       l[j] = IF j <= i THEN q[j] ELSE IF j = i + 1 THEN b ELSE q[j - 1]

\* That is what With returns.
LEMMA WithIs ==
  ASSUME NEW q \in Seq(Bytes), NEW i \in 0..Len(q), NEW b \in Bytes
  PROVE  Grown(With(q, i, b), q, i, b)
<1>0. Len(q) \in Nat /\ i \in Nat
  BY LenProperties
<1>1. PICK a : a = SubSeq(q, 1, i)
  OBVIOUS
<1>2. PICK c : c = SubSeq(q, i + 1, Len(q))
  OBVIOUS
<1>3. /\ a \in Seq(Bytes) /\ Len(a) = i /\ \A j \in 1..i : a[j] = q[j]
      /\ c \in Seq(Bytes) /\ Len(c) = Len(q) - i /\ \A j \in 1..Len(q)-i : c[j] = q[i + j]
  BY <1>1, <1>2, PartsIs
<1>4. PICK o : o = <<b>>
  OBVIOUS
<1>5. o \in Seq(Bytes) /\ Len(o) = 1 /\ o[1] = b
  BY <1>4
<1>6. PICK d : d = a \o o
  OBVIOUS
<1>7. /\ d \in Seq(Bytes) /\ Len(d) = Len(a) + Len(o)
      /\ \A j \in 1..Len(a) + Len(o) : d[j] = IF j <= Len(a) THEN a[j] ELSE o[j - Len(a)]
  BY <1>3, <1>5, <1>6, JoinAt
<1>8. With(q, i, b) = d \o c
  BY <1>1, <1>2, <1>4, <1>6 DEF With
<1>9. /\ d \o c \in Seq(Bytes) /\ Len(d \o c) = Len(d) + Len(c)
      /\ \A j \in 1..Len(d) + Len(c) : (d \o c)[j] = IF j <= Len(d) THEN d[j] ELSE c[j - Len(d)]
  BY <1>3, <1>7, JoinAt
<1>10. ASSUME NEW j \in 1..Len(q)+1
       PROVE  (d \o c)[j] = IF j <= i THEN q[j] ELSE IF j = i + 1 THEN b ELSE q[j - 1]
  <2>00. j \in 1..Len(d) + Len(c) /\ Len(d) = i + 1
    BY <1>0, <1>3, <1>5, <1>7
  <2>0. (d \o c)[j] = IF j <= i + 1 THEN d[j] ELSE c[j - (i + 1)]
    BY <1>9, <2>00
  <2>1. CASE j <= i
    <3>1. j \in 1..i /\ j \in 1..i+1 /\ j <= i + 1
      BY <1>0, <2>1
    <3>2. d[j] = a[j] /\ a[j] = q[j]
      BY <1>3, <1>5, <1>7, <2>1, <3>1
    <3> QED
      BY <2>0, <2>1, <3>1, <3>2
  <2>2. CASE j = i + 1
    <3>1. ~(j <= i) /\ j <= i + 1 /\ j \in 1..i+1 /\ j - i = 1
      BY <1>0, <2>2
    <3>2. d[j] = o[1]
      BY <1>3, <1>5, <1>7, <3>1
    <3> QED
      BY <1>5, <2>0, <2>2, <3>1, <3>2
  <2>3. CASE j > i + 1
    <3>1. ~(j <= i) /\ ~(j <= i + 1) /\ j # i + 1 /\ j - (i + 1) \in 1..Len(q)-i
          /\ i + (j - (i + 1)) = j - 1
      BY <1>0, <2>3
    <3>2. (d \o c)[j] = q[j - 1]
      BY <1>3, <2>0, <3>1
    <3> QED
      BY <3>1, <3>2
  <2>4. j <= i \/ j = i + 1 \/ j > i + 1
    BY <1>0
  <2> QED
    BY <2>1, <2>2, <2>3, <2>4
<1>11. Len(d) + Len(c) = Len(q) + 1
  BY <1>0, <1>3, <1>5, <1>7
<1> QED
  BY <1>0, <1>8, <1>9, <1>10, <1>11 DEF Grown

-----------------------------------------------------------------------------
(* The steps of the receiver                                               *)

\* A byte outside of a frame, or the delimiter that opens one; within a frame, a byte
\* that is kept, one too many, or the delimiter that ends it.
Skips(b)    == mode # "frame" /\ b # Zero /\ mode' \in {"idle", "ascii"} /\ rx' = rx
               /\ UNCHANGED delivered
Opens(b)    == mode # "frame" /\ b = Zero /\ mode' = "frame" /\ rx' = <<>>
               /\ UNCHANGED delivered
Keeps(b)    == mode = "frame" /\ b # Zero /\ Len(rx) < RxCap /\ rx' = Append(rx, b)
               /\ UNCHANGED <<mode, delivered>>
Overruns(b) == mode = "frame" /\ b # Zero /\ ~(Len(rx) < RxCap) /\ mode' = "idle" /\ rx' = <<>>
               /\ UNCHANGED delivered
Ends(b)     == /\ mode = "frame" /\ b = Zero /\ mode' = "idle" /\ rx' = <<>>
               /\ \/ \E k \in Frames : rx = FrameBytes(k) /\ delivered' = Append(delivered, k)
                  \/ (\A k \in Frames : rx # FrameBytes(k)) /\ UNCHANGED delivered

\* skrit_dev_rx does one of the five.
LEMMA RxSteps ==
  ASSUME Types, DevRx, NEW b, b = Head(link)
  PROVE  /\ Skips(b) \/ Opens(b) \/ Keeps(b) \/ Overruns(b) \/ Ends(b)
         /\ link # <<>> /\ link' = Tail(link) /\ b = link[1] /\ b \in Bytes
         /\ UNCHANGED <<muxed, hostVars, faults>>
         /\ naks' \in Nat /\ garbled' \in Nat /\ answers' \in Nat
<1>1. link # <<>> /\ link' = Tail(link) /\ b = link[1] /\ b \in Bytes
      /\ UNCHANGED <<muxed, hostVars, faults>>
  BY TailIs DEF DevRx, Types, TypeOK
<1>2. naks \in Nat /\ garbled \in Nat /\ answers \in Nat /\ mode \in {"idle", "ascii", "frame"}
  BY DEF Types, TypeOK
<1>3. ASSUME NEW c \in Classes(b), IdleByte(c)
      PROVE  Skips(b) \/ Opens(b)
  <2>1. c = "zero" <=> b = Zero
    BY <1>3, ByteKinds DEF Classes
  <2> QED
    BY <1>3, <2>1 DEF IdleByte, IdleNext, Skips, Opens, Types
<1>4. ASSUME NEW c \in Classes(b), AsciiByte(c)
      PROVE  Skips(b) \/ Opens(b)
  <2>1. c = "zero" <=> b = Zero
    BY <1>4, ByteKinds DEF Classes
  <2> QED
    BY <1>4, <2>1 DEF AsciiByte, Skips, Opens, Types
<1>5. ASSUME BinaryByte(b)
      PROVE  Keeps(b) \/ Overruns(b) \/ Ends(b)
  <2>1. CASE b = Zero
    <3>1. mode = "frame" /\ rx' = <<>> /\ mode' = "idle"
          /\ IF rx = <<>> THEN UNCHANGED delivered ELSE Dispatched(rx) \/ Refused(rx)
      BY <1>5, <2>1 DEF BinaryByte, FrameEnd, FrameComplete
    <3>2. CASE rx = <<>>
      BY <2>1, <3>1, <3>2, FrameIs DEF Ends
    <3>3. CASE rx # <<>>
      BY <2>1, <3>1, <3>3 DEF Ends, Dispatched, Refused
    <3> QED
      BY <3>2, <3>3
  <2>2. CASE b # Zero
    BY <1>5, <2>2 DEF BinaryByte, FrameByte, Keeps, Overruns
  <2> QED
    BY <2>1, <2>2
<1>6. (\E c \in Classes(b) : IdleByte(c) \/ AsciiByte(c)) \/ BinaryByte(b)
  BY DEF DevRx
<1>7. naks' \in Nat /\ garbled' \in Nat /\ answers' \in Nat
  <2>1. CASE \E c \in Classes(b) : IdleByte(c) \/ AsciiByte(c)
    BY <1>2, <2>1 DEF IdleByte, AsciiByte
  <2>2. CASE BinaryByte(b)
    BY <1>2, <2>2 DEF BinaryByte, FrameByte, FrameEnd, FrameComplete, Dispatched, Refused
  <2> QED
    BY <1>6, <2>1, <2>2
<1> QED
  BY <1>1, <1>3, <1>4, <1>5, <1>6, <1>7

-----------------------------------------------------------------------------
(* What the steps of the host and the link do to the bytes on the way      *)

\* A frame between its delimiters.
LEMMA DelimitedIs ==
  ASSUME NEW k \in Frames
  PROVE  /\ Delimited(FrameBytes(k)) \in Seq(Bytes)
         /\ Len(Delimited(FrameBytes(k))) = BodyLen + 2
         /\ Delimited(FrameBytes(k))[1] = Zero
         /\ \A j \in 1..BodyLen : Delimited(FrameBytes(k))[1 + j] = <<k, j>>
         /\ Delimited(FrameBytes(k))[BodyLen + 2] = Zero
<1>1. PICK z : z = <<Zero>>
  OBVIOUS
<1>2. z \in Seq(Bytes) /\ Len(z) = 1 /\ z[1] = Zero /\ BodyLen \in Nat
  BY <1>1, ByteKinds, LinkAssumption
<1>3. PICK d : d = FrameBytes(k)
  OBVIOUS
<1>4. d \in Seq(Bytes) /\ Len(d) = BodyLen /\ \A j \in 1..BodyLen : d[j] = <<k, j>>
  BY <1>3, FrameIs
<1>5. PICK a : a = z \o d
  OBVIOUS
<1>6. /\ a \in Seq(Bytes) /\ Len(a) = Len(z) + Len(d)
      /\ \A i \in 1..Len(z) + Len(d) : a[i] = IF i <= Len(z) THEN z[i] ELSE d[i - Len(z)]
  BY <1>2, <1>4, <1>5, JoinAt
<1>7. Delimited(FrameBytes(k)) = a \o z
  BY <1>1, <1>3, <1>5 DEF Delimited
<1>8. /\ a \o z \in Seq(Bytes) /\ Len(a \o z) = Len(a) + Len(z)
      /\ \A i \in 1..Len(a) + Len(z) : (a \o z)[i] = IF i <= Len(a) THEN a[i] ELSE z[i - Len(a)]
  BY <1>2, <1>6, JoinAt
<1>9. ASSUME NEW j \in 1..BodyLen PROVE (a \o z)[1 + j] = <<k, j>>
  <2>1. /\ 1 + j \in 1..Len(z) + Len(d) /\ 1 + j \in 1..Len(a) + Len(z) /\ 1 + j <= Len(a)
        /\ ~(1 + j <= Len(z)) /\ (1 + j) - Len(z) = j
    BY <1>2, <1>4, <1>6
  <2> QED
    BY <1>4, <1>6, <1>8, <2>1
<1>10. (a \o z)[1] = Zero /\ (a \o z)[BodyLen + 2] = Zero
  BY <1>2, <1>4, <1>6, <1>8
<1>11. Len(a \o z) = BodyLen + 2
  BY <1>2, <1>4, <1>6, <1>8
<1> QED
  BY <1>7, <1>8, <1>9, <1>10, <1>11

\* The host's bytes that belong to no frame.
Plain(t) == t \in Seq(Bytes) /\ \A i \in 1..Len(t) : t[i] \in {Char, Eol}

\* What the host writes goes to the end of the link.
LEMMA HostWrites ==
  ASSUME Types, HostSend \/ HostLine \/ HostFlush
  PROVE  /\ UNCHANGED devVars /\ faults' = faults
         /\ \E t \in Seq(Bytes) :
              /\ link' = link \o t
              /\ HostSend => /\ sent < MaxFrames /\ sent' = sent + 1 /\ UNCHANGED inPhase
                             /\ owed' = IF inPhase THEN owed \union {sent + 1} ELSE owed
                             /\ t = Delimited(FrameBytes(sent + 1)) /\ sent + 1 \in Frames
                             /\ UNCHANGED <<lines, flushes>>
              /\ ~HostSend => Plain(t) /\ sent' = sent /\ owed' = owed
              /\ ~HostSend /\ HostLine => /\ t = <<Char, Eol>> /\ lines' = lines + 1
                                          /\ UNCHANGED <<inPhase, flushes>> /\ lines < MaxLines
              /\ ~HostSend /\ ~HostLine =>
                   /\ Len(t) = RxCap + 1 /\ \A i \in 1..Len(t) : t[i] = Char
                   /\ inPhase' = TRUE /\ lines' = lines
                   /\ flushes < MaxFlushes /\ flushes' = flushes + 1
<1>1. CASE HostSend
  <2>1. sent + 1 \in Frames
    BY <1>1, LinkAssumption DEF HostSend, Frames, Types, TypeOK
  <2>2. Delimited(FrameBytes(sent + 1)) \in Seq(Bytes)
    BY <2>1, DelimitedIs
  <2> QED
    BY <1>1, <2>1, <2>2 DEF HostSend
<1>2. CASE ~HostSend /\ HostLine
  <2>1. <<Char, Eol>> \in Seq(Bytes)
    BY ByteKinds
  <2>2. Plain(<<Char, Eol>>)
    BY <2>1 DEF Plain
  <2> QED
    BY <1>2, <2>1, <2>2 DEF HostLine
<1>3. CASE ~HostSend /\ ~HostLine /\ HostFlush
  <2>1. RxCap + 1 \in Nat
    BY LinkAssumption
  <2>2. PICK t : t = [i \in 1..(RxCap + 1) |-> Char]
    OBVIOUS
  <2>3. t \in Seq(Bytes) /\ Len(t) = RxCap + 1 /\ \A i \in 1..Len(t) : t[i] = Char
    BY <2>1, <2>2, ByteKinds
  <2>4. Plain(t)
    BY <2>3 DEF Plain
  <2> QED
    BY <1>3, <2>2, <2>3, <2>4 DEF HostFlush
<1> QED
  BY <1>1, <1>2, <1>3

\* l is some of the bytes of the link, in their order, and bytes of no frame.
Sifted(l) ==
  /\ l \in Seq(Bytes)
  /\ \E f \in [1..Len(l) -> Nat] :
       /\ \A i \in 1..Len(l) : Real(l[i]) => f[i] \in 1..Len(link) /\ l[i] = link[f[i]]
       /\ \A i, j \in 1..Len(l) : i < j /\ Real(l[i]) /\ Real(l[j]) => f[i] < f[j]

\* A fault leaves such a rest.
LEMMA FaultSifts ==
  ASSUME link \in Seq(Bytes), Lose \/ Inject \/ Cut
  PROVE  Sifted(link')
<1>0. Len(link) \in Nat
  BY LenProperties
<1>1. CASE Lose
  <2>1. PICK i \in 1..Len(link) : link' = Without(link, i)
    BY <1>1 DEF Lose
  <2>2. PICK l : l = link'
    OBVIOUS
  <2>3. /\ l \in Seq(Bytes) /\ Len(l) = Len(link) - 1
        /\ \A j \in 1..Len(link)-1 : l[j] = IF j < i THEN link[j] ELSE link[j + 1]
    BY <2>1, <2>2, WithoutIs
  <2>4. PICK f : f = [j \in 1..Len(l) |-> IF j < i THEN j ELSE j + 1]
    OBVIOUS
  <2>5. /\ f \in [1..Len(l) -> Nat]
        /\ \A j \in 1..Len(l) : f[j] \in 1..Len(link) /\ l[j] = link[f[j]]
        /\ \A j, n \in 1..Len(l) : j < n => f[j] < f[n]
    BY <1>0, <2>3, <2>4
  <2> QED
    BY <2>2, <2>3, <2>5 DEF Sifted
<1>2. CASE Inject
  <2>1. PICK i \in 0..Len(link), b \in {Zero, Char} : link' = With(link, i, b)
    BY <1>2 DEF Inject
  <2>2. PICK l : l = link'
    OBVIOUS
  <2>3. b \in Bytes /\ ~Real(b)
    BY ByteKinds
  <2>4. /\ l \in Seq(Bytes) /\ Len(l) = Len(link) + 1
        /\ \A j \in 1..Len(link)+1 : l[j] =
             IF j <= i THEN link[j] ELSE IF j = i + 1 THEN b ELSE link[j - 1]
    <3>1. Grown(l, link, i, b)
      BY <2>1, <2>2, <2>3, WithIs
    <3> QED
      BY <3>1 DEF Grown
  <2>5. PICK f : f = [j \in 1..Len(l) |-> IF j <= i THEN j ELSE j - 1]
    OBVIOUS
  <2>6. \A j \in 1..Len(l) : Real(l[j]) => j # i + 1
    BY <1>0, <2>3, <2>4
  <2>7. /\ f \in [1..Len(l) -> Nat]
        /\ \A j \in 1..Len(l) : j # i + 1 => f[j] \in 1..Len(link) /\ l[j] = link[f[j]]
        /\ \A j, n \in 1..Len(l) : j < n /\ n # i + 1 => f[j] < f[n]
    BY <1>0, <2>4, <2>5
  <2> QED
    BY <2>2, <2>4, <2>6, <2>7 DEF Sifted
<1>3. CASE Cut
  <2>1. PICK i \in 0..(Len(link) - 1) : link' = SubSeq(link, 1, i)
    BY <1>3 DEF Cut
  <2>2. i \in 0..Len(link) /\ i \in Nat
    BY <1>0
  <2>3. link' \in Seq(Bytes) /\ Len(link') = i /\ \A j \in 1..i : link'[j] = link[j]
    BY <2>1, <2>2, PartsIs
  <2>4. PICK f : f = [j \in 1..Len(link') |-> j]
    OBVIOUS
  <2> QED
    BY <1>0, <2>2, <2>3, <2>4 DEF Sifted
<1> QED
  BY <1>1, <1>2, <1>3

\* So does reading a byte.
LEMMA TailSifts ==
  ASSUME link \in Seq(Bytes), link # <<>>
  PROVE  Sifted(Tail(link))
<1>1. /\ Tail(link) \in Seq(Bytes) /\ Len(Tail(link)) = Len(link) - 1 /\ Len(link) \in Nat \ {0}
      /\ \A i \in 1..Len(link)-1 : Tail(link)[i] = link[i + 1]
  BY TailIs
<1>2. PICK f : f = [j \in 1..Len(Tail(link)) |-> j + 1]
  OBVIOUS
<1> QED
  BY <1>1, <1>2 DEF Sifted

\* So does writing bytes of no frame.
LEMMA PlainSifts ==
  ASSUME link \in Seq(Bytes), NEW t, Plain(t)
  PROVE  Sifted(link \o t)
<1>1. /\ link \o t \in Seq(Bytes) /\ Len(link \o t) = Len(link) + Len(t)
      /\ Len(link) \in Nat /\ Len(t) \in Nat
      /\ \A i \in 1..Len(link) : (link \o t)[i] = link[i]
      /\ \A i \in 1..Len(t) : (link \o t)[Len(link) + i] = t[i]
  BY JoinIs DEF Plain
<1>2. PICK l : l = link \o t
  OBVIOUS
<1>3. PICK f : f = [j \in 1..Len(l) |-> j]
  OBVIOUS
<1>4. ASSUME NEW i \in 1..Len(l), Real(l[i]) PROVE i \in 1..Len(link)
  <2>1. CASE i \in 1..Len(link)
    BY <2>1
  <2>2. CASE ~(i \in 1..Len(link))
    <3>1. PICK n \in 1..Len(t) : i = Len(link) + n
      BY <1>1, <1>2, <2>2
    <3> QED
      BY <1>1, <1>2, <1>4, <3>1, ByteKinds DEF Plain
  <2> QED
    BY <2>1, <2>2
<1>5. /\ f \in [1..Len(l) -> Nat] /\ l \in Seq(Bytes)
      /\ \A i, j \in 1..Len(l) : i < j => f[i] < f[j]
      /\ \A i \in 1..Len(link) : i \in 1..Len(l) /\ l[i] = link[i] /\ f[i] = i
  BY <1>1, <1>2, <1>3
<1>6. Sifted(l)
  BY <1>4, <1>5 DEF Sifted
<1> QED
  BY <1>2, <1>6

-----------------------------------------------------------------------------
(* Types                                                                   *)

\* What a fault does to the rest of the state.
LEMMA FaultSteps ==
  ASSUME Types, Lose \/ Inject \/ Cut
  PROVE  /\ Fault /\ Sifted(link') /\ UNCHANGED <<devVars, sent, lines, flushes>>
         /\ faults' = faults + 1 /\ faults < MaxFaults /\ inPhase' = FALSE
         /\ owed' \subseteq Done /\ owed' \subseteq owed
<1>1. Sifted(link')
  BY FaultSifts DEF Types, TypeOK
<1>2. Fault
  BY DEF Lose, Inject, Cut
<1> QED
  BY <1>1, <1>2 DEF Fault, Done

\* The initial state is well typed.
LEMMA TypesInit == Init => Types
<1> SUFFICES ASSUME Init PROVE Types
  OBVIOUS
<1>1. <<>> \in Seq(Bytes) /\ <<>> \in Seq(Bytes \ {Zero}) /\ <<>> \in Seq(Frames) /\ Len(<<>>) = 0
  OBVIOUS
<1> QED
  BY <1>1, LinkAssumption DEF Init, Types, TypeOK

\* Every step keeps the types; the receive buffer never holds more than RxCap bytes and
\* is empty outside of a frame.
LEMMA TypesKeep ==
  ASSUME Types, [Next]_vars
  PROVE  Types'
<1>0. /\ muxed \in BOOLEAN /\ mode \in {"idle", "ascii", "frame"}
      /\ rx \in Seq(Bytes \ {Zero}) /\ Len(rx) <= RxCap /\ (mode # "frame" => rx = <<>>)
      /\ link \in Seq(Bytes)
      /\ sent \in 0..MaxFrames /\ lines \in 0..MaxLines
      /\ faults \in 0..MaxFaults /\ flushes \in 0..MaxFlushes
      /\ delivered \in Seq(Frames)
      /\ naks \in Nat /\ garbled \in Nat /\ answers \in Nat
      /\ inPhase \in BOOLEAN /\ owed \subseteq Frames
      /\ RxCap \in Nat /\ BodyLen \in Nat \ {0}
      /\ MaxFrames \in Nat /\ MaxLines \in Nat /\ MaxFaults \in Nat /\ MaxFlushes \in Nat
  BY LinkAssumption DEF Types, TypeOK
<1>1. CASE DevRx
  <2>1. PICK b : b = Head(link)
    OBVIOUS
  <2>2. /\ Skips(b) \/ Opens(b) \/ Keeps(b) \/ Overruns(b) \/ Ends(b)
        /\ link # <<>> /\ link' = Tail(link) /\ b = link[1] /\ b \in Bytes
        /\ UNCHANGED <<muxed, hostVars, faults>>
        /\ naks' \in Nat /\ garbled' \in Nat /\ answers' \in Nat
    BY <1>1, <2>1, RxSteps
  <2>3. link' \in Seq(Bytes)
    BY <1>0, <2>2, TailIs
  <2>4. <<>> \in Seq(Bytes \ {Zero}) /\ Len(<<>>) = 0
    OBVIOUS
  <2>5. /\ rx' \in Seq(Bytes \ {Zero}) /\ Len(rx') <= RxCap
        /\ (mode' # "frame" => rx' = <<>>) /\ mode' \in {"idle", "ascii", "frame"}
    <3>1. CASE Skips(b)
      BY <1>0, <2>4, <3>1 DEF Skips
    <3>2. CASE Opens(b) \/ Overruns(b) \/ Ends(b)
      <4>1. rx' = <<>> /\ mode' \in {"idle", "frame"}
        BY <3>2 DEF Opens, Overruns, Ends
      <4> QED
        BY <1>0, <2>4, <4>1
    <3>3. CASE Keeps(b)
      <4>1. b \in Bytes \ {Zero} /\ rx' = Append(rx, b) /\ Len(rx) < RxCap /\ mode' = "frame"
        BY <2>2, <3>3 DEF Keeps
      <4>2. rx' \in Seq(Bytes \ {Zero}) /\ Len(rx') = Len(rx) + 1 /\ Len(rx) \in Nat
        BY <1>0, <4>1, AppendProperties, LenProperties
      <4> QED
        BY <1>0, <4>1, <4>2
    <3> QED
      BY <2>2, <3>1, <3>2, <3>3
  <2>6. delivered' \in Seq(Frames)
    <3>1. delivered' = delivered \/ \E k \in Frames : delivered' = Append(delivered, k)
      BY <2>2 DEF Skips, Opens, Keeps, Overruns, Ends
    <3>2. ASSUME NEW k \in Frames PROVE Append(delivered, k) \in Seq(Frames)
      BY <1>0, AppendProperties
    <3> QED
      BY <1>0, <3>1, <3>2
  <2> QED
    BY <1>0, <2>2, <2>3, <2>5, <2>6 DEF Types, TypeOK, hostVars
<1>2. CASE HostSend \/ HostLine \/ HostFlush
  <2>1. UNCHANGED devVars /\ faults' = faults
    BY <1>2, HostWrites
  <2>2. PICK t \in Seq(Bytes) :
              /\ link' = link \o t
              /\ HostSend => /\ sent < MaxFrames /\ sent' = sent + 1 /\ UNCHANGED inPhase
                             /\ owed' = IF inPhase THEN owed \union {sent + 1} ELSE owed
                             /\ t = Delimited(FrameBytes(sent + 1)) /\ sent + 1 \in Frames
                             /\ UNCHANGED <<lines, flushes>>
              /\ ~HostSend => Plain(t) /\ sent' = sent /\ owed' = owed
              /\ ~HostSend /\ HostLine => /\ t = <<Char, Eol>> /\ lines' = lines + 1
                                          /\ UNCHANGED <<inPhase, flushes>> /\ lines < MaxLines
              /\ ~HostSend /\ ~HostLine =>
                   /\ Len(t) = RxCap + 1 /\ \A i \in 1..Len(t) : t[i] = Char
                   /\ inPhase' = TRUE /\ lines' = lines
                   /\ flushes < MaxFlushes /\ flushes' = flushes + 1
    BY <1>2, HostWrites
  <2>3. link' \in Seq(Bytes)
    BY <1>0, <2>2, JoinIs
  <2>4. /\ sent' \in 0..MaxFrames /\ lines' \in 0..MaxLines /\ flushes' \in 0..MaxFlushes
        /\ inPhase' \in BOOLEAN /\ owed' \subseteq Frames
    <3>1. CASE HostSend
      <4>1. sent + 1 \in 0..MaxFrames /\ sent' = sent + 1
        BY <1>0, <2>2, <3>1, SMTT(20)
      <4>2. inPhase' = inPhase /\ owed' \subseteq owed \union {sent + 1}
        BY <2>2, <3>1
      <4> QED
        BY <1>0, <2>2, <3>1, <4>1, <4>2
    <3>2. CASE ~HostSend /\ HostLine
      <4>1. sent' \in 0..MaxFrames /\ lines' \in 0..MaxLines
        BY <1>0, <2>2, <3>2, SMTT(20)
      <4>2. inPhase' = inPhase /\ flushes' = flushes /\ owed' = owed
        BY <2>2, <3>2
      <4> QED
        BY <1>0, <4>1, <4>2
    <3>3. CASE ~HostSend /\ ~HostLine
      <4>0. flushes' = flushes + 1 /\ flushes < MaxFlushes
        BY <2>2, <3>3
      <4>1. flushes' \in 0..MaxFlushes
        BY <1>0, <4>0
      <4>2. inPhase' \in BOOLEAN /\ sent' = sent /\ lines' = lines /\ owed' = owed
        BY <2>2, <3>3
      <4> QED
        BY <1>0, <4>1, <4>2
    <3> QED
      BY <3>1, <3>2, <3>3
  <2> QED
    BY <1>0, <2>1, <2>3, <2>4 DEF Types, TypeOK, devVars
<1>3. CASE Lose \/ Inject \/ Cut
  <2>1. /\ Sifted(link') /\ UNCHANGED <<devVars, sent, lines, flushes>>
        /\ faults' = faults + 1 /\ faults < MaxFaults /\ inPhase' = FALSE /\ owed' \subseteq owed
    BY <1>3, FaultSteps
  <2>2. link' \in Seq(Bytes)
    BY <2>1 DEF Sifted
  <2>3. faults' \in 0..MaxFaults
    BY <1>0, <2>1
  <2>5. owed' \subseteq Frames /\ inPhase' \in BOOLEAN
    BY <1>0, <2>1
  <2>4. UNCHANGED <<muxed, mode, rx, delivered, naks, garbled, answers, sent, lines, flushes>>
    BY <2>1 DEF devVars
  <2> QED
    BY <1>0, <2>2, <2>3, <2>4, <2>5 DEF Types, TypeOK
<1>4. CASE UNCHANGED vars
  BY <1>4 DEF Types, TypeOK, vars, devVars, hostVars
<1> QED
  BY <1>1, <1>2, <1>3, <1>4 DEF Next

-----------------------------------------------------------------------------
(* The order is kept                                                       *)

\* The numbers and sequences that the order is about.
LEMMA Ranges ==
  ASSUME Types
  PROVE  /\ rx \in Seq(Bytes) /\ link \in Seq(Bytes) /\ Len(rx) \in Nat /\ Len(link) \in Nat
         /\ delivered \in Seq(Frames) /\ Len(delivered) \in Nat
         /\ \A i \in 1..Len(rx)   : rx[i] \in Bytes /\ rx[i][1] \in Nat /\ rx[i][2] \in Nat
         /\ \A i \in 1..Len(link) : link[i] \in Bytes /\ link[i][1] \in Nat /\ link[i][2] \in Nat
         /\ \A n \in 1..Len(delivered) : delivered[n] \in Nat
         /\ sent \in Nat
<1>1. rx \in Seq(Bytes \ {Zero}) /\ link \in Seq(Bytes) /\ delivered \in Seq(Frames)
      /\ sent \in 0..MaxFrames /\ MaxFrames \in Nat
  BY LinkAssumption DEF Types, TypeOK
<1>2. Len(rx) \in Nat /\ Len(link) \in Nat /\ Len(delivered) \in Nat
  BY <1>1, LenProperties
<1>3. /\ \A i \in 1..Len(rx) : rx[i] \in Bytes
      /\ \A i \in 1..Len(link) : link[i] \in Bytes
      /\ \A n \in 1..Len(delivered) : delivered[n] \in Frames
  BY <1>1, ElementOfSeq
<1>4. rx \in Seq(Bytes)
  <2>1. rx = [i \in 1..Len(rx) |-> rx[i]]
    BY <1>1, LenProperties
  <2> QED
    BY <1>2, <1>3, <2>1, IsASeq
<1>5. sent \in Nat /\ \A n \in 1..Len(delivered) : delivered[n] \in Nat
  BY <1>1, <1>3 DEF Frames
<1> QED
  BY <1>1, <1>2, <1>3, <1>4, <1>5, ByteKinds

\* The order of what is sifted, with the receiver as it was or empty.
LEMMA OrderSifts ==
  ASSUME Types, OrderInv, NEW l, Sifted(l), NEW r, r = rx \/ r = <<>>
  PROVE  InOrder(r, l, delivered, sent)
<1>0. /\ Len(rx) \in Nat /\ Len(link) \in Nat /\ sent \in Nat /\ Len(delivered) \in Nat
      /\ \A n \in 1..Len(delivered) : delivered[n] \in Nat
  BY Ranges
<1>1. PICK f \in [1..Len(l) -> Nat] :
       /\ \A i \in 1..Len(l) : Real(l[i]) => f[i] \in 1..Len(link) /\ l[i] = link[f[i]]
       /\ \A i, j \in 1..Len(l) : i < j /\ Real(l[i]) /\ Real(l[j]) => f[i] < f[j]
  BY DEF Sifted
<1>2. l \in Seq(Bytes) /\ Len(l) \in Nat /\ \A i \in 1..Len(l) : l[i] \in Bytes
  BY LenProperties, ElementOfSeq DEF Sifted
<1>3. \A i \in 1..Len(l) : Real(l[i]) \/ l[i][1] = 0
  BY <1>2, ByteKinds DEF Real
<1>4. Len(<<>>) = 0
  OBVIOUS
<1>5. \A i \in 1..Len(r) : i \in 1..Len(rx) /\ r[i] = rx[i]
  BY <1>4
<1>6. Ordered(l)
  BY <1>1 DEF OrderInv, InOrder, Ordered, Written
<1>7. Ordered(r)
  BY <1>5 DEF OrderInv, InOrder, Ordered
<1>8. \A i \in 1..Len(r), j \in 1..Len(l) : Written(r[i], l[j])
  BY <1>1, <1>5 DEF OrderInv, InOrder, Written
<1>9. \A i \in 1..Len(l) : l[i][1] <= sent
  BY <1>0, <1>1, <1>3, SMTT(20) DEF OrderInv, InOrder
<1>10. \A i \in 1..Len(r) : r[i][1] <= sent
  BY <1>5 DEF OrderInv, InOrder
<1>11. \A n \in 1..Len(delivered) :
         /\ delivered[n] <= sent
         /\ \A i \in 1..Len(r) : Real(r[i]) => delivered[n] < r[i][1]
         /\ \A i \in 1..Len(l) : Real(l[i]) => delivered[n] < l[i][1]
  BY <1>1, <1>5 DEF OrderInv, InOrder
<1> QED
  BY <1>6, <1>7, <1>8, <1>9, <1>10, <1>11 DEF OrderInv, InOrder

\* The order when the receiver keeps the byte it reads.
LEMMA OrderEats ==
  ASSUME Types, OrderInv, link # <<>>
  PROVE  InOrder(Append(rx, link[1]), Tail(link), delivered, sent)
<1>0. /\ rx \in Seq(Bytes) /\ link \in Seq(Bytes) /\ Len(rx) \in Nat /\ Len(link) \in Nat
      /\ delivered \in Seq(Frames) /\ Len(delivered) \in Nat
      /\ \A n \in 1..Len(delivered) : delivered[n] \in Nat
  BY Ranges
<1>1. PICK r : r = Append(rx, link[1])
  OBVIOUS
<1>2. PICK l : l = Tail(link)
  OBVIOUS
<1>3. /\ Len(link) \in Nat \ {0} /\ l \in Seq(Bytes) /\ Len(l) = Len(link) - 1
      /\ (\A i \in 1..Len(link)-1 : l[i] = link[i + 1]) /\ link[1] \in Bytes
  BY <1>0, <1>2, TailIs
<1>4. Len(r) = Len(rx) + 1 /\ (\A i \in 1..Len(rx) : r[i] = rx[i]) /\ r[Len(rx) + 1] = link[1]
  BY <1>0, <1>1, <1>3, AppendProperties
<1>5. \A i \in 1..Len(r) : (i \in 1..Len(rx) /\ r[i] = rx[i]) \/ (i = Len(rx) + 1 /\ r[i] = link[1])
  BY <1>0, <1>4
<1>6. \A j \in 1..Len(l) : j + 1 \in 1..Len(link) /\ l[j] = link[j + 1] /\ 1 < j + 1
  BY <1>3
<1>7. 1 \in 1..Len(link)
  BY <1>3
<1>8. Ordered(l)
  <2>1. \A i, j \in 1..Len(l) : i < j => i + 1 < j + 1
    BY <1>3
  <2> QED
    BY <1>6, <2>1 DEF OrderInv, InOrder, Ordered
<1>9. Ordered(r)
  <2> SUFFICES ASSUME NEW i \in 1..Len(r), NEW j \in 1..Len(r), i < j
               PROVE  Written(r[i], r[j])
    BY DEF Ordered
  <2>1. i \in 1..Len(rx) /\ r[i] = rx[i]
    BY <1>0, <1>4
  <2>2. CASE j \in 1..Len(rx) /\ r[j] = rx[j]
    BY <2>1, <2>2 DEF OrderInv, InOrder, Ordered
  <2>3. CASE r[j] = link[1]
    BY <1>7, <2>1, <2>3 DEF OrderInv, InOrder
  <2> QED
    BY <1>5, <2>2, <2>3
<1>10. \A i \in 1..Len(r), j \in 1..Len(l) : Written(r[i], l[j])
  BY <1>5, <1>6, <1>7 DEF OrderInv, InOrder, Ordered
<1>11. (\A i \in 1..Len(r) : r[i][1] <= sent) /\ (\A i \in 1..Len(l) : l[i][1] <= sent)
  BY <1>5, <1>6, <1>7 DEF OrderInv, InOrder
<1>12. \A n \in 1..Len(delivered) :
         /\ delivered[n] <= sent
         /\ \A i \in 1..Len(r) : Real(r[i]) => delivered[n] < r[i][1]
         /\ \A i \in 1..Len(l) : Real(l[i]) => delivered[n] < l[i][1]
  BY <1>5, <1>6, <1>7 DEF OrderInv, InOrder
<1>13. InOrder(r, l, delivered, sent)
  BY <1>8, <1>9, <1>10, <1>11, <1>12 DEF OrderInv, InOrder
<1> QED
  BY <1>1, <1>2, <1>13

\* The frame that the receiver holds is newer than the dispatched ones, and what is on
\* the way is newer still.
LEMMA OrderEnds ==
  ASSUME Types, OrderInv, link # <<>>, NEW k \in Frames, rx = FrameBytes(k)
  PROVE  /\ InOrder(<<>>, Tail(link), Append(delivered, k), sent)
         /\ k <= sent /\ \A n \in 1..Len(delivered) : delivered[n] < k
<1>0. /\ rx \in Seq(Bytes) /\ link \in Seq(Bytes) /\ Len(rx) \in Nat /\ Len(link) \in Nat
      /\ delivered \in Seq(Frames) /\ Len(delivered) \in Nat
      /\ \A n \in 1..Len(delivered) : delivered[n] \in Nat
      /\ (\A i \in 1..Len(link) : link[i] \in Bytes) /\ k \in Nat
  BY Ranges DEF Frames
<1>1. Len(rx) = BodyLen /\ (\A j \in 1..BodyLen : rx[j] = <<k, j>>) /\ BodyLen \in Nat \ {0}
  BY FrameIs
<1>2. PICK d : d = Append(delivered, k)
  OBVIOUS
<1>3. /\ Len(d) = Len(delivered) + 1 /\ d[Len(delivered) + 1] = k
      /\ \A i \in 1..Len(delivered) : d[i] = delivered[i]
  BY <1>0, <1>2, AppendProperties
<1>4. \A i \in 1..Len(d) : \/ i \in 1..Len(delivered) /\ d[i] = delivered[i]
                           \/ i = Len(delivered) + 1 /\ d[i] = k
  BY <1>0, <1>3
<1>5. PICK l : l = Tail(link)
  OBVIOUS
<1>6. /\ l \in Seq(Bytes) /\ Len(l) = Len(link) - 1
      /\ \A i \in 1..Len(l) : i + 1 \in 1..Len(link) /\ l[i] = link[i + 1]
  BY <1>0, <1>5, TailIs
<1>7. /\ 1 \in 1..Len(rx) /\ rx[1][1] = k /\ Real(rx[1])
      /\ BodyLen \in 1..Len(rx) /\ rx[BodyLen][1] = k /\ rx[BodyLen][2] = BodyLen
      /\ Real(rx[BodyLen])
  <2>1. 1 \in 1..BodyLen /\ BodyLen \in 1..BodyLen
    BY <1>1
  <2>2. rx[1] = <<k, 1>> /\ rx[BodyLen] = <<k, BodyLen>>
    BY <1>1, <2>1
  <2>3. Real(rx[1]) /\ Real(rx[BodyLen])
    BY <2>1, <2>2, ByteKinds
  <2> QED
    BY <1>1, <2>1, <2>2, <2>3
<1>8. k <= sent
  BY <1>7 DEF OrderInv, InOrder
<1>9. \A n \in 1..Len(delivered) : delivered[n] < k
  BY <1>7 DEF OrderInv, InOrder
<1>10. ASSUME NEW j \in 1..Len(link), Real(link[j]) PROVE k < link[j][1]
  <2>1. link[j] \in Bytes /\ link[j][1] \in Nat /\ link[j][2] \in 1..BodyLen
    BY <1>0, <1>10, ByteKinds
  <2>2. Before(rx[BodyLen], link[j])
    BY <1>7, <1>10 DEF OrderInv, InOrder, Written
  <2> QED
    BY <1>0, <1>1, <1>7, <2>1, <2>2 DEF Before
<1>11. Sifted(l)
  BY <1>0, <1>5, TailSifts
<1>12. InOrder(<<>>, l, delivered, sent)
  BY <1>11, OrderSifts
<1>13. Len(<<>>) = 0
  OBVIOUS
<1>14. \A n \in 1..Len(d) :
         /\ d[n] <= sent
         /\ \A i \in 1..Len(<<>>) : Real(<<>>[i]) => d[n] < <<>>[i][1]
         /\ \A i \in 1..Len(l) : Real(l[i]) => d[n] < l[i][1]
  <2>1. ASSUME NEW n \in 1..Len(d) PROVE d[n] <= sent
    BY <1>4, <1>8, <1>12 DEF InOrder
  <2>2. \A n \in 1..Len(d), i \in 1..Len(l) : Real(l[i]) => d[n] < l[i][1]
    BY <1>4, <1>6, <1>8, <1>10, <1>12 DEF InOrder
  <2> QED
    BY <1>13, <2>1, <2>2
<1>15. ASSUME NEW i \in 1..Len(d), NEW n \in 1..Len(d), i < n PROVE d[i] < d[n]
  <2>1. i \in 1..Len(delivered) /\ d[i] = delivered[i]
    BY <1>0, <1>3, <1>15
  <2> QED
    BY <1>4, <1>9, <1>12, <1>15, <2>1 DEF InOrder
<1>16. InOrder(<<>>, l, d, sent)
  BY <1>12, <1>14, <1>15 DEF InOrder
<1> QED
  BY <1>2, <1>5, <1>8, <1>9, <1>16

\* The order when the host writes the next frame.
LEMMA OrderSends ==
  ASSUME Types, OrderInv, sent + 1 \in Frames
  PROVE  InOrder(rx, link \o Delimited(FrameBytes(sent + 1)), delivered, sent + 1)
<1>0. /\ rx \in Seq(Bytes) /\ link \in Seq(Bytes) /\ Len(rx) \in Nat /\ Len(link) \in Nat
      /\ delivered \in Seq(Frames) /\ Len(delivered) \in Nat
      /\ (\A i \in 1..Len(rx) : rx[i] \in Bytes /\ rx[i][1] \in Nat)
      /\ (\A i \in 1..Len(link) : link[i] \in Bytes /\ link[i][1] \in Nat)
      /\ (\A n \in 1..Len(delivered) : delivered[n] \in Nat)
      /\ sent \in Nat /\ BodyLen \in Nat \ {0}
  BY Ranges, LinkAssumption
<1>1. PICK t : t = Delimited(FrameBytes(sent + 1))
  OBVIOUS
<1>2. /\ t \in Seq(Bytes) /\ Len(t) = BodyLen + 2 /\ t[1] = Zero
      /\ (\A j \in 1..BodyLen : t[1 + j] = <<sent + 1, j>>) /\ t[BodyLen + 2] = Zero
  BY <1>1, DelimitedIs
<1>3. PICK l : l = link \o t
  OBVIOUS
<1>4. /\ Len(l) = Len(link) + Len(t)
      /\ \A i \in 1..Len(link) + Len(t) : l[i] = IF i <= Len(link) THEN link[i] ELSE t[i - Len(link)]
  BY <1>0, <1>2, <1>3, JoinAt
<1>5. ASSUME NEW i \in 1..Len(t)
      PROVE  \/ ~Real(t[i]) /\ t[i][1] = 0
             \/ t[i] = <<sent + 1, i - 1>> /\ t[i][1] = sent + 1 /\ t[i][2] = i - 1
  <2>1. i = 1 \/ i = BodyLen + 2 \/ (i - 1 \in 1..BodyLen /\ 1 + (i - 1) = i)
    BY <1>0, <1>2
  <2> QED
    BY <1>2, <2>1, ByteKinds
<1>6. \A i \in 1..Len(l) : \/ i \in 1..Len(link) /\ l[i] = link[i]
                           \/ ~(i \in 1..Len(link)) /\ l[i][1] = 0 /\ ~Real(l[i])
                           \/ /\ ~(i \in 1..Len(link))
                              /\ l[i][1] = sent + 1 /\ l[i][2] = i - Len(link) - 1
  <2> SUFFICES ASSUME NEW i \in 1..Len(l), ~(i \in 1..Len(link))
               PROVE  \/ l[i][1] = 0 /\ ~Real(l[i])
                      \/ l[i][1] = sent + 1 /\ l[i][2] = i - Len(link) - 1
    BY <1>0, <1>4
  <2>1. PICK n \in 1..Len(t) : n = i - Len(link) /\ l[i] = t[n]
    BY <1>0, <1>2, <1>4
  <2> QED
    BY <1>5, <2>1
<1>7. Ordered(l)
  <2> SUFFICES ASSUME NEW i \in 1..Len(l), NEW j \in 1..Len(l), i < j, Real(l[i]), Real(l[j])
               PROVE  Before(l[i], l[j])
    BY DEF Ordered, Written
  <2>1. CASE j \in 1..Len(link) /\ l[j] = link[j]
    <3>1. i \in 1..Len(link) /\ l[i] = link[i]
      BY <1>0, <1>4, <2>1, SMTT(20)
    <3> QED
      BY <2>1, <3>1 DEF OrderInv, InOrder, Ordered, Written
  <2>2. CASE l[j][1] = sent + 1 /\ l[j][2] = j - Len(link) - 1
    <3>1. CASE i \in 1..Len(link) /\ l[i] = link[i]
      <4>1. l[i][1] <= sent /\ l[i][1] \in Nat
        BY <1>0, <3>1 DEF OrderInv, InOrder
      <4> QED
        BY <1>0, <2>2, <4>1 DEF Before
    <3>2. CASE l[i][1] = sent + 1 /\ l[i][2] = i - Len(link) - 1
      <4>1. i - Len(link) - 1 < j - Len(link) - 1
        BY <1>0, <1>2, <1>4
      <4> QED
        BY <2>2, <3>2, <4>1 DEF Before
    <3> QED
      BY <1>6, <3>1, <3>2
  <2> QED
    BY <1>6, <2>1, <2>2
<1>8. \A j \in 1..Len(l) : \/ j \in 1..Len(link) /\ l[j] = link[j]
                           \/ ~Real(l[j]) /\ l[j][1] = 0
                           \/ l[j][1] = sent + 1
  BY <1>6
<1>9. ASSUME NEW i \in 1..Len(rx), NEW j \in 1..Len(l) PROVE Written(rx[i], l[j])
  <2>1. CASE l[j][1] = sent + 1
    <3>1. rx[i][1] <= sent /\ rx[i][1] \in Nat
      BY <1>0 DEF OrderInv, InOrder
    <3> QED
      BY <1>0, <2>1, <3>1 DEF Written, Before
  <2>2. CASE ~(l[j][1] = sent + 1)
    BY <1>8, <2>2 DEF OrderInv, InOrder, Written
  <2> QED
    BY <2>1, <2>2
<1>10. /\ \A i \in 1..Len(rx) : rx[i][1] <= sent + 1
       /\ \A i \in 1..Len(l) : l[i][1] <= sent + 1
  BY <1>0, <1>8 DEF OrderInv, InOrder
<1>11. \A n \in 1..Len(delivered) :
         /\ delivered[n] <= sent + 1
         /\ \A i \in 1..Len(rx) : Real(rx[i]) => delivered[n] < rx[i][1]
         /\ \A i \in 1..Len(l) : Real(l[i]) => delivered[n] < l[i][1]
  <2> SUFFICES ASSUME NEW n \in 1..Len(delivered)
               PROVE  /\ delivered[n] <= sent + 1
                      /\ \A i \in 1..Len(rx) : Real(rx[i]) => delivered[n] < rx[i][1]
                      /\ \A i \in 1..Len(l) : Real(l[i]) => delivered[n] < l[i][1]
    OBVIOUS
  <2>1. /\ delivered[n] <= sent /\ delivered[n] < sent + 1
        /\ \A i \in 1..Len(rx) : Real(rx[i]) => delivered[n] < rx[i][1]
        /\ \A i \in 1..Len(link) : Real(link[i]) => delivered[n] < link[i][1]
    BY <1>0 DEF OrderInv, InOrder
  <2>2. delivered[n] <= sent + 1
    BY <1>0, <2>1
  <2>3. \A i \in 1..Len(l) : Real(l[i]) => delivered[n] < l[i][1]
    BY <1>8, <2>1
  <2> QED
    BY <2>1, <2>2, <2>3
<1>12. InOrder(rx, l, delivered, sent + 1)
  BY <1>7, <1>9, <1>10, <1>11 DEF OrderInv, InOrder
<1> QED
  BY <1>1, <1>3, <1>12

\* Every step keeps the order.
LEMMA OrderKeeps ==
  ASSUME Types, OrderInv, [Next]_vars
  PROVE  OrderInv'
<1>0. link \in Seq(Bytes)
  BY Ranges
<1>1. CASE DevRx
  <2>1. PICK b : b = Head(link)
    OBVIOUS
  <2>2. /\ Skips(b) \/ Opens(b) \/ Keeps(b) \/ Overruns(b) \/ Ends(b)
        /\ link # <<>> /\ link' = Tail(link) /\ b = link[1] /\ sent' = sent
    BY <1>1, <2>1, RxSteps DEF hostVars
  <2>3. Sifted(Tail(link))
    BY <1>0, <2>2, TailSifts
  <2>4. CASE (rx' = rx \/ rx' = <<>>) /\ delivered' = delivered
    <3>1. InOrder(rx', Tail(link), delivered, sent)
      BY <2>3, <2>4, OrderSifts
    <3> QED
      BY <2>2, <2>4, <3>1 DEF OrderInv
  <2>5. CASE Keeps(b)
    BY <2>2, <2>5, OrderEats DEF OrderInv, Keeps
  <2>6. CASE Ends(b) /\ delivered' # delivered
    <3>1. PICK k \in Frames : rx = FrameBytes(k) /\ delivered' = Append(delivered, k) /\ rx' = <<>>
      BY <2>6 DEF Ends
    <3>2. InOrder(<<>>, Tail(link), Append(delivered, k), sent)
      BY <2>2, <3>1, OrderEnds
    <3> QED
      BY <2>2, <3>1, <3>2 DEF OrderInv
  <2> QED
    BY <2>2, <2>4, <2>5, <2>6 DEF Skips, Opens, Overruns, Ends
<1>2. CASE HostSend
  <2>1. sent + 1 \in Frames /\ sent' = sent + 1 /\ UNCHANGED <<rx, delivered>>
        /\ link' = link \o Delimited(FrameBytes(sent + 1))
    BY <1>2, HostWrites DEF HostSend, devVars
  <2> QED
    BY <2>1, OrderSends DEF OrderInv
<1>3. CASE ~HostSend /\ (HostLine \/ HostFlush)
  <2>1. UNCHANGED devVars /\ \E t : link' = link \o t /\ Plain(t) /\ sent' = sent
    BY <1>3, HostWrites
  <2>2. Sifted(link') /\ sent' = sent /\ UNCHANGED <<rx, delivered>>
    BY <1>0, <2>1, PlainSifts DEF devVars
  <2> QED
    BY <2>2, OrderSifts DEF OrderInv
<1>4. CASE Lose \/ Inject \/ Cut
  <2>1. Sifted(link') /\ sent' = sent /\ UNCHANGED <<rx, delivered>>
    BY <1>4, FaultSteps DEF devVars
  <2> QED
    BY <2>1, OrderSifts DEF OrderInv
<1>5. CASE UNCHANGED vars
  BY <1>5 DEF OrderInv, vars, devVars, hostVars
<1> QED
  BY <1>1, <1>2, <1>3, <1>4, <1>5 DEF Next

-----------------------------------------------------------------------------
(* A stream that loses its beginning, or grows                             *)

Shifted(p, M, d) == [k \in M |-> p[k] - d]

\* The first d bytes are gone, and with them the frames that are not in M.
LEMMA HoldsShift ==
  ASSUME NEW K, NEW p, NEW c \in Nat, NEW s \in Seq(Bytes), Holds(K, p, c, s),
         NEW M \in SUBSET K, NEW d \in Nat, NEW e \in Nat, NEW u \in Seq(Bytes),
         Len(u) = Len(s) - d, \A i \in 1..Len(u) : e < i => u[i] = s[i + d],
         c <= e + d,
         \A k \in M : e + d < p[k],
         \A k \in K \ M : p[k] + BodyLen + 1 <= e + d
  PROVE  Holds(M, Shifted(p, M, d), e, u)
<1>0. BodyLen \in Nat \ {0} /\ Len(s) \in Nat /\ Len(u) \in Nat
  BY LinkAssumption, LenProperties
<1>1. p \in [K -> Nat] /\ \A k \in K : p[k] \in Nat
  BY DEF Holds
<1>2. PICK q : q = Shifted(p, M, d)
  OBVIOUS
<1>3. /\ \A k \in M : q[k] = p[k] - d /\ q[k] \in Nat /\ q[k] + d = p[k]
      /\ q \in [M -> Nat]
  BY <1>1, <1>2 DEF Shifted
<1>4. ASSUME NEW k \in M
      PROVE  /\ e < q[k] /\ q[k] + BodyLen + 1 <= Len(u)
             /\ u[q[k]] = Zero /\ u[q[k] + BodyLen + 1] = Zero
             /\ \A j \in 1..BodyLen : u[q[k] + j] = <<k, j>>
  <2>1. /\ p[k] + BodyLen + 1 <= Len(s) /\ s[p[k]] = Zero /\ s[p[k] + BodyLen + 1] = Zero
        /\ \A j \in 1..BodyLen : s[p[k] + j] = <<k, j>>
    BY DEF Holds
  <2>2. e < q[k] /\ q[k] + BodyLen + 1 <= Len(u)
    <3>1. PICK a \in Nat : a = p[k]
      BY <1>1
    <3>2. q[k] = a - d /\ e + d < a /\ a + BodyLen + 1 <= Len(s)
      BY <1>3, <2>1, <3>1
    <3> QED
      BY <1>0, <3>2
  <2>3. ASSUME NEW j \in 0..BodyLen+1 PROVE u[q[k] + j] = s[p[k] + j]
    <3>1. q[k] + j \in 1..Len(u) /\ e < q[k] + j /\ (q[k] + j) + d = p[k] + j
      BY <1>0, <1>3, <2>2, SMTT(20)
    <3> QED
      BY <3>1
  <2>4. 0 \in 0..BodyLen+1 /\ BodyLen + 1 \in 0..BodyLen+1 /\ q[k] + 0 = q[k] /\ p[k] + 0 = p[k]
        /\ \A j \in 1..BodyLen : j \in 0..BodyLen+1
    BY <1>0, <1>1, <1>3
  <2>5. u[q[k]] = Zero
    BY <2>1, <2>3, <2>4
  <2>6. u[q[k] + (BodyLen + 1)] = s[p[k] + (BodyLen + 1)]
    BY <2>3, <2>4
  <2>7. q[k] + (BodyLen + 1) = q[k] + BodyLen + 1 /\ p[k] + (BodyLen + 1) = p[k] + BodyLen + 1
    BY <1>0, <1>1, <1>3
  <2> QED
    BY <2>1, <2>2, <2>3, <2>4, <2>5, <2>6, <2>7
<1>5. \A k, n \in M : k < n => q[k] + BodyLen + 1 < q[n]
  <2>1. \A k, n \in M : k < n => p[k] + BodyLen + 1 < p[n]
    BY DEF Holds
  <2> QED
    BY <1>0, <1>1, <1>3, <2>1, SMTT(20)
<1>6. ASSUME NEW i \in 1..Len(u), e < i
      PROVE  (\E k \in M : Covers(q, k, i)) \/ u[i] \in {Char, Eol}
  <2>1. i + d \in 1..Len(s) /\ c < i + d /\ u[i] = s[i + d] /\ e + d < i + d
    BY <1>0, <1>6
  <2>2. CASE s[i + d] \in {Char, Eol}
    BY <2>1, <2>2
  <2>3. CASE \E k \in K : Covers(p, k, i + d)
    <3>1. PICK k \in K : p[k] <= i + d /\ i + d <= p[k] + BodyLen + 1
      BY <2>3 DEF Covers
    <3>2. k \in M
      BY <1>0, <1>1, <2>1, <3>1
    <3>3. Covers(q, k, i)
      BY <1>0, <1>1, <1>3, <3>1, <3>2, SMTT(20) DEF Covers
    <3> QED
      BY <3>2, <3>3
  <2> QED
    BY <2>1, <2>2, <2>3 DEF Holds
<1>7. Holds(M, q, e, u)
  BY <1>3, <1>4, <1>5, <1>6 DEF Holds
<1> QED
  BY <1>2, <1>7

\* Bytes of no frame at its end.
LEMMA HoldsPlain ==
  ASSUME NEW K, NEW p, NEW c \in Nat, NEW s \in Seq(Bytes), Holds(K, p, c, s),
         NEW t, Plain(t)
  PROVE  Holds(K, p, c, s \o t)
<1>0. BodyLen \in Nat \ {0} /\ Len(s) \in Nat /\ Len(t) \in Nat /\ t \in Seq(Bytes)
  BY LinkAssumption, LenProperties DEF Plain
<1>1. PICK u : u = s \o t
  OBVIOUS
<1>2. /\ Len(u) = Len(s) + Len(t) /\ \A i \in 1..Len(s) : u[i] = s[i]
      /\ \A i \in 1..Len(t) : u[Len(s) + i] = t[i]
  BY <1>0, <1>1, JoinIs
<1>3. p \in [K -> Nat] /\ \A k \in K : p[k] \in Nat
  BY DEF Holds
<1>4. ASSUME NEW k \in K
      PROVE  /\ c < p[k] /\ p[k] + BodyLen + 1 <= Len(u)
             /\ u[p[k]] = Zero /\ u[p[k] + BodyLen + 1] = Zero
             /\ \A j \in 1..BodyLen : u[p[k] + j] = <<k, j>>
  <2>1. /\ c < p[k] /\ p[k] + BodyLen + 1 <= Len(s) /\ s[p[k]] = Zero
        /\ s[p[k] + BodyLen + 1] = Zero /\ \A j \in 1..BodyLen : s[p[k] + j] = <<k, j>>
    BY DEF Holds
  <2>2. /\ p[k] \in 1..Len(s) /\ p[k] + BodyLen + 1 \in 1..Len(s)
        /\ \A j \in 1..BodyLen : p[k] + j \in 1..Len(s)
    <3>1. PICK a \in Nat : a = p[k]
      BY <1>3
    <3>2. c < a /\ a + BodyLen + 1 <= Len(s)
      BY <2>1, <3>1
    <3> QED
      BY <1>0, <3>1, <3>2, SMTT(20)
  <2>3. p[k] + BodyLen + 1 <= Len(u)
    BY <1>0, <1>2, <2>2
  <2> QED
    BY <1>2, <2>1, <2>2, <2>3
<1>5. ASSUME NEW i \in 1..Len(u), c < i
      PROVE  (\E k \in K : Covers(p, k, i)) \/ u[i] \in {Char, Eol}
  <2>1. CASE i \in 1..Len(s)
    BY <1>2, <1>5, <2>1 DEF Holds
  <2>2. CASE ~(i \in 1..Len(s))
    <3>1. i - Len(s) \in 1..Len(t) /\ Len(s) + (i - Len(s)) = i
      BY <1>0, <1>2, <2>2
    <3>2. u[i] = t[i - Len(s)]
      BY <1>2, <3>1
    <3> QED
      BY <3>1, <3>2 DEF Plain
  <2> QED
    BY <2>1, <2>2
<1>6. Holds(K, p, c, u)
  BY <1>3, <1>4, <1>5 DEF Holds
<1> QED
  BY <1>1, <1>6

\* A frame, newer than the others, at its end.
LEMMA HoldsFrame ==
  ASSUME NEW K \in SUBSET Nat, NEW p, NEW c \in Nat, NEW s \in Seq(Bytes), Holds(K, p, c, s),
         c <= Len(s), NEW n \in Frames, \A k \in K : k < n
  PROVE  \E q : Holds(K \union {n}, q, c, s \o Delimited(FrameBytes(n)))
<1>0. BodyLen \in Nat \ {0} /\ Len(s) \in Nat /\ n \in Nat
  BY LinkAssumption, LenProperties DEF Frames
<1>1. PICK t : t = Delimited(FrameBytes(n))
  OBVIOUS
<1>2. /\ t \in Seq(Bytes) /\ Len(t) = BodyLen + 2 /\ t[1] = Zero
      /\ (\A j \in 1..BodyLen : t[1 + j] = <<n, j>>) /\ t[BodyLen + 2] = Zero
  BY <1>1, DelimitedIs
<1>3. PICK u : u = s \o t
  OBVIOUS
<1>4. /\ Len(u) = Len(s) + Len(t) /\ \A i \in 1..Len(s) : u[i] = s[i]
      /\ \A i \in 1..Len(t) : u[Len(s) + i] = t[i]
  BY <1>2, <1>3, JoinIs
<1>5. p \in [K -> Nat] /\ (\A k \in K : p[k] \in Nat) /\ ~(n \in K)
  BY <1>0 DEF Holds
<1>6. PICK q : q = [k \in K \union {n} |-> IF k = n THEN Len(s) + 1 ELSE p[k]]
  OBVIOUS
<1>7. /\ q \in [K \union {n} -> Nat] /\ q[n] = Len(s) + 1
      /\ \A k \in K : q[k] = p[k] /\ q[k] \in Nat /\ k # n
  BY <1>0, <1>5, <1>6
<1>8. ASSUME NEW k \in K
      PROVE  /\ c < q[k] /\ q[k] + BodyLen + 1 <= Len(s)
             /\ u[q[k]] = Zero /\ u[q[k] + BodyLen + 1] = Zero
             /\ \A j \in 1..BodyLen : u[q[k] + j] = <<k, j>>
  <2>1. /\ c < p[k] /\ p[k] + BodyLen + 1 <= Len(s) /\ s[p[k]] = Zero
        /\ s[p[k] + BodyLen + 1] = Zero /\ \A j \in 1..BodyLen : s[p[k] + j] = <<k, j>>
    BY DEF Holds
  <2>2. /\ p[k] \in 1..Len(s) /\ p[k] + BodyLen + 1 \in 1..Len(s)
        /\ \A j \in 1..BodyLen : p[k] + j \in 1..Len(s)
    <3>1. PICK a \in Nat : a = p[k]
      BY <1>5
    <3>2. c < a /\ a + BodyLen + 1 <= Len(s)
      BY <2>1, <3>1
    <3> QED
      BY <1>0, <3>1, <3>2, SMTT(20)
  <2> QED
    BY <1>4, <1>7, <2>1, <2>2
<1>9. /\ c < q[n] /\ q[n] + BodyLen + 1 = Len(u)
      /\ u[q[n]] = Zero /\ u[q[n] + BodyLen + 1] = Zero
      /\ \A j \in 1..BodyLen : u[q[n] + j] = <<n, j>>
  <2>1. /\ 1 \in 1..Len(t) /\ BodyLen + 2 \in 1..Len(t)
        /\ \A j \in 1..BodyLen : 1 + j \in 1..Len(t)
    BY <1>0, <1>2
  <2>2. /\ u[Len(s) + 1] = Zero /\ u[Len(s) + (BodyLen + 2)] = Zero
        /\ \A j \in 1..BodyLen : u[Len(s) + (1 + j)] = <<n, j>>
    BY <1>2, <1>4, <2>1
  <2>3. /\ q[n] + BodyLen + 1 = Len(s) + (BodyLen + 2) /\ Len(u) = Len(s) + (BodyLen + 2)
        /\ c < q[n] /\ \A j \in 1..BodyLen : q[n] + j = Len(s) + (1 + j)
    BY <1>0, <1>2, <1>4, <1>7
  <2> QED
    BY <1>7, <2>2, <2>3
<1>10. \A k, m \in K \union {n} : k < m => q[k] + BodyLen + 1 < q[m]
  <2> SUFFICES ASSUME NEW k \in K \union {n}, NEW m \in K \union {n}, k < m
               PROVE  q[k] + BodyLen + 1 < q[m]
    OBVIOUS
  <2>1. k \in K /\ k # n
    BY <1>0
  <2>2. CASE m = n
    BY <1>0, <1>7, <1>8, <2>1, <2>2
  <2>3. CASE m \in K
    <3>1. p[k] + BodyLen + 1 < p[m]
      BY <2>1, <2>3 DEF Holds
    <3> QED
      BY <1>7, <2>1, <2>3, <3>1
  <2> QED
    BY <2>2, <2>3
<1>11. ASSUME NEW i \in 1..Len(u), c < i
       PROVE  (\E k \in K \union {n} : Covers(q, k, i)) \/ u[i] \in {Char, Eol}
  <2>1. CASE i \in 1..Len(s)
    <3>1. (\E k \in K : Covers(p, k, i)) \/ s[i] \in {Char, Eol}
      BY <1>11, <2>1 DEF Holds
    <3> QED
      BY <1>4, <1>7, <2>1, <3>1 DEF Covers
  <2>2. CASE ~(i \in 1..Len(s))
    <3>1. Covers(q, n, i)
      BY <1>0, <1>2, <1>4, <1>7, <1>9, <2>2 DEF Covers
    <3> QED
      BY <3>1
  <2> QED
    BY <2>1, <2>2
<1>12. \A k \in K : q[k] + BodyLen + 1 <= Len(u)
  <2>1. Len(s) <= Len(u)
    BY <1>0, <1>2, <1>4
  <2> QED
    BY <1>0, <1>2, <1>4, <1>7, <1>8, <2>1
<1>13. ASSUME NEW k \in K \union {n}
       PROVE  /\ c < q[k] /\ q[k] + BodyLen + 1 <= Len(u)
              /\ u[q[k]] = Zero /\ u[q[k] + BodyLen + 1] = Zero
              /\ \A j \in 1..BodyLen : u[q[k] + j] = <<k, j>>
  <2>1. CASE k \in K
    BY <1>8, <1>12, <2>1
  <2>2. CASE k = n
    <3>1. q[n] + BodyLen + 1 <= Len(u)
      BY <1>0, <1>2, <1>4, <1>9
    <3> QED
      BY <1>9, <2>2, <3>1
  <2> QED
    BY <2>1, <2>2
<1>14. Holds(K \union {n}, q, c, u)
  BY <1>7, <1>10, <1>11, <1>13 DEF Holds
<1> QED
  BY <1>1, <1>3, <1>14

-----------------------------------------------------------------------------
(* A receiver in phase                                                     *)

\* The stream of a receiver within a frame.
LEMMA StreamIs ==
  ASSUME NEW r \in Seq(Bytes), NEW l \in Seq(Bytes)
  PROVE  /\ Opened(r, l) \in Seq(Bytes) /\ Len(Opened(r, l)) = Len(r) + 1 + Len(l)
         /\ Len(r) \in Nat /\ Len(l) \in Nat
         /\ Opened(r, l)[1] = Zero
         /\ \A i \in 1..Len(r) : Opened(r, l)[1 + i] = r[i]
         /\ \A i \in 1..Len(l) : Opened(r, l)[Len(r) + 1 + i] = l[i]
<1>1. PICK z : z = <<Zero>>
  OBVIOUS
<1>2. z \in Seq(Bytes) /\ Len(z) = 1 /\ z[1] = Zero
  BY <1>1, ByteKinds
<1>3. PICK a : a = z \o r
  OBVIOUS
<1>4. /\ a \in Seq(Bytes) /\ Len(a) = Len(z) + Len(r) /\ Len(r) \in Nat
      /\ \A i \in 1..Len(z) : a[i] = z[i]
      /\ \A i \in 1..Len(r) : a[Len(z) + i] = r[i]
  BY <1>2, <1>3, JoinIs
<1>5. PICK s : s = a \o l
  OBVIOUS
<1>6. /\ s \in Seq(Bytes) /\ Len(s) = Len(a) + Len(l) /\ Len(l) \in Nat
      /\ \A i \in 1..Len(a) : s[i] = a[i]
      /\ \A i \in 1..Len(l) : s[Len(a) + i] = l[i]
  BY <1>4, <1>5, JoinIs
<1>7. Len(a) = Len(r) + 1 /\ Len(s) = Len(r) + 1 + Len(l)
  BY <1>2, <1>4, <1>6
<1>8. 1 \in 1..Len(a) /\ 1 \in 1..Len(z) /\ \A i \in 1..Len(r) : 1 + i \in 1..Len(a)
  BY <1>2, <1>4, <1>7
<1>9. s[1] = Zero
  BY <1>2, <1>4, <1>6, <1>8
<1>10. \A i \in 1..Len(r) : s[1 + i] = r[i]
  BY <1>2, <1>4, <1>6, <1>8
<1>11. s = Opened(r, l)
  BY <1>1, <1>3, <1>5 DEF Opened
<1> QED
  BY <1>4, <1>6, <1>7, <1>9, <1>10, <1>11

\* u is the opening delimiter, then r, then l.
OpenedAs(u, r, l) ==
  /\ u \in Seq(Bytes) /\ Len(u) = Len(r) + 1 + Len(l)
  /\ Len(r) \in Nat /\ Len(l) \in Nat
  /\ u[1] = Zero
  /\ \A i \in 1..Len(r) : u[1 + i] = r[i]
  /\ \A i \in 1..Len(l) : u[Len(r) + 1 + i] = l[i]

\* The same of a stream that is Opened(r, l).
LEMMA OpenedIs ==
  ASSUME NEW r \in Seq(Bytes), NEW l \in Seq(Bytes)
  PROVE  OpenedAs(Opened(r, l), r, l)
  BY StreamIs DEF OpenedAs

\* Between frames, a receiver in phase passes over a byte of a line or opens a frame.
LEMMA SyncedIdles ==
  ASSUME Types, NEW lo \in 0..sent, NEW p, Synced(lo, p), mode # "frame",
         link # <<>>, link' = Tail(link), Skips(link[1]) \/ Opens(link[1])
  PROVE  \E q : Holds(lo+1..sent, q, 0, Stream')
<1>0. link \in Seq(Bytes)
  BY Ranges
<1>1. PICK K : K = lo+1..sent
  OBVIOUS
<1>2. Holds(K, p, 0, link)
  BY <1>1 DEF Synced, Stream
<1>3. /\ Tail(link) \in Seq(Bytes) /\ Len(Tail(link)) = Len(link) - 1 /\ Len(link) \in Nat \ {0}
      /\ \A i \in 1..Len(link)-1 : Tail(link)[i] = link[i + 1]
  BY <1>0, TailIs
<1>4. CASE Skips(link[1])
  <2>1. PICK u : u = Tail(link)
    OBVIOUS
  <2>2. Stream' = u
    BY <1>4, <2>1 DEF Skips, Stream
  <2>3. \A k \in K : 0 + 1 < p[k]
    <3> SUFFICES ASSUME NEW k \in K PROVE 1 < p[k]
      OBVIOUS
    <3>1. p[k] \in Nat /\ 0 < p[k] /\ link[p[k]] = Zero
      BY <1>2 DEF Holds
    <3>2. link[1] # Zero
      BY <1>4 DEF Skips
    <3> QED
      BY <3>1, <3>2
  <2>4. u \in Seq(Bytes) /\ Len(u) = Len(link) - 1 /\ \A i \in 1..Len(u) : u[i] = link[i + 1]
    BY <1>3, <2>1
  <2>5. 0 \in Nat /\ 1 \in Nat /\ 0 <= 0 + 1 /\ K \in SUBSET K /\ K \ K = {}
    OBVIOUS
  <2>6. Holds(K, Shifted(p, K, 1), 0, u)
    BY <1>0, <1>2, <2>3, <2>4, <2>5, HoldsShift
  <2> QED
    BY <1>1, <2>2, <2>6
<1>5. CASE Opens(link[1])
  <2>1. PICK l : l = Tail(link)
    OBVIOUS
  <2>2. PICK r : r = <<>>
    OBVIOUS
  <2>3. PICK u : u = Opened(r, l)
    OBVIOUS
  <2>4. Stream' = u /\ link[1] = Zero
    BY <1>5, <2>1, <2>2, <2>3 DEF Opens, Stream
  <2>5. r \in Seq(Bytes) /\ Len(r) = 0
    BY <2>2
  <2>6. l \in Seq(Bytes) /\ Len(l) = Len(link) - 1 /\ \A i \in 1..Len(l) : l[i] = link[i + 1]
    BY <1>3, <2>1
  <2>7. /\ u \in Seq(Bytes) /\ Len(u) = Len(r) + 1 + Len(l) /\ u[1] = Zero
        /\ \A i \in 1..Len(l) : u[Len(r) + 1 + i] = l[i]
    BY <2>3, <2>5, <2>6, StreamIs
  <2>8. Len(u) = Len(link) - 0
    BY <1>3, <2>5, <2>6, <2>7
  <2>9. ASSUME NEW i \in 1..Len(u) PROVE u[i] = link[i + 0]
    <3>1. CASE i = 1
      BY <2>4, <2>7, <3>1
    <3>2. CASE i # 1
      <4>1. /\ i - 1 \in 1..Len(l) /\ Len(r) + 1 + (i - 1) = i /\ (i - 1) + 1 = i
            /\ i + 0 = i
        BY <1>3, <2>5, <2>6, <2>8, <3>2
      <4> QED
        BY <2>6, <2>7, <4>1
    <3> QED
      BY <3>1, <3>2
  <2>10. 0 \in Nat /\ 0 <= 0 + 0 /\ K \in SUBSET K /\ K \ K = {}
    OBVIOUS
  <2>11. \A k \in K : 0 + 0 < p[k]
    BY <1>2 DEF Holds
  <2>12. Holds(K, Shifted(p, K, 0), 0, u)
    BY <1>0, <1>2, <2>7, <2>8, <2>9, <2>10, <2>11, HoldsShift
  <2> QED
    BY <1>1, <2>4, <2>12
<1> QED
  BY <1>4, <1>5

\* Within a frame, it stands in the oldest frame that is on the way.
LEMMA SyncedStands ==
  ASSUME Types, NEW lo \in 0..sent, NEW p, Synced(lo, p), mode = "frame",
         link # <<>>
  PROVE  /\ Stream \in Seq(Bytes) /\ Len(Stream) = Len(rx) + 1 + Len(link) /\ Stream[1] = Zero
         /\ (\A i \in 1..Len(rx) : Stream[1 + i] = rx[i])
         /\ (\A i \in 1..Len(link) : Stream[Len(rx) + 1 + i] = link[i])
         /\ lo + 1 \in lo+1..sent /\ lo + 1 \in Frames /\ p[lo + 1] = 1
         /\ Len(rx) <= BodyLen
         /\ \A j \in 1..Len(rx) : rx[j] = <<lo + 1, j>>
         /\ Len(rx) = BodyLen => link[1] = Zero /\ rx = FrameBytes(lo + 1)
         /\ Len(rx) # BodyLen => Real(link[1]) /\ link[1] # Zero /\ Len(rx) < RxCap
<1>0. /\ rx \in Seq(Bytes) /\ link \in Seq(Bytes) /\ Len(rx) \in Nat /\ Len(link) \in Nat
      /\ sent \in Nat /\ lo \in Nat /\ Len(link) # 0
  BY Ranges, EmptySeq
<1>1. PICK s : s = Stream
  OBVIOUS
<1>2. s = Opened(rx, link) /\ Holds(lo+1..sent, p, 0, s)
  BY <1>1 DEF Synced, Stream
<1>3. /\ s \in Seq(Bytes) /\ Len(s) = Len(rx) + 1 + Len(link) /\ s[1] = Zero
      /\ \A i \in 1..Len(rx) : s[1 + i] = rx[i]
      /\ \A i \in 1..Len(link) : s[Len(rx) + 1 + i] = link[i]
  BY <1>0, <1>2, StreamIs
<1>4. 1 \in 1..Len(s) /\ BodyLen \in Nat \ {0} /\ BodyLen <= RxCap /\ RxCap \in Nat
  BY <1>0, <1>3, LinkAssumption
<1>5. PICK n \in lo+1..sent : Covers(p, n, 1)
  BY <1>2, <1>3, <1>4, ByteKinds DEF Holds
<1>6. p[n] = 1
  <2>1. p[n] \in Nat /\ 0 < p[n]
    BY <1>2 DEF Holds
  <2> QED
    BY <1>5, <2>1 DEF Covers
<1>7. lo + 1 \in lo+1..sent /\ lo + 1 <= n /\ n \in Nat
  BY <1>0, <1>5
<1>8. n = lo + 1
  <2> SUFFICES ASSUME lo + 1 < n PROVE FALSE
    BY <1>0, <1>7
  <2>1. p[lo + 1] \in Nat /\ 0 < p[lo + 1] /\ p[lo + 1] + BodyLen + 1 < p[n]
    BY <1>2, <1>5, <1>7 DEF Holds
  <2> QED
    BY <1>4, <1>6, <2>1
<1>9. /\ s[1 + BodyLen + 1] = Zero /\ 1 + BodyLen + 1 <= Len(s)
      /\ \A j \in 1..BodyLen : s[1 + j] = <<lo + 1, j>>
  BY <1>2, <1>5, <1>6, <1>8 DEF Holds
<1>10. lo + 1 \in Frames
  <2>1. sent \in 0..MaxFrames
    BY DEF Types, TypeOK
  <2> QED
    BY <1>0, <1>7, <2>1, LinkAssumption DEF Frames
<1>11. Len(rx) <= BodyLen
  <2> SUFFICES ASSUME BodyLen < Len(rx) PROVE FALSE
    BY <1>0, <1>4
  <2>1. BodyLen + 1 \in 1..Len(rx) /\ 1 + (BodyLen + 1) = 1 + BodyLen + 1
    BY <1>0, <1>4
  <2>2. rx[BodyLen + 1] = Zero
    BY <1>3, <1>9, <2>1
  <2>3. rx \in Seq(Bytes \ {Zero})
    BY DEF Types, TypeOK
  <2>4. rx[BodyLen + 1] \in Bytes \ {Zero}
    BY <2>1, <2>3, ElementOfSeq
  <2> QED
    BY <2>2, <2>4
<1>12. \A j \in 1..Len(rx) : rx[j] = <<lo + 1, j>>
  <2>1. \A j \in 1..Len(rx) : j \in 1..BodyLen
    BY <1>0, <1>4, <1>11
  <2> QED
    BY <1>3, <1>9, <2>1
<1>13. link[1] = s[Len(rx) + 1 + 1]
  <2>1. 1 \in 1..Len(link)
    BY <1>0
  <2> QED
    BY <1>3, <2>1
<1>14. ASSUME Len(rx) = BodyLen PROVE link[1] = Zero /\ rx = FrameBytes(lo + 1)
  <2>1. Len(rx) + 1 + 1 = 1 + BodyLen + 1
    BY <1>4, <1>14
  <2>2. PICK d : d = FrameBytes(lo + 1)
    OBVIOUS
  <2>3. d \in Seq(Bytes) /\ Len(d) = BodyLen /\ \A j \in 1..BodyLen : d[j] = <<lo + 1, j>>
    BY <1>10, <2>2, FrameIs
  <2>4. \A j \in 1..Len(rx) : rx[j] = d[j]
    BY <1>12, <1>14, <2>3
  <2>5. rx = d
    BY <1>0, <1>14, <2>3, <2>4, SeqEqual
  <2> QED
    BY <1>9, <1>13, <2>1, <2>2, <2>5
<1>15. ASSUME Len(rx) # BodyLen PROVE Real(link[1]) /\ link[1] # Zero /\ Len(rx) < RxCap
  <2>1. Len(rx) + 1 \in 1..BodyLen /\ Len(rx) + 1 + 1 = 1 + (Len(rx) + 1) /\ Len(rx) < RxCap
    BY <1>0, <1>4, <1>11, <1>15
  <2>2. link[1] = <<lo + 1, Len(rx) + 1>>
    BY <1>9, <1>13, <2>1
  <2> QED
    BY <1>10, <2>1, <2>2, ByteKinds
<1> QED
  BY <1>3, <1>6, <1>7, <1>8, <1>10, <1>11, <1>12, <1>14, <1>15, <1>1

\* It keeps the bytes of that frame, ...
LEMMA SyncedKeeps ==
  ASSUME Types, NEW lo \in 0..sent, NEW p, Synced(lo, p), mode = "frame",
         link # <<>>, link' = Tail(link), Keeps(link[1])
  PROVE  \E q : Holds(lo+1..sent, q, 0, Stream')
<1>0. rx \in Seq(Bytes) /\ link \in Seq(Bytes) /\ Len(rx) \in Nat
  BY Ranges
<1>1. PICK s : s = Stream
  OBVIOUS
<1>2. /\ s \in Seq(Bytes) /\ Len(s) = Len(rx) + 1 + Len(link) /\ s[1] = Zero
      /\ (\A i \in 1..Len(rx) : s[1 + i] = rx[i])
      /\ (\A i \in 1..Len(link) : s[Len(rx) + 1 + i] = link[i])
  BY <1>1, SyncedStands
<1>3. PICK l : l = Tail(link)
  OBVIOUS
<1>4. /\ l \in Seq(Bytes) /\ Len(l) = Len(link) - 1 /\ Len(link) \in Nat \ {0}
      /\ (\A i \in 1..Len(link)-1 : l[i] = link[i + 1]) /\ link[1] \in Bytes
  BY <1>0, <1>3, TailIs
<1>5. PICK r : r = Append(rx, link[1])
  OBVIOUS
<1>6. /\ r \in Seq(Bytes) /\ Len(r) = Len(rx) + 1 /\ (\A i \in 1..Len(rx) : r[i] = rx[i])
      /\ r[Len(rx) + 1] = link[1]
  BY <1>0, <1>4, <1>5, AppendProperties
<1>7. PICK u : u = Opened(r, l)
  OBVIOUS
<1>8. /\ u \in Seq(Bytes) /\ Len(u) = Len(r) + 1 + Len(l) /\ u[1] = Zero
      /\ (\A i \in 1..Len(r) : u[1 + i] = r[i])
      /\ \A i \in 1..Len(l) : u[Len(r) + 1 + i] = l[i]
  <2>1. OpenedAs(u, r, l)
    BY <1>4, <1>6, <1>7, OpenedIs
  <2> QED
    BY <2>1 DEF OpenedAs
<1>9. Len(u) = Len(s) - 0
  BY <1>0, <1>2, <1>4, <1>6, <1>8
<1>10. ASSUME NEW i \in 1..Len(u) PROVE u[i] = s[i + 0]
  <2>0. i + 0 = i
    OBVIOUS
  <2>1. CASE i = 1
    BY <1>2, <1>8, <2>1
  <2>2. CASE i # 1 /\ i <= Len(rx) + 1
    <3>1. i - 1 \in 1..Len(rx) /\ i - 1 \in 1..Len(r) /\ 1 + (i - 1) = i
      BY <1>0, <1>6, <2>2
    <3>2. u[i] = r[i - 1] /\ s[i] = rx[i - 1] /\ r[i - 1] = rx[i - 1]
      <4>1. u[1 + (i - 1)] = r[i - 1]
        BY <1>8, <3>1
      <4>2. s[1 + (i - 1)] = rx[i - 1]
        BY <1>2, <3>1
      <4> QED
        BY <1>6, <3>1, <4>1, <4>2
    <3> QED
      BY <2>0, <3>2
  <2>3. CASE i = Len(rx) + 2
    <3>1. /\ Len(rx) + 1 \in 1..Len(r) /\ 1 + (Len(rx) + 1) = i
          /\ 1 \in 1..Len(link) /\ Len(rx) + 1 + 1 = i
      BY <1>0, <1>4, <1>6, <2>3
    <3>2. u[i] = r[Len(rx) + 1] /\ s[i] = link[1]
      BY <1>2, <1>8, <3>1
    <3> QED
      BY <1>6, <2>0, <3>2
  <2>4. CASE i > Len(rx) + 2
    <3>0. i - Len(rx) - 2 \in 1..Len(l)
      BY <1>0, <1>2, <1>4, <1>9, <2>4
    <3>1. PICK n \in 1..Len(l) : n = i - Len(rx) - 2
      BY <3>0
    <3>2. /\ Len(r) + 1 + n = i /\ n \in 1..Len(link)-1
          /\ n + 1 \in 1..Len(link) /\ Len(rx) + 1 + (n + 1) = i
      BY <1>0, <1>4, <1>6, <3>1
    <3>3. u[i] = l[n] /\ l[n] = link[n + 1] /\ s[i] = link[n + 1]
      BY <1>2, <1>4, <1>8, <3>2
    <3> QED
      BY <2>0, <3>3
  <2>5. i = 1 \/ (i # 1 /\ i <= Len(rx) + 1) \/ i = Len(rx) + 2 \/ i > Len(rx) + 2
    BY <1>0
  <2> QED
    BY <2>1, <2>2, <2>3, <2>4, <2>5
<1>11. PICK K : K = lo+1..sent
  OBVIOUS
<1>12. Holds(K, p, 0, s)
  BY <1>1, <1>11 DEF Synced
<1>13. 0 \in Nat /\ 0 <= 0 + 0 /\ K \in SUBSET K /\ K \ K = {}
  OBVIOUS
<1>14. \A k \in K : 0 + 0 < p[k]
  BY <1>12 DEF Holds
<1>15. Holds(K, Shifted(p, K, 0), 0, u)
  <2>1. s \in Seq(Bytes) /\ u \in Seq(Bytes)
    BY <1>2, <1>8
  <2> QED
    BY <2>1, <1>9, <1>10, <1>12, <1>13, <1>14, HoldsShift
<1>16. Stream' = u
  BY <1>3, <1>5, <1>7 DEF Keeps, Stream
<1> QED
  BY <1>11, <1>15, <1>16

\* ... and at its end dispatches it.
LEMMA SyncedEnds ==
  ASSUME Types, NEW lo \in 0..sent, NEW p, Synced(lo, p), mode = "frame",
         link # <<>>, link' = Tail(link), Ends(link[1])
  PROVE  /\ lo + 1 \in 1..sent /\ delivered' = Append(delivered, lo + 1)
         /\ \E q : Holds((lo + 1)+1..sent, q, 0, Stream')
<1>0. /\ rx \in Seq(Bytes) /\ link \in Seq(Bytes) /\ Len(rx) \in Nat
      /\ sent \in Nat /\ lo \in Nat /\ BodyLen \in Nat \ {0}
  BY Ranges, LinkAssumption
<1>1. PICK s : s = Stream
  OBVIOUS
<1>2. /\ s \in Seq(Bytes) /\ Len(s) = Len(rx) + 1 + Len(link)
      /\ (\A i \in 1..Len(link) : s[Len(rx) + 1 + i] = link[i])
      /\ lo + 1 \in lo+1..sent /\ lo + 1 \in Frames /\ p[lo + 1] = 1
      /\ Len(rx) = BodyLen => link[1] = Zero /\ rx = FrameBytes(lo + 1)
      /\ Len(rx) # BodyLen => link[1] # Zero /\ Len(rx) < RxCap
  BY <1>1, SyncedStands
<1>3. Len(rx) = BodyLen /\ rx = FrameBytes(lo + 1) /\ Stream' = Tail(link)
  BY <1>2 DEF Ends, Stream
<1>4. delivered' = Append(delivered, lo + 1)
  <2>1. PICK k \in Frames : rx = FrameBytes(k) /\ delivered' = Append(delivered, k)
    BY <1>2, <1>3 DEF Ends
  <2>2. 1 \in 1..BodyLen
    BY <1>0
  <2>3. rx[1] = <<k, 1>>
    BY <2>1, <2>2, FrameIs
  <2>4. rx[1] = <<lo + 1, 1>>
    BY <1>2, <1>3, <2>2, FrameIs
  <2>5. k = lo + 1
    BY <2>3, <2>4
  <2> QED
    BY <2>1, <2>5
<1>5. PICK u : u = Tail(link)
  OBVIOUS
<1>6. /\ u \in Seq(Bytes) /\ Len(u) = Len(link) - 1 /\ Len(link) \in Nat \ {0}
      /\ \A i \in 1..Len(link)-1 : u[i] = link[i + 1]
  BY <1>0, <1>5, TailIs
<1>7. PICK d \in Nat : d = BodyLen + 2
  BY <1>0
<1>8. Len(u) = Len(s) - d
  BY <1>0, <1>2, <1>3, <1>6, <1>7
<1>9. ASSUME NEW i \in 1..Len(u) PROVE u[i] = s[i + d]
  <2>1. i \in 1..Len(link)-1 /\ i + 1 \in 1..Len(link) /\ Len(rx) + 1 + (i + 1) = i + d
    BY <1>0, <1>3, <1>6, <1>7
  <2> QED
    BY <1>2, <1>6, <2>1
<1>10. PICK K : K = lo+1..sent
  OBVIOUS
<1>11. PICK M : M = (lo + 1)+1..sent
  OBVIOUS
<1>12. M \in SUBSET K /\ (\A k \in K \ M : k = lo + 1) /\ \A k \in M : k \in K /\ lo + 1 < k
  BY <1>0, <1>10, <1>11
<1>13. Holds(K, p, 0, s)
  BY <1>1, <1>10 DEF Synced
<1>14. \A k \in M : 0 + d < p[k]
  <2> SUFFICES ASSUME NEW k \in M PROVE d < p[k]
    BY <1>7
  <2>1. p[lo + 1] + BodyLen + 1 < p[k] /\ p[k] \in Nat
    BY <1>2, <1>10, <1>12, <1>13 DEF Holds
  <2>2. PICK a \in Nat : a = p[k]
    BY <2>1
  <2>3. 1 + BodyLen + 1 < a
    BY <1>2, <2>1, <2>2
  <2> QED
    BY <1>0, <1>7, <2>2, <2>3
<1>15. \A k \in K \ M : p[k] + BodyLen + 1 <= 0 + d
  BY <1>0, <1>2, <1>7, <1>12
<1>16. 0 \in Nat /\ 0 <= 0 + d
  BY <1>7
<1>17. Holds(M, Shifted(p, M, d), 0, u)
  <2>1. s \in Seq(Bytes) /\ u \in Seq(Bytes) /\ M \in SUBSET K
    BY <1>2, <1>6, <1>12
  <2> QED
    BY <2>1, <1>8, <1>9, <1>13, <1>14, <1>15, <1>16, HoldsShift
<1>18. lo + 1 \in 1..sent
  BY <1>0, <1>2
<1> QED
  BY <1>3, <1>4, <1>5, <1>11, <1>17, <1>18

-----------------------------------------------------------------------------
(* A receiver that a burst brings back in phase                            *)

\* Each byte it reads brings the burst nearer, fills the buffer, or ends the frame.
LEMMA BurstReads ==
  ASSUME Types, NEW lo \in 0..sent, NEW p, NEW c \in Nat, NEW m \in Nat, Flushing(lo, p, c, m),
         link # <<>>, link' = Tail(link), sent' = sent, NEW b, b = link[1],
         Skips(b) \/ Opens(b) \/ Keeps(b) \/ Overruns(b) \/ Ends(b)
  PROVE  \/ \E q, e, n : e \in Nat /\ n \in Nat /\ Flushing(lo, q, e, n)'
         \/ \E q : Synced(lo, q)' /\ delivered' = delivered
<1>0. /\ link \in Seq(Bytes) /\ rx \in Seq(Bytes) /\ Len(rx) \in Nat /\ RxCap \in Nat
      /\ Len(rx) <= RxCap
  BY Ranges, LinkAssumption DEF Types, TypeOK
<1>1. PICK K : K = lo+1..sent
  OBVIOUS
<1>2. /\ Holds(K, p, c, link) /\ c + m <= Len(link)
      /\ \A i \in 1..Len(link) : c < i /\ i <= c + m => link[i] = Char
      /\ m > RxCap \/ (c = 0 /\ Len(rx) + m > RxCap)
  BY <1>1 DEF Flushing
<1>3. PICK u : u = Tail(link)
  OBVIOUS
<1>4. /\ u \in Seq(Bytes) /\ Len(u) = Len(link) - 1 /\ Len(link) \in Nat \ {0}
      /\ \A i \in 1..Len(u) : u[i] = link[i + 1]
  BY <1>0, <1>3, TailIs
<1>5. K \in SUBSET K /\ K \ K = {} /\ 1 \in Nat /\ 0 \in Nat
  OBVIOUS
<1>6. \A k \in K : p[k] \in Nat /\ c < p[k] /\ link[p[k]] = Zero
  BY <1>2 DEF Holds
<1>7. link' = u /\ lo+1..sent' = K
  BY <1>1, <1>3
<1>8. CASE c > 0
  <2>1. PICK e \in Nat : e = c - 1
    BY <1>8
  <2>2. c <= e + 1
    BY <2>1
  <2>3. \A k \in K : e + 1 < p[k]
    BY <1>6, <2>1
  <2>4. Holds(K, Shifted(p, K, 1), e, u)
    <3>1. /\ link \in Seq(Bytes) /\ u \in Seq(Bytes) /\ Len(u) = Len(link) - 1
          /\ \A i \in 1..Len(u) : e < i => u[i] = link[i + 1]
      BY <1>0, <1>4
    <3>2. \A k \in K \ K : p[k] + BodyLen + 1 <= e + 1
      BY <1>5
    <3>3. Holds(K, p, c, link) /\ K \in SUBSET K /\ 1 \in Nat
      BY <1>2
    <3> QED
      BY <2>2, <2>3, <3>1, <3>2, <3>3, HoldsShift
  <2>5. e + m <= Len(u) /\ \A i \in 1..Len(u) : e < i /\ i <= e + m => u[i] = Char
    <3>1. e + m <= Len(u)
      BY <1>2, <1>4, <2>1
    <3>2. ASSUME NEW i \in 1..Len(u), e < i, i <= e + m PROVE u[i] = Char
      <4>1. i + 1 \in 1..Len(link) /\ c < i + 1 /\ i + 1 <= c + m
        BY <1>4, <2>1, <3>2
      <4> QED
        BY <1>2, <1>4, <4>1
    <3> QED
      BY <3>1, <3>2
  <2>6. m > RxCap
    BY <1>2, <1>8
  <2>7. Flushing(lo, Shifted(p, K, 1), e, m)'
    BY <1>7, <2>4, <2>5, <2>6 DEF Flushing
  <2> QED
    BY <2>1, <2>7
<1>9. CASE c = 0
  <2>1. m \in Nat \ {0}
    <3>1. m # 0
      BY <1>0, <1>2
    <3> QED
      BY <3>1
  <2>2. b = Char /\ b # Zero
    <3>1. 1 \in 1..Len(link) /\ c < 1 /\ 1 <= c + m
      BY <1>4, <1>9, <2>1
    <3> QED
      BY <1>2, <3>1, ByteKinds
  <2>3. \A k \in K : 0 + 1 < p[k]
    <3> SUFFICES ASSUME NEW k \in K PROVE 1 < p[k]
      OBVIOUS
    <3>1. p[k] \in Nat /\ 0 < p[k] /\ p[k] # 1
      BY <1>6, <1>9, <2>2
    <3> QED
      BY <3>1
  <2>4. 0 <= 0 + 1 /\ Holds(K, p, 0, link)
    BY <1>2, <1>9
  <2>5. Holds(K, Shifted(p, K, 1), 0, u)
    BY <1>0, <1>4, <1>5, <2>3, <2>4, HoldsShift
  <2>6. CASE mode' # "frame" /\ delivered' = delivered
    <3>1. Stream' = u
      BY <1>7, <2>6 DEF Stream
    <3>2. Synced(lo, Shifted(p, K, 1))'
      BY <1>7, <2>5, <3>1 DEF Synced
    <3> QED
      BY <2>6, <3>2
  <2>7. CASE Keeps(b)
    <3>1. PICK n \in Nat : n = m - 1
      BY <2>1
    <3>2. 0 + n <= Len(u) /\ \A i \in 1..Len(u) : 0 < i /\ i <= 0 + n => u[i] = Char
      <4>1. 0 + n <= Len(u)
        BY <1>2, <1>4, <1>9, <3>1
      <4>2. ASSUME NEW i \in 1..Len(u), i <= 0 + n PROVE u[i] = Char
        <5>1. i + 1 \in 1..Len(link) /\ c < i + 1 /\ i + 1 <= c + m
          BY <1>4, <1>9, <3>1, <4>2
        <5> QED
          BY <1>2, <1>4, <5>1
      <4> QED
        BY <4>1, <4>2
    <3>3. PICK r : r = rx'
      OBVIOUS
    <3>4. b \in Bytes /\ r = Append(rx, b)
      BY <2>2, <2>7, <3>3, ByteKinds DEF Keeps
    <3>5. Len(r) = Len(rx) + 1
      BY <1>0, <3>4, AppendProperties
    <3>6. Len(r) + n > RxCap
      <4>1. Len(rx) + m > RxCap
        BY <1>0, <1>2, <2>1
      <4> QED
        BY <1>0, <2>1, <3>1, <3>5, <4>1
    <3>7. Flushing(lo, Shifted(p, K, 1), 0, n)'
      BY <1>7, <2>5, <3>2, <3>3, <3>6 DEF Flushing
    <3> QED
      BY <3>1, <3>7
  <2> QED
    BY <2>2, <2>6, <2>7 DEF Skips, Opens, Overruns, Ends
<1> QED
  BY <1>8, <1>9

-----------------------------------------------------------------------------
(* The phase is kept                                                       *)

\* What is delivered stays delivered.
LEMMA DoneGrows ==
  ASSUME delivered \in Seq(Frames), NEW k \in Frames,
         delivered' = delivered \/ delivered' = Append(delivered, k)
  PROVE  Done \subseteq Done' /\ (delivered' = Append(delivered, k) => k \in Done')
<1>1. CASE delivered' = delivered
  <2>1. Done' = Done
    BY <1>1 DEF Done
  <2>2. Append(delivered, k) # delivered
    BY AppendProperties, LenProperties
  <2> QED
    BY <1>1, <2>1, <2>2
<1>2. CASE delivered' = Append(delivered, k)
  <2>1. PICK d : d = Append(delivered, k)
    OBVIOUS
  <2>2. /\ Len(d) = Len(delivered) + 1 /\ d[Len(d)] = k /\ Len(delivered) \in Nat
        /\ (\A i \in 1..Len(delivered) : d[i] = delivered[i]) /\ d \in Seq(Frames)
        /\ DOMAIN d = 1..Len(d) /\ DOMAIN delivered = 1..Len(delivered)
    BY <2>1, AppendProperties, LenProperties
  <2>3. (\A i \in DOMAIN delivered : i \in DOMAIN d /\ d[i] = delivered[i]) /\ Len(d) \in DOMAIN d
    BY <2>2
  <2>4. Done' = {d[i] : i \in DOMAIN d}
    BY <1>2, <2>1 DEF Done
  <2> QED
    BY <2>2, <2>3, <2>4 DEF Done
<1> QED
  BY <1>1, <1>2

\* Reading a byte in phase.
LEMMA SinceReads ==
  ASSUME Types, DevRx, NEW lo \in 0..sent, Since(lo)
  PROVE  \E n \in 0..sent : Since(n)'
<1>1. PICK b : b = Head(link)
  OBVIOUS
<1>2. /\ Skips(b) \/ Opens(b) \/ Keeps(b) \/ Overruns(b) \/ Ends(b)
      /\ link # <<>> /\ link' = Tail(link) /\ b = link[1] /\ b \in Bytes
      /\ sent' = sent /\ owed' = owed /\ faults' = faults
  BY <1>1, RxSteps DEF hostVars
<1>3. delivered \in Seq(Frames) /\ sent \in Nat /\ lo \in Nat /\ owed \subseteq Frames
  BY Ranges DEF Types, TypeOK
<1>4. \A k \in owed : k \in Done \/ k \in lo+1..sent
  BY DEF Since
<1>5. Done \subseteq Done'
  <2>1. delivered' = delivered \/ \E k \in Frames : delivered' = Append(delivered, k)
    BY <1>2 DEF Skips, Opens, Keeps, Overruns, Ends
  <2>2. CASE delivered' = delivered
    BY <2>2 DEF Done
  <2> QED
    BY <1>3, <2>1, <2>2, DoneGrows
<1>6. CASE \E p : Synced(lo, p) /\ (faults = 0 => lo = Channel!Newest)
  <2>1. PICK p : Synced(lo, p) /\ (faults = 0 => lo = Channel!Newest)
    BY <1>6
  <2>2. CASE Skips(b) \/ Opens(b)
    <3>1. mode # "frame" /\ delivered' = delivered
      BY <2>2 DEF Skips, Opens
    <3>2. \E q : Holds(lo+1..sent, q, 0, Stream')
      BY <1>2, <2>1, <2>2, <3>1, SyncedIdles
    <3>3. Since(lo)'
      BY <1>2, <1>4, <1>5, <2>1, <3>1, <3>2 DEF Since, Synced, Channel!Newest
    <3> QED
      BY <3>3
  <2>3. CASE Keeps(b)
    <3>1. mode = "frame" /\ delivered' = delivered
      BY <2>3 DEF Keeps
    <3>2. \E q : Holds(lo+1..sent, q, 0, Stream')
      BY <1>2, <2>1, <2>3, <3>1, SyncedKeeps
    <3>3. Since(lo)'
      BY <1>2, <1>4, <1>5, <2>1, <3>1, <3>2 DEF Since, Synced, Channel!Newest
    <3> QED
      BY <3>3
  <2>4. CASE Overruns(b)
    <3>1. mode = "frame" /\ b # Zero /\ ~(Len(rx) < RxCap)
      BY <2>4 DEF Overruns
    <3> QED
      BY <1>2, <2>1, <3>1, SyncedStands
  <2>5. CASE Ends(b)
    <3>1. mode = "frame"
      BY <2>5 DEF Ends
    <3>2. PICK n : n = lo + 1
      OBVIOUS
    <3>3. n \in 1..sent /\ delivered' = Append(delivered, n)
          /\ \E q : Holds(n+1..sent, q, 0, Stream')
      BY <1>2, <2>1, <2>5, <3>1, <3>2, SyncedEnds
    <3>4. n \in Frames
      BY <1>3, <3>3, LinkAssumption DEF Frames, Types, TypeOK
    <3>5. n \in Done'
      BY <1>3, <3>3, <3>4, DoneGrows
    <3>6. n = Channel!Newest'
      <4>1. PICK d : d = delivered'
        OBVIOUS
      <4>2. d # <<>> /\ d[Len(d)] = n
        <5>1. Len(d) = Len(delivered) + 1 /\ d[Len(delivered) + 1] = n /\ Len(delivered) \in Nat
          BY <1>3, <3>3, <3>4, <4>1, AppendProperties, LenProperties
        <5> QED
          BY <5>1
      <4> QED
        BY <4>1, <4>2 DEF Channel!Newest
    <3>7. \A k \in owed : k \in Done' \/ k \in n+1..sent
      <4> SUFFICES ASSUME NEW k \in owed, ~(k \in Done') PROVE k \in n+1..sent
        OBVIOUS
      <4>1. k \in lo+1..sent /\ k # n
        BY <1>4, <1>5, <3>5
      <4> QED
        BY <1>3, <3>2, <4>1
    <3>8. Since(n)'
      BY <1>2, <3>3, <3>6, <3>7 DEF Since, Synced
    <3>9. n \in 0..sent
      BY <3>3
    <3> QED
      BY <3>8, <3>9
  <2> QED
    BY <1>2, <2>2, <2>3, <2>4, <2>5
<1>7. CASE (\E p, c, m : c \in Nat /\ m \in Nat /\ Flushing(lo, p, c, m)) /\ faults > 0
  <2>1. PICK p, c, m : c \in Nat /\ m \in Nat /\ Flushing(lo, p, c, m)
    BY <1>7
  <2>2. \/ \E q, e, n : e \in Nat /\ n \in Nat /\ Flushing(lo, q, e, n)'
        \/ \E q : Synced(lo, q)' /\ delivered' = delivered
    BY <1>2, <2>1, BurstReads
  <2>3. faults' > 0 /\ faults' # 0 /\ \A k \in owed' : k \in Done' \/ k \in lo+1..sent'
    <3>1. faults \in Nat
      BY LinkAssumption DEF Types, TypeOK
    <3> QED
      BY <1>2, <1>4, <1>5, <1>7, <3>1
  <2>4. Since(lo)'
    BY <2>2, <2>3 DEF Since
  <2> QED
    BY <2>4
<1> QED
  BY <1>6, <1>7 DEF Since

\* Writing in phase: a frame is then on the way, other bytes change nothing.
LEMMA SinceWrites ==
  ASSUME Types, HostSend \/ HostLine \/ HostFlush, NEW lo \in 0..sent, Since(lo), inPhase
  PROVE  \E n \in 0..sent' : Since(n)'
<1>1. /\ mode' = mode /\ rx' = rx /\ delivered' = delivered /\ faults' = faults
      /\ \E t \in Seq(Bytes) :
           /\ link' = link \o t
           /\ HostSend => /\ sent < MaxFrames /\ sent' = sent + 1
                          /\ owed' = owed \union {sent + 1}
                          /\ t = Delimited(FrameBytes(sent + 1)) /\ sent + 1 \in Frames
           /\ ~HostSend => Plain(t) /\ sent' = sent /\ owed' = owed
  BY HostWrites DEF devVars
<1>2. PICK t \in Seq(Bytes) :
           /\ link' = link \o t
           /\ HostSend => /\ sent < MaxFrames /\ sent' = sent + 1
                          /\ owed' = owed \union {sent + 1}
                          /\ t = Delimited(FrameBytes(sent + 1)) /\ sent + 1 \in Frames
           /\ ~HostSend => Plain(t) /\ sent' = sent /\ owed' = owed
  BY <1>1
<1>3. /\ rx \in Seq(Bytes) /\ link \in Seq(Bytes) /\ sent \in Nat /\ lo \in Nat
      /\ Len(link) \in Nat /\ Len(t) \in Nat
  BY Ranges, LenProperties
<1>4. \A k \in owed : k \in Done \/ k \in lo+1..sent
  BY DEF Since
<1>5. Done' = Done /\ Channel!Newest' = Channel!Newest
  BY <1>1 DEF Done, Channel!Newest
<1>6. sent' \in Nat /\ lo \in 0..sent' /\ \A k \in owed' : k \in Done' \/ k \in lo+1..sent'
  <2>1. CASE HostSend
    <3>1. sent + 1 \in lo+1..sent+1 /\ \A k \in lo+1..sent : k \in lo+1..sent+1
      BY <1>3
    <3> QED
      BY <1>2, <1>3, <1>4, <1>5, <2>1, <3>1
  <2>2. CASE ~HostSend
    BY <1>2, <1>3, <1>4, <1>5, <2>2
  <2> QED
    BY <2>1, <2>2
<1>7. ASSUME NEW p, NEW c \in Nat, NEW s \in Seq(Bytes), Holds(lo+1..sent, p, c, s), c <= Len(s)
      PROVE  \E q : Holds(lo+1..sent', q, c, s \o t)
  <2>1. CASE HostSend
    <3>1. PICK K : K = lo+1..sent
      OBVIOUS
    <3>2. PICK n : n = sent + 1
      OBVIOUS
    <3>3. n \in Frames /\ t = Delimited(FrameBytes(n)) /\ sent' = n
      BY <1>2, <2>1, <3>2
    <3>4. K \in SUBSET Nat /\ (\A k \in K : k < n) /\ K \union {n} = lo+1..n
      BY <1>3, <3>1, <3>2
    <3>5. Holds(K, p, c, s)
      BY <1>7, <3>1
    <3>6. \E q : Holds(K \union {n}, q, c, s \o Delimited(FrameBytes(n)))
      BY <1>7, <3>3, <3>4, <3>5, HoldsFrame
    <3> QED
      BY <3>3, <3>4, <3>6
  <2>2. CASE ~HostSend
    <3>1. PICK K : K = lo+1..sent
      OBVIOUS
    <3>2. Holds(K, p, c, s) /\ Plain(t) /\ sent' = sent
      BY <1>2, <1>7, <2>2, <3>1
    <3>3. Holds(K, p, c, s \o t)
      BY <3>2, HoldsPlain
    <3> QED
      BY <3>1, <3>2, <3>3
  <2> QED
    BY <2>1, <2>2
<1>8. CASE \E p : Synced(lo, p) /\ (faults = 0 => lo = Channel!Newest)
  <2>1. PICK p : Synced(lo, p) /\ (faults = 0 => lo = Channel!Newest)
    BY <1>8
  <2>2. PICK s : s = Stream
    OBVIOUS
  <2>3. s \in Seq(Bytes) /\ Stream' = s \o t
    <3>1. CASE mode = "frame"
      <4>1. PICK z : z = <<Zero>> \o rx
        OBVIOUS
      <4>2. z \in Seq(Bytes)
        <5>1. PICK y : y = <<Zero>>
          OBVIOUS
        <5>2. y \in Seq(Bytes)
          BY <5>1, ByteKinds
        <5> QED
          BY <1>3, <4>1, <5>1, <5>2, JoinIs
      <4>3. s = z \o link /\ Stream' = z \o link'
        BY <1>1, <2>2, <3>1, <4>1 DEF Stream, Opened
      <4>4. z \o (link \o t) = (z \o link) \o t
        <5>1. t \in Seq(Bytes) /\ link \in Seq(Bytes)
          BY <1>3
        <5>2. \A r \in Seq(Bytes) : (z \o r) \o t = z \o (r \o t)
          BY <4>2, ConcatAssociative, SMTT(20)
        <5> QED
          BY <5>1, <5>2
      <4>5. z \o link \in Seq(Bytes)
        BY <1>3, <4>2, JoinIs
      <4> QED
        BY <1>2, <4>3, <4>4, <4>5
    <3>2. CASE mode # "frame"
      BY <1>1, <1>2, <1>3, <2>2, <3>2 DEF Stream
    <3> QED
      BY <3>1, <3>2
  <2>4. Holds(lo+1..sent, p, 0, s) /\ 0 \in Nat /\ 0 <= Len(s)
    BY <2>1, <2>2, <2>3, LenProperties DEF Synced
  <2>5. \E q : Holds(lo+1..sent', q, 0, s \o t)
    BY <1>7, <2>3, <2>4
  <2>6. \E q : Synced(lo, q)'
    BY <2>3, <2>5 DEF Synced
  <2>7. Since(lo)'
    BY <1>1, <1>5, <1>6, <2>1, <2>6 DEF Since
  <2> QED
    BY <1>6, <2>7
<1>9. CASE (\E p, c, m : c \in Nat /\ m \in Nat /\ Flushing(lo, p, c, m)) /\ faults > 0
  <2>1. PICK p, c, m : c \in Nat /\ m \in Nat /\ Flushing(lo, p, c, m)
    BY <1>9
  <2>2. /\ Holds(lo+1..sent, p, c, link)
        /\ c + m <= Len(link) /\ \A i \in 1..Len(link) : c < i /\ i <= c + m => link[i] = Char
        /\ m > RxCap \/ (c = 0 /\ Len(rx) + m > RxCap)
    BY <2>1 DEF Flushing
  <2>3. c <= Len(link)
    BY <1>3, <2>1, <2>2
  <2>4. PICK q : Holds(lo+1..sent', q, c, link \o t)
    BY <1>3, <1>7, <2>1, <2>2, <2>3
  <2>5. PICK u : u = link \o t
    OBVIOUS
  <2>6. Len(u) = Len(link) + Len(t) /\ \A i \in 1..Len(link) : u[i] = link[i]
    BY <1>3, <2>5, JoinIs
  <2>7. c + m <= Len(u)
    BY <1>3, <2>1, <2>2, <2>6
  <2>8. ASSUME NEW i \in 1..Len(u), c < i, i <= c + m PROVE u[i] = Char
    <3>1. i \in 1..Len(link)
      BY <1>3, <2>1, <2>2, <2>6, <2>8
    <3> QED
      BY <2>2, <2>6, <2>8, <3>1
  <2>9. Flushing(lo, q, c, m)'
    BY <1>1, <1>2, <2>2, <2>4, <2>5, <2>7, <2>8 DEF Flushing
  <2>10. faults' > 0
    BY <1>1, <1>9
  <2>11. Since(lo)'
    BY <1>6, <2>1, <2>9, <2>10 DEF Since
  <2> QED
    BY <1>6, <2>11
<1> QED
  BY <1>8, <1>9 DEF Since

\* A burst out of phase.
LEMMA BurstStarts ==
  ASSUME Types, PhaseInv, ~inPhase, HostFlush
  PROVE  (\E n \in 0..sent' : Since(n)') /\ inPhase' = TRUE
<1>1. /\ delivered' = delivered /\ faults' = faults /\ sent' = sent /\ owed' = owed /\ rx' = rx
      /\ link' = link \o [i \in 1..(RxCap + 1) |-> Char] /\ inPhase' = TRUE
  BY DEF HostFlush, devVars
<1>2. link \in Seq(Bytes) /\ Len(link) \in Nat /\ sent \in Nat /\ faults \in Nat /\ RxCap \in Nat
  BY Ranges, LinkAssumption DEF Types, TypeOK
<1>3. faults > 0 /\ owed \subseteq Done
  BY <1>2 DEF PhaseInv
<1>4. PICK t : t = [i \in 1..(RxCap + 1) |-> Char]
  OBVIOUS
<1>5. t \in Seq(Bytes) /\ Len(t) = RxCap + 1 /\ \A i \in 1..Len(t) : t[i] = Char
  BY <1>2, <1>4, ByteKinds
<1>6. PICK u : u = link \o t
  OBVIOUS
<1>7. Len(u) = Len(link) + Len(t) /\ \A i \in 1..Len(t) : u[Len(link) + i] = t[i]
  BY <1>2, <1>5, <1>6, JoinIs
<1>8. ASSUME NEW i \in 1..Len(u), Len(link) < i PROVE u[i] = Char
  <2>1. i - Len(link) \in 1..Len(t) /\ Len(link) + (i - Len(link)) = i
    BY <1>2, <1>5, <1>7, <1>8
  <2> QED
    BY <1>5, <1>7, <2>1
<1>9. PICK K : K = sent+1..sent
  OBVIOUS
<1>10. K = {}
  BY <1>2, <1>9
<1>11. PICK p : p = [k \in K |-> 0]
  OBVIOUS
<1>12. Holds(K, p, Len(link), u)
  BY <1>8, <1>10, <1>11 DEF Holds
<1>13. PICK c \in Nat : c = Len(link)
  BY <1>2
<1>14. PICK m \in Nat : m = RxCap + 1
  BY <1>2
<1>15. c + m <= Len(u) /\ m > RxCap
  BY <1>2, <1>5, <1>7, <1>13, <1>14
<1>16. PICK n \in Nat : n = sent
  BY <1>2
<1>17. Flushing(n, p, c, m)'
  BY <1>1, <1>4, <1>6, <1>8, <1>9, <1>12, <1>13, <1>15, <1>16 DEF Flushing
<1>18. Done' = Done
  BY <1>1 DEF Done
<1>19. Since(n)'
  BY <1>1, <1>3, <1>13, <1>14, <1>17, <1>18 DEF Since
<1>20. n \in 0..sent'
  BY <1>1, <1>2, <1>16
<1> QED
  BY <1>1, <1>19, <1>20

\* Every step keeps the phase.
LEMMA PhaseKeeps ==
  ASSUME Types, PhaseInv, [Next]_vars
  PROVE  PhaseInv'
<1>0. inPhase \in BOOLEAN /\ faults \in Nat /\ delivered \in Seq(Frames) /\ sent \in Nat
  BY LinkAssumption, Ranges DEF Types, TypeOK
<1>1. CASE DevRx
  <2>1. sent' = sent /\ owed' = owed /\ faults' = faults /\ inPhase' = inPhase
    BY <1>1 DEF DevRx, hostVars
  <2>2. CASE inPhase
    <3>1. PICK lo \in 0..sent : Since(lo)
      BY <2>2 DEF PhaseInv
    <3>2. \E n \in 0..sent : Since(n)'
      BY <1>1, <3>1, SinceReads
    <3> QED
      BY <2>1, <2>2, <3>2 DEF PhaseInv
  <2>3. CASE ~inPhase
    <3>1. owed \subseteq Done
      BY <2>3 DEF PhaseInv
    <3>2. PICK b : b = Head(link)
      OBVIOUS
    <3>3. Skips(b) \/ Opens(b) \/ Keeps(b) \/ Overruns(b) \/ Ends(b)
      BY <1>1, <3>2, RxSteps
    <3>4. delivered' = delivered \/ \E k \in Frames : delivered' = Append(delivered, k)
      BY <3>3 DEF Skips, Opens, Keeps, Overruns, Ends
    <3>5. Done \subseteq Done'
      <4>1. CASE delivered' = delivered
        BY <4>1 DEF Done
      <4> QED
        BY <1>0, <3>4, <4>1, DoneGrows
    <3> QED
      BY <2>1, <2>3, <3>1, <3>5 DEF PhaseInv
  <2> QED
    BY <2>2, <2>3
<1>2. CASE (HostSend \/ HostLine \/ HostFlush) /\ inPhase
  <2>1. PICK lo \in 0..sent : Since(lo)
    BY <1>2 DEF PhaseInv
  <2>2. \E n \in 0..sent' : Since(n)'
    BY <1>2, <2>1, SinceWrites
  <2>3. inPhase'
    BY <1>2 DEF HostSend, HostLine, HostFlush
  <2> QED
    BY <2>2, <2>3 DEF PhaseInv
<1>3. CASE HostFlush /\ ~inPhase
  <2>1. (\E n \in 0..sent' : Since(n)') /\ inPhase' = TRUE
    BY <1>3, BurstStarts
  <2> QED
    BY <2>1 DEF PhaseInv
<1>4. CASE (HostSend \/ HostLine) /\ ~inPhase
  <2>1. inPhase' = inPhase /\ owed' = owed /\ delivered' = delivered /\ faults' = faults
    BY <1>4 DEF HostSend, HostLine, devVars
  <2>2. Done' = Done
    BY <2>1 DEF Done
  <2> QED
    BY <1>4, <2>1, <2>2 DEF PhaseInv
<1>5. CASE Lose \/ Inject \/ Cut
  <2>1. /\ faults' = faults + 1 /\ inPhase' = FALSE /\ owed' \subseteq Done
        /\ delivered' = delivered
    BY <1>5, FaultSteps DEF devVars
  <2>2. Done' = Done /\ faults' # 0
    BY <1>0, <2>1 DEF Done
  <2> QED
    BY <2>1, <2>2 DEF PhaseInv
<1>6. CASE UNCHANGED vars
  <2>1. /\ inPhase' = inPhase /\ owed' = owed /\ delivered' = delivered /\ faults' = faults
        /\ sent' = sent /\ mode' = mode /\ rx' = rx /\ link' = link
    BY <1>6 DEF vars, devVars, hostVars
  <2>2. Done' = Done /\ Channel!Newest' = Channel!Newest /\ Stream' = Stream
    BY <2>1 DEF Done, Channel!Newest, Stream
  <2> QED
    BY <2>1, <2>2 DEF PhaseInv, Since, Synced, Flushing
<1> QED
  BY <1>1, <1>2, <1>3, <1>4, <1>5, <1>6 DEF Next

\* The initial state is in phase.
LEMMA PhaseInit == Init => PhaseInv
<1> SUFFICES ASSUME Init PROVE PhaseInv
  OBVIOUS
<1>1. PICK K : K = 0+1..0
  OBVIOUS
<1>2. K = {}
  BY <1>1
<1>3. PICK p : p = [k \in K |-> 0]
  OBVIOUS
<1>4. Holds(K, p, 0, <<>>)
  BY <1>2, <1>3 DEF Holds
<1>5. Stream = <<>> /\ sent = 0 /\ owed = {} /\ Channel!Newest = 0
  BY DEF Init, Stream, Channel!Newest
<1>6. Synced(0, p)
  BY <1>1, <1>4, <1>5 DEF Synced
<1>7. Since(0)
  BY <1>5, <1>6 DEF Since
<1>8. inPhase /\ 0 \in 0..sent
  BY <1>5 DEF Init
<1> QED
  BY <1>5, <1>7, <1>8 DEF PhaseInv

-----------------------------------------------------------------------------
(* The lines                                                               *)

\* On a clean link, what the receiver reads next fits its state: no byte of a line within a
\* frame, and no byte of a frame outside of one.
LEMMA CleanHead ==
  ASSUME Types, PhaseInv, faults = 0, link # <<>>
  PROVE  /\ mode = "frame" => link[1] # Char /\ link[1] # Eol
         /\ mode # "frame" => link[1] \in {Zero, Char, Eol}
<1>1. PICK lo \in 0..sent : Since(lo)
  BY DEF PhaseInv
<1>2. PICK p : Synced(lo, p)
  BY <1>1 DEF Since
<1>3. CASE mode = "frame"
  <2>1. link[1] = Zero \/ Real(link[1])
    BY <1>2, <1>3, SyncedStands
  <2> QED
    BY <1>3, <2>1, ByteKinds
<1>4. CASE mode # "frame"
  <2>1. Holds(lo+1..sent, p, 0, link)
    BY <1>2, <1>4 DEF Synced, Stream
  <2>2. Len(link) \in Nat /\ Len(link) # 0
    BY Ranges, EmptySeq
  <2>3. 1 \in 1..Len(link) /\ 0 < 1
    BY <2>2
  <2>4. CASE \E k \in lo+1..sent : Covers(p, k, 1)
    <3>1. PICK k \in lo+1..sent : Covers(p, k, 1)
      BY <2>4
    <3>2. p[k] \in Nat /\ 0 < p[k] /\ link[p[k]] = Zero /\ p[k] <= 1
      BY <2>1, <3>1 DEF Holds, Covers
    <3>3. p[k] = 1
      BY <3>2
    <3> QED
      BY <1>4, <3>2, <3>3
  <2> QED
    BY <1>4, <2>1, <2>3, <2>4 DEF Holds
<1> QED
  BY <1>3, <1>4

\* So it answers a line when it reads the end of one, and then only.
LEMMA CleanReads ==
  ASSUME Types, PhaseInv, LineInv, faults = 0, ~muxed, DevRx
  PROVE  /\ link[1] = Eol => answers' = answers + 1
         /\ link[1] # Eol => answers' = answers
         /\ link[1] = Char => mode' = "ascii"
<1>1. PICK b : b = Head(link)
  OBVIOUS
<1>2. link # <<>> /\ b = link[1] /\ b \in Bytes /\ mode \in {"idle", "ascii", "frame"}
  BY <1>1, RxSteps DEF Types, TypeOK
<1>3. /\ mode = "frame" => b # Char /\ b # Eol
      /\ mode # "frame" => b \in {Zero, Char, Eol}
  BY <1>2, CleanHead
<1>4. b = Eol => mode = "ascii"
  <2> SUFFICES ASSUME b = Eol PROVE mode = "ascii"
    OBVIOUS
  <2>1. PICK e : Awaited(e)
    BY DEF LineInv
  <2>2. 1 \in 1..Len(link)
    <3>1. Len(link) \in Nat /\ Len(link) # 0
      BY <1>2, Ranges, EmptySeq
    <3> QED
      BY <3>1
  <2>3. \E n \in answers+1..lines : e[n] = 1
    BY <1>2, <2>1, <2>2 DEF Awaited
  <2> QED
    BY <2>1, <2>3 DEF Awaited
<1>5. (\E c \in Classes(b) : IdleByte(c) \/ AsciiByte(c)) \/ BinaryByte(b)
  BY <1>1 DEF DevRx
<1>6. CASE mode = "frame"
  <2>1. BinaryByte(b)
    BY <1>5, <1>6 DEF IdleByte, AsciiByte
  <2> QED
    BY <1>2, <1>3, <1>6, <2>1 DEF BinaryByte
<1>7. CASE mode # "frame"
  <2>1. PICK c \in Classes(b) : IdleByte(c) \/ AsciiByte(c)
    BY <1>5, <1>7 DEF BinaryByte
  <2>2. /\ b = Zero => c = "zero"
        /\ b = Char => c = "text"
        /\ b = Eol => c = "eol"
    BY <2>1, ByteKinds DEF Classes
  <2>3. CASE b = Zero
    <3>1. answers' = answers
      BY <2>1, <2>2, <2>3 DEF IdleByte, AsciiByte
    <3> QED
      BY <1>2, <2>3, <3>1, ByteKinds
  <2>4. CASE b = Char
    <3>1. answers' = answers /\ mode' = "ascii"
      BY <2>1, <2>2, <2>4 DEF IdleByte, AsciiByte, IdleNext
    <3> QED
      BY <1>2, <2>4, <3>1, ByteKinds
  <2>5. CASE b = Eol
    <3>1. answers' = answers + 1
      BY <1>4, <2>1, <2>2, <2>5 DEF IdleByte, AsciiByte
    <3> QED
      BY <1>2, <2>5, <3>1, ByteKinds
  <2> QED
    BY <1>3, <1>7, <2>3, <2>4, <2>5
<1> QED
  BY <1>6, <1>7

\* Reading a byte brings each line that is awaited one place nearer.
LEMMA LinesRead ==
  ASSUME Types, PhaseInv, LineInv, DevRx
  PROVE  LineInv'
<1>0. faults' = faults /\ muxed' = muxed /\ lines' = lines /\ link' = Tail(link) /\ link # <<>>
  BY DEF DevRx, hostVars
<1> SUFFICES ASSUME faults = 0, ~muxed
             PROVE  answers' <= lines /\ \E e : Awaited(e)'
  BY <1>0 DEF LineInv
<1>1. /\ link[1] = Eol => answers' = answers + 1
      /\ link[1] # Eol => answers' = answers
      /\ link[1] = Char => mode' = "ascii"
  BY CleanReads
<1>2. PICK e : Awaited(e) /\ answers <= lines
  BY DEF LineInv
<1>3. link \in Seq(Bytes) /\ answers \in Nat /\ lines \in Nat
  BY Ranges, LinkAssumption DEF Types, TypeOK
<1>4. PICK u : u = Tail(link)
  OBVIOUS
<1>5. /\ u \in Seq(Bytes) /\ Len(u) = Len(link) - 1 /\ Len(link) \in Nat \ {0}
      /\ \A i \in 1..Len(u) : u[i] = link[i + 1]
  BY <1>0, <1>3, <1>4, TailIs
<1>6. /\ e \in [answers+1..lines -> Nat]
      /\ \A n \in answers+1..lines :
           /\ e[n] \in 1..Len(link) /\ link[e[n]] = Eol /\ e[n] \in Nat
           /\ e[n] = 1 => mode = "ascii"
           /\ e[n] # 1 => link[e[n] - 1] = Char
      /\ \A m, n \in answers+1..lines : m < n => e[m] < e[n]
      /\ \A i \in 1..Len(link) : link[i] = Eol => \E n \in answers+1..lines : e[n] = i
  BY <1>2, <1>5 DEF Awaited
<1>7. PICK a : a = answers'
  OBVIOUS
<1>8. a \in Nat /\ a >= answers
  BY <1>1, <1>3, <1>7
<1>9. /\ a <= lines
      /\ \A n \in answers+1..lines : n \in a+1..lines \/ e[n] = 1
      /\ \A n \in a+1..lines : e[n] # 1
  <2>1. CASE link[1] = Eol
    <3>1. a = answers + 1
      BY <1>1, <1>7, <2>1
    <3>2. 1 \in 1..Len(link)
      BY <1>5
    <3>3. PICK n \in answers+1..lines : e[n] = 1
      BY <1>6, <2>1, <3>2
    <3>4. answers + 1 \in answers+1..lines /\ n \in Nat
      BY <1>3, <3>3
    <3>5. n = answers + 1
      <4> SUFFICES ASSUME n # answers + 1 PROVE FALSE
        OBVIOUS
      <4>1. answers + 1 < n
        BY <1>3, <3>3
      <4>2. e[answers + 1] < e[n] /\ e[answers + 1] \in 1..Len(link)
        BY <1>6, <3>3, <3>4, <4>1
      <4> QED
        BY <1>5, <3>3, <4>2
    <3>6. \A m \in answers+1..lines : m # n => m \in a+1..lines /\ n < m
      BY <1>3, <3>1, <3>5
    <3>7. \A m \in a+1..lines : m \in answers+1..lines /\ n < m
      BY <1>3, <3>1, <3>5
    <3>8. \A m \in a+1..lines : e[m] # 1
      <4> SUFFICES ASSUME NEW m \in a+1..lines PROVE e[m] # 1
        OBVIOUS
      <4>1. e[n] < e[m] /\ e[m] \in Nat
        BY <1>6, <3>3, <3>7
      <4> QED
        BY <3>3, <4>1
    <3>9. a <= lines
      BY <1>3, <3>1, <3>4
    <3> QED
      BY <3>3, <3>6, <3>8, <3>9
  <2>2. CASE link[1] # Eol
    <3>1. a = answers
      BY <1>1, <1>7, <2>2
    <3>2. \A n \in answers+1..lines : e[n] # 1
      BY <1>6, <2>2
    <3> QED
      BY <1>2, <3>1, <3>2
  <2> QED
    BY <2>1, <2>2
<1>10. \A n \in a+1..lines : n \in answers+1..lines /\ e[n] \in Nat /\ e[n] # 1 /\ e[n] >= 1
  <2>1. \A n \in a+1..lines : n \in answers+1..lines
    BY <1>3, <1>8
  <2> QED
    BY <1>5, <1>6, <1>9, <2>1
<1>11. PICK f : f = [n \in a+1..lines |-> e[n] - 1]
  OBVIOUS
<1>12. f \in [a+1..lines -> Nat] /\ \A n \in a+1..lines : f[n] = e[n] - 1 /\ f[n] \in Nat
  BY <1>10, <1>11
<1>13. ASSUME NEW n \in a+1..lines
       PROVE  /\ f[n] \in 1..Len(u) /\ u[f[n]] = Eol
              /\ f[n] = 1 => mode' = "ascii"
              /\ f[n] # 1 => u[f[n] - 1] = Char
  <2>1. PICK x \in Nat : x = e[n]
    BY <1>10
  <2>2. x \in 1..Len(link) /\ x # 1 /\ link[x] = Eol /\ link[x - 1] = Char /\ f[n] = x - 1
    BY <1>6, <1>10, <1>12, <2>1
  <2>3. f[n] \in 1..Len(u) /\ f[n] + 1 = x
    BY <1>5, <2>1, <2>2
  <2>4. u[f[n]] = Eol
    BY <1>5, <2>2, <2>3
  <2>5. f[n] = 1 => mode' = "ascii"
    <3>1. f[n] = 1 => x - 1 = 1
      BY <2>2
    <3> QED
      BY <1>1, <2>2, <3>1
  <2>6. ASSUME f[n] # 1 PROVE u[f[n] - 1] = Char
    <3>1. x - 2 \in 1..Len(u) /\ (x - 2) + 1 = x - 1 /\ f[n] - 1 = x - 2
      BY <1>5, <2>1, <2>2, <2>3, <2>6
    <3> QED
      BY <1>5, <2>2, <3>1
  <2> QED
    BY <2>3, <2>4, <2>5, <2>6
<1>14. \A m, n \in a+1..lines : m < n => f[m] < f[n]
  <2> SUFFICES ASSUME NEW m \in a+1..lines, NEW n \in a+1..lines, m < n PROVE f[m] < f[n]
    OBVIOUS
  <2>1. e[m] < e[n] /\ e[m] \in Nat /\ e[n] \in Nat
    BY <1>6, <1>10
  <2> QED
    BY <1>12, <2>1
<1>15. ASSUME NEW i \in 1..Len(u), u[i] = Eol PROVE \E n \in a+1..lines : f[n] = i
  <2>1. i + 1 \in 1..Len(link) /\ link[i + 1] = Eol /\ i + 1 # 1
    BY <1>5, <1>15
  <2>2. PICK n \in answers+1..lines : e[n] = i + 1
    BY <1>6, <2>1
  <2>3. n \in a+1..lines
    BY <1>9, <2>1, <2>2
  <2>4. f[n] = i
    BY <1>12, <2>2, <2>3
  <2> QED
    BY <2>3, <2>4
<1>16. Awaited(f)'
  BY <1>0, <1>4, <1>7, <1>12, <1>13, <1>14, <1>15 DEF Awaited
<1> QED
  BY <1>7, <1>9, <1>16

\* Writing a line adds one that is awaited, writing anything else adds none.
LEMMA LinesWrite ==
  ASSUME Types, LineInv, HostSend \/ HostLine \/ HostFlush
  PROVE  LineInv'
<1>1. /\ UNCHANGED devVars /\ faults' = faults
      /\ \E t \in Seq(Bytes) :
           /\ link' = link \o t
           /\ HostSend => t = Delimited(FrameBytes(sent + 1)) /\ sent + 1 \in Frames
                          /\ lines' = lines
           /\ ~HostSend /\ HostLine => t = <<Char, Eol>> /\ lines' = lines + 1
           /\ ~HostSend /\ ~HostLine => (\A i \in 1..Len(t) : t[i] = Char) /\ lines' = lines
  BY HostWrites
<1>2. PICK t \in Seq(Bytes) :
           /\ link' = link \o t
           /\ HostSend => t = Delimited(FrameBytes(sent + 1)) /\ sent + 1 \in Frames
                          /\ lines' = lines
           /\ ~HostSend /\ HostLine => t = <<Char, Eol>> /\ lines' = lines + 1
           /\ ~HostSend /\ ~HostLine => (\A i \in 1..Len(t) : t[i] = Char) /\ lines' = lines
  BY <1>1
<1>3. muxed' = muxed /\ mode' = mode /\ answers' = answers /\ faults' = faults
  BY <1>1 DEF devVars
<1> SUFFICES ASSUME faults = 0, ~muxed
             PROVE  answers <= lines' /\ \E f : Awaited(f)'
  BY <1>3 DEF LineInv
<1>4. PICK e : Awaited(e) /\ answers <= lines
  BY DEF LineInv
<1>5. link \in Seq(Bytes) /\ answers \in Nat /\ lines \in Nat /\ Len(link) \in Nat /\ Len(t) \in Nat
  BY Ranges, LinkAssumption, LenProperties DEF Types, TypeOK
<1>6. PICK u : u = link \o t
  OBVIOUS
<1>7. /\ Len(u) = Len(link) + Len(t) /\ \A i \in 1..Len(link) : u[i] = link[i]
      /\ \A i \in 1..Len(t) : u[Len(link) + i] = t[i]
  BY <1>5, <1>6, JoinIs
<1>8. /\ e \in [answers+1..lines -> Nat]
      /\ \A n \in answers+1..lines :
           /\ e[n] \in 1..Len(link) /\ link[e[n]] = Eol /\ e[n] \in Nat
           /\ e[n] = 1 => mode = "ascii"
           /\ e[n] # 1 => link[e[n] - 1] = Char
      /\ \A m, n \in answers+1..lines : m < n => e[m] < e[n]
      /\ \A i \in 1..Len(link) : link[i] = Eol => \E n \in answers+1..lines : e[n] = i
  BY <1>4, <1>5 DEF Awaited
<1>9. \A n \in answers+1..lines :
           /\ e[n] \in 1..Len(u) /\ u[e[n]] = Eol
           /\ e[n] = 1 => mode = "ascii"
           /\ e[n] # 1 => u[e[n] - 1] = Char
  <2> SUFFICES ASSUME NEW n \in answers+1..lines
               PROVE  /\ e[n] \in 1..Len(u) /\ u[e[n]] = Eol
                      /\ e[n] # 1 => u[e[n] - 1] = Char
    BY <1>8
  <2>1. PICK x \in Nat : x = e[n]
    BY <1>8
  <2>2. x \in 1..Len(link) /\ link[x] = Eol /\ (x # 1 => link[x - 1] = Char)
    BY <1>8, <2>1
  <2>3. x \in 1..Len(u) /\ (x # 1 => x - 1 \in 1..Len(link))
    BY <1>5, <1>7, <2>1, <2>2
  <2>4. u[x] = Eol /\ (x # 1 => u[x - 1] = Char)
    BY <1>7, <2>2, <2>3
  <2> QED
    BY <2>1, <2>3, <2>4
<1>10. \A i \in 1..Len(u) : \/ i \in 1..Len(link) /\ u[i] = link[i]
                            \/ i - Len(link) \in 1..Len(t) /\ u[i] = t[i - Len(link)]
  <2> SUFFICES ASSUME NEW i \in 1..Len(u), ~(i \in 1..Len(link))
               PROVE  i - Len(link) \in 1..Len(t) /\ u[i] = t[i - Len(link)]
    BY <1>7
  <2>1. i - Len(link) \in 1..Len(t) /\ Len(link) + (i - Len(link)) = i
    BY <1>5, <1>7
  <2> QED
    BY <1>7, <2>1
<1>11. CASE (\A i \in 1..Len(t) : t[i] # Eol) /\ lines' = lines
  <2>1. \A i \in 1..Len(u) : u[i] = Eol => \E n \in answers+1..lines : e[n] = i
    <3> SUFFICES ASSUME NEW i \in 1..Len(u), u[i] = Eol
                 PROVE  \E n \in answers+1..lines : e[n] = i
      OBVIOUS
    <3>1. i \in 1..Len(link) /\ link[i] = Eol
      BY <1>10, <1>11
    <3> QED
      BY <1>8, <3>1
  <2>2. Awaited(e)'
    BY <1>2, <1>3, <1>6, <1>8, <1>9, <1>11, <2>1 DEF Awaited
  <2> QED
    BY <1>4, <1>11, <2>2
<1>12. CASE HostSend
  <2>1. PICK k \in Frames : k = sent + 1
    BY <1>2, <1>12
  <2>2. t = Delimited(FrameBytes(k)) /\ BodyLen \in Nat \ {0}
    BY <1>2, <1>12, <2>1, LinkAssumption
  <2>3. /\ Len(t) = BodyLen + 2 /\ t[1] = Zero
        /\ (\A j \in 1..BodyLen : t[1 + j] = <<k, j>>) /\ t[BodyLen + 2] = Zero
    BY <2>2, DelimitedIs
  <2>4. ASSUME NEW i \in 1..Len(t) PROVE t[i] # Eol
    <3>1. i = 1 \/ i = BodyLen + 2 \/ (i - 1 \in 1..BodyLen /\ 1 + (i - 1) = i)
      BY <2>2, <2>3
    <3> QED
      BY <2>3, <3>1, ByteKinds
  <2> QED
    BY <1>2, <1>11, <1>12, <2>4
<1>13. CASE ~HostSend /\ ~HostLine
  BY <1>2, <1>11, <1>13, ByteKinds
<1>14. CASE ~HostSend /\ HostLine
  <2>1. Len(t) = 2 /\ t[1] = Char /\ t[2] = Eol /\ lines' = lines + 1
    BY <1>2, <1>14
  <2>2. PICK x \in Nat : x = Len(link) + 2
    BY <1>5
  <2>3. PICK z \in Nat : z = lines + 1
    BY <1>5
  <2>4. x \in 1..Len(u) /\ x # 1 /\ u[x] = Eol /\ u[x - 1] = Char
    <3>1. 1 \in 1..Len(t) /\ 2 \in 1..Len(t) /\ x - 1 = Len(link) + 1
      BY <1>5, <2>1, <2>2
    <3>2. u[Len(link) + 1] = Char /\ u[Len(link) + 2] = Eol
      BY <1>7, <2>1, <3>1
    <3> QED
      BY <1>5, <1>7, <2>1, <2>2, <3>1, <3>2
  <2>5. PICK f : f = [n \in answers+1..z |-> IF n = z THEN x ELSE e[n]]
    OBVIOUS
  <2>6. /\ \A n \in answers+1..z : n = z \/ (n \in answers+1..lines /\ n # z)
        /\ \A n \in answers+1..lines : n \in answers+1..z /\ n # z
        /\ z \in answers+1..z
    BY <1>4, <1>5, <2>3
  <2>7. /\ f \in [answers+1..z -> Nat] /\ f[z] = x
        /\ \A n \in answers+1..lines : f[n] = e[n]
    BY <1>8, <2>2, <2>5, <2>6
  <2>8. \A n \in answers+1..z :
           /\ f[n] \in 1..Len(u) /\ u[f[n]] = Eol
           /\ f[n] = 1 => mode = "ascii"
           /\ f[n] # 1 => u[f[n] - 1] = Char
    BY <1>9, <2>4, <2>6, <2>7
  <2>9. \A m, n \in answers+1..z : m < n => f[m] < f[n]
    <3> SUFFICES ASSUME NEW m \in answers+1..z, NEW n \in answers+1..z, m < n
                 PROVE  f[m] < f[n]
      OBVIOUS
    <3>1. m # z
      BY <1>5, <2>3
    <3>2. m \in answers+1..lines /\ f[m] = e[m] /\ e[m] \in 1..Len(link)
      BY <1>8, <2>6, <2>7, <3>1
    <3>3. CASE n = z
      BY <1>5, <2>2, <2>7, <3>2, <3>3
    <3>4. CASE n # z
      BY <1>8, <2>6, <2>7, <3>2, <3>4
    <3> QED
      BY <3>3, <3>4
  <2>10. ASSUME NEW i \in 1..Len(u), u[i] = Eol PROVE \E n \in answers+1..z : f[n] = i
    <3>1. CASE i \in 1..Len(link) /\ u[i] = link[i]
      BY <1>8, <2>6, <2>7, <2>10, <3>1
    <3>2. CASE i - Len(link) \in 1..Len(t) /\ u[i] = t[i - Len(link)]
      <4>1. i - Len(link) = 1 \/ i - Len(link) = 2
        BY <1>5, <2>1, <3>2
      <4>2. i = x
        BY <1>5, <2>1, <2>2, <2>10, <3>2, <4>1, ByteKinds
      <4> QED
        BY <2>6, <2>7, <4>2
    <3> QED
      BY <1>10, <3>1, <3>2
  <2>11. Awaited(f)'
    BY <1>2, <1>3, <1>6, <2>1, <2>3, <2>7, <2>8, <2>9, <2>10 DEF Awaited
  <2>12. answers <= lines'
    BY <1>4, <1>5, <2>1
  <2> QED
    BY <2>11, <2>12
<1> QED
  BY <1>12, <1>13, <1>14

\* Every step keeps the lines.
LEMMA LineKeeps ==
  ASSUME Types, PhaseInv, LineInv, [Next]_vars
  PROVE  LineInv'
<1>1. CASE DevRx
  BY <1>1, LinesRead
<1>2. CASE HostSend \/ HostLine \/ HostFlush
  BY <1>2, LinesWrite
<1>3. CASE Lose \/ Inject \/ Cut
  <2>1. faults' = faults + 1
    BY <1>3, FaultSteps
  <2>2. faults \in Nat
    BY LinkAssumption DEF Types, TypeOK
  <2>3. faults' # 0
    BY <2>1, <2>2
  <2> QED
    BY <2>3 DEF LineInv
<1>4. CASE UNCHANGED vars
  BY <1>4 DEF LineInv, Awaited, vars, devVars, hostVars
<1> QED
  BY <1>1, <1>2, <1>3, <1>4 DEF Next

-----------------------------------------------------------------------------
(* Segments that will be refused                                           *)

\* The bytes between the places p and q of the stream t are a segment that fits the
\* buffer and is no frame; a segment at the end of the stream is still open.
Gap(t, p, q) ==
  /\ p \in 1..Len(t) /\ q \in 1..Len(t)+1 /\ p + 1 < q /\ q - p - 1 <= RxCap
  /\ t[p] = Zero /\ (q # Len(t) + 1 => t[q] = Zero)
  /\ \A i \in 1..Len(t) : p < i /\ i < q => t[i] # Zero
  /\ q = p + BodyLen + 1 => ~\E k \in Frames : \A j \in 1..BodyLen : t[p + j] = <<k, j>>

Spoiled(t, p) == \E q \in 1..Len(t)+1 : Gap(t, p, q)

Spoils(t) == {p \in 1..Len(t) : Spoiled(t, p)}

\* The segments that begin at the places I may all be refused: behind the end of each the
\* receiver is idle up to the next delimiter, so no two of them share one.
Lone(t, I) ==
  \A p, q \in I : p < q => \E z \in 1..Len(t) : p < z /\ z < q /\ t[z] = Zero

\* In whatever phase the receiver is, it refuses no more than b segments of t.
AtMost(t, b) == \A I \in SUBSET Spoils(t) : Lone(t, I) => Cardinality(I) <= b

\* The refused segments of the past and of the future have their faults and lines.
NakInv ==
  /\ faults = 0 => naks + garbled = 0
  /\ AtMost(Stream, faults + lines - (naks + garbled))

\* Of two places of a stream with a delimiter between them, the segment of the first ends
\* before the second or at it.
LEMMA GapStops ==
  ASSUME NEW t \in Seq(Bytes), NEW p \in Nat, NEW q \in Nat, Gap(t, p, q),
         NEW z \in 1..Len(t), p < z, t[z] = Zero
  PROVE  q <= z
BY LenProperties DEF Gap

\* The segments of t that may be refused are in s too, at h, but for X, of which no two
\* may be refused.
Kept(s, t, X, h) ==
  /\ h \in [1..Len(t) -> Int]
  /\ \A p, q \in X \intersect Spoils(t) : p < q =>
       ~\E z \in 1..Len(t) : p < z /\ z < q /\ t[z] = Zero
  /\ \A p \in Spoils(t) \ X : h[p] \in Spoils(s)
  /\ \A p, q \in Spoils(t) \ X :
       p < q /\ (\E z \in 1..Len(t) : p < z /\ z < q /\ t[z] = Zero)
         => h[p] < h[q] /\ \E z \in 1..Len(s) : h[p] < z /\ z < h[q] /\ s[z] = Zero

\* So of t no more than one more may be refused than of s.
LEMMA Transfer ==
  ASSUME NEW s \in Seq(Bytes), NEW t \in Seq(Bytes), NEW b \in Int, AtMost(s, b),
         NEW X, NEW h, Kept(s, t, X, h)
  PROVE  AtMost(t, b + 1) /\ (X = {} => AtMost(t, b))
<1>0. /\ h \in [1..Len(t) -> Int]
      /\ \A p, q \in X \intersect Spoils(t) : p < q =>
           ~\E z \in 1..Len(t) : p < z /\ z < q /\ t[z] = Zero
      /\ \A p \in Spoils(t) \ X : h[p] \in Spoils(s)
      /\ \A p, q \in Spoils(t) \ X :
           p < q /\ (\E z \in 1..Len(t) : p < z /\ z < q /\ t[z] = Zero)
             => h[p] < h[q] /\ \E z \in 1..Len(s) : h[p] < z /\ z < h[q] /\ s[z] = Zero
  BY DEF Kept
<1>1. Len(s) \in Nat /\ Len(t) \in Nat /\ Spoils(s) \subseteq 1..Len(s) /\ Spoils(t) \subseteq 1..Len(t)
  BY LenProperties DEF Spoils
<1>2. ASSUME NEW I \in SUBSET Spoils(t), Lone(t, I)
      PROVE  /\ IsFiniteSet(I \ X) /\ Cardinality(I \ X) \in Nat
             /\ Cardinality(I \ X) <= b
  <2>1. PICK K : K = I \ X
    OBVIOUS
  <2>2. K \subseteq Spoils(t) \ X /\ K \subseteq 1..Len(t)
    BY <1>1, <2>1
  <2>3. \A p, q \in K : p < q => \E z \in 1..Len(t) : p < z /\ z < q /\ t[z] = Zero
    BY <1>2, <2>1 DEF Lone
  <2>4. PICK J : J = {h[p] : p \in K}
    OBVIOUS
  <2>5. J \in SUBSET Spoils(s)
    BY <1>0, <2>2, <2>4
  <2>6. \A p, q \in K : p < q =>
           h[p] < h[q] /\ \E z \in 1..Len(s) : h[p] < z /\ z < h[q] /\ s[z] = Zero
    BY <1>0, <2>2, <2>3
  <2>7. Lone(s, J)
    <3> SUFFICES ASSUME NEW p \in K, NEW q \in K, h[p] < h[q]
                 PROVE  \E z \in 1..Len(s) : h[p] < z /\ z < h[q] /\ s[z] = Zero
      BY <2>4 DEF Lone
    <3>1. p \in Int /\ q \in Int /\ h[p] \in Int /\ h[q] \in Int
      BY <1>0, <1>1, <2>2
    <3>2. ~(q < p) /\ p # q
      BY <2>6, <3>1
    <3> QED
      BY <2>6, <3>1, <3>2
  <2>8. Cardinality(J) <= b
    BY <2>5, <2>7 DEF AtMost
  <2>9. IsFiniteSet(J)
    <3>1. IsFiniteSet(1..Len(s))
      BY <1>1, FS_Interval
    <3>2. J \in SUBSET (1..Len(s))
      BY <1>1, <2>5
    <3> QED
      BY <3>1, <3>2, FS_Subset
  <2>10. PICK f : f = [p \in K |-> h[p]]
    OBVIOUS
  <2>11. f \in Injection(K, J)
    <3>1. f \in [K -> J]
      BY <2>4, <2>10
    <3>2. ASSUME NEW p \in K, NEW q \in K, f[p] = f[q] PROVE p = q
      <4>1. p \in Int /\ q \in Int /\ h[p] \in Int /\ h[q] \in Int /\ h[p] = h[q]
        BY <1>0, <1>1, <2>2, <2>10, <3>2
      <4> QED
        BY <2>6, <4>1
    <3>3. DOMAIN f = K
      BY <2>10
    <3> QED
      BY <3>1, <3>2, <3>3 DEF Injection, IsInjective
  <2>12. IsFiniteSet(K) /\ Cardinality(K) <= Cardinality(J)
    BY <2>9, <2>11, FS_Injection
  <2>13. Cardinality(K) \in Nat /\ Cardinality(J) \in Nat
    BY <2>9, <2>12, FS_CardinalityType
  <2>14. Cardinality(K) <= b
    BY <2>8, <2>12, <2>13
  <2> QED
    BY <2>1, <2>12, <2>13, <2>14
<1>3. ASSUME X = {} PROVE AtMost(t, b)
  <2> SUFFICES ASSUME NEW I \in SUBSET Spoils(t), Lone(t, I) PROVE Cardinality(I) <= b
    BY DEF AtMost
  <2>1. I \ X = I
    BY <1>3
  <2> QED
    BY <1>2, <2>1
<1>4. AtMost(t, b + 1)
  <2> SUFFICES ASSUME NEW I \in SUBSET Spoils(t), Lone(t, I) PROVE Cardinality(I) <= b + 1
    BY DEF AtMost
  <2>1. CASE I \intersect X = {}
    <3>1. I \ X = I
      BY <2>1
    <3>2. Cardinality(I) \in Nat /\ Cardinality(I) <= b
      BY <1>2, <3>1
    <3> QED
      BY <3>2
  <2>2. CASE I \intersect X # {}
    <3>1. PICK x : x \in I /\ x \in X
      BY <2>2
    <3>2. ASSUME NEW y \in I, y \in X PROVE y = x
      <4>1. x \in Int /\ y \in Int
        BY <1>1, <3>1
      <4>2. ~(x < y) /\ ~(y < x)
        BY <1>0, <3>1, <3>2 DEF Lone
      <4> QED
        BY <4>1, <4>2
    <3>3. I = (I \ X) \union {x} /\ x \notin I \ X
      BY <3>1, <3>2
    <3>4. PICK K : K = I \ X
      OBVIOUS
    <3>5. IsFiniteSet(K) /\ Cardinality(K) \in Nat /\ Cardinality(K) <= b
      BY <1>2, <3>4
    <3>6. I = K \union {x} /\ x \notin K
      BY <3>3, <3>4
    <3>7. Cardinality(K \union {x}) = Cardinality(K) + 1
      BY <3>5, <3>6, FS_AddElement
    <3>8. Cardinality(I) = Cardinality(K) + 1
      BY <3>6, <3>7
    <3> QED
      BY <3>5, <3>8
  <2> QED
    BY <2>1, <2>2
<1> QED
  BY <1>3, <1>4

\* A segment that stands d places further in s than in t.
LEMMA GapMoves ==
  ASSUME NEW s \in Seq(Bytes), NEW t \in Seq(Bytes), NEW p \in Int, NEW q \in Int, NEW d \in Int,
         Gap(t, p, q), p + d \in 1..Len(s), q + d \in 1..Len(s)+1,
         \A i \in 1..Len(t) : p <= i /\ i < q => s[i + d] = t[i],
         q + d # Len(s) + 1 => s[q + d] = Zero
  PROVE  p + d \in Spoils(s)
<1>0. Len(s) \in Nat /\ Len(t) \in Nat /\ BodyLen \in Nat \ {0} /\ RxCap \in Nat
  BY LenProperties, LinkAssumption
<1>7. p \in 1..Len(t) /\ q \in 1..Len(t)+1 /\ p + 1 < q /\ q - p - 1 <= RxCap
  BY DEF Gap
<1>1. /\ p \in 1..Len(t) /\ q \in 1..Len(t)+1 /\ p + 1 < q /\ t[p] = Zero
      /\ \A i \in 1..Len(t) : p < i /\ i < q => t[i] # Zero
      /\ q = p + BodyLen + 1 => ~\E k \in Frames : \A j \in 1..BodyLen : t[p + j] = <<k, j>>
  BY DEF Gap
<1>2. (p + d) + 1 < q + d /\ (q + d) - (p + d) - 1 <= RxCap
  BY <1>0, <1>7
<1>3. s[p + d] = Zero
  <2>1. p <= p /\ p < q /\ p \in 1..Len(t)
    BY <1>0, <1>1
  <2>2. s[p + d] = t[p]
    BY <2>1
  <2> QED
    BY <1>1, <2>2
<1>4. ASSUME NEW i \in 1..Len(s), p + d < i, i < q + d PROVE s[i] # Zero
  <2>1. i - d \in 1..Len(t) /\ p < i - d /\ i - d < q /\ p <= i - d /\ (i - d) + d = i
    BY <1>0, <1>1, <1>4
  <2>2. s[(i - d) + d] = t[i - d] /\ t[i - d] # Zero
    BY <1>1, <2>1
  <2> QED
    BY <2>1, <2>2
<1>5. ASSUME q + d = (p + d) + BodyLen + 1,
             NEW k \in Frames, \A j \in 1..BodyLen : s[(p + d) + j] = <<k, j>>
      PROVE  FALSE
  <2>0. q + d = (p + d) + BodyLen + 1
    BY <1>5
  <2>1. q = p + BodyLen + 1
    BY <1>0, <2>0
  <2>2. ASSUME NEW j \in 1..BodyLen PROVE t[p + j] = <<k, j>>
    <3>1. PICK x : x = p + j
      OBVIOUS
    <3>2. x \in 1..Len(t) /\ p <= x /\ x < q /\ x + d = (p + d) + j
      BY <1>0, <1>1, <2>1, <3>1
    <3>3. s[x + d] = t[x]
      BY <3>2
    <3>4. s[(p + d) + j] = <<k, j>>
      BY <1>5
    <3> QED
      BY <3>1, <3>2, <3>3, <3>4
  <2> QED
    BY <1>1, <2>1, <2>2
<1>6. Gap(s, p + d, q + d)
  BY <1>2, <1>3, <1>4, <1>5 DEF Gap
<1> QED
  BY <1>6 DEF Spoils, Spoiled

\* A segment that ends where s is still as t.
LEMMA SameHead ==
  ASSUME NEW s \in Seq(Bytes), NEW t \in Seq(Bytes), NEW p \in Spoils(t),
         \E z \in 1..Len(t) : /\ p < z /\ t[z] = Zero /\ z <= Len(s)
                              /\ \A i \in 1..z : s[i] = t[i]
  PROVE  p \in Spoils(s)
<1>0. Len(s) \in Nat /\ Len(t) \in Nat
  BY LenProperties
<1>1. PICK q \in 1..Len(t)+1 : Gap(t, p, q) /\ p \in 1..Len(t)
  BY DEF Spoils, Spoiled
<1>2. PICK z \in 1..Len(t) : p < z /\ t[z] = Zero /\ z <= Len(s) /\ \A i \in 1..z : s[i] = t[i]
  OBVIOUS
<1>3. p \in 1..Len(t) /\ p \in Nat /\ q \in Nat /\ q <= z
  BY <1>0, <1>1, <1>2, GapStops
<1>4. PICK d \in Int : d = 0
  OBVIOUS
<1>5. /\ p + d \in 1..Len(s) /\ q + d \in 1..Len(s)+1 /\ q \in 1..z /\ q # Len(t) + 1
      /\ p + d = p /\ q + d = q
  BY <1>0, <1>1, <1>2, <1>3, <1>4
<1>6. s[q + d] = Zero
  <2>1. t[q] = Zero
    BY <1>1, <1>5 DEF Gap
  <2> QED
    BY <1>2, <1>5, <2>1
<1>7. ASSUME NEW i \in 1..Len(t), i < q PROVE s[i + d] = t[i]
  <2>1. i \in 1..z /\ i + d = i
    BY <1>0, <1>2, <1>3, <1>4, <1>7
  <2> QED
    BY <1>2, <2>1
<1>8. p + d \in Spoils(s)
  <2>1. Gap(t, p, q) /\ p \in Int /\ q \in Int /\ d \in Int
    BY <1>1, <1>3, <1>4
  <2>2. p + d \in 1..Len(s) /\ q + d \in 1..Len(s)+1
    BY <1>5
  <2>3. \A i \in 1..Len(t) : p <= i /\ i < q => s[i + d] = t[i]
    BY <1>7
  <2> QED
    BY <2>1, <2>2, <2>3, <1>6, GapMoves
<1> QED
  BY <1>5, <1>8

\* A segment from which on t is s, d places further on.
LEMMA SameRest ==
  ASSUME NEW s \in Seq(Bytes), NEW t \in Seq(Bytes), NEW d \in Int, NEW p \in Spoils(t),
         Len(s) = Len(t) + d, 1 <= p + d,
         \A i \in 1..Len(t) : p <= i => s[i + d] = t[i]
  PROVE  p + d \in Spoils(s)
<1>0. Len(s) \in Nat /\ Len(t) \in Nat
  BY LenProperties
<1>1. PICK q \in 1..Len(t)+1 : Gap(t, p, q) /\ p \in 1..Len(t)
  BY DEF Spoils, Spoiled
<1>2. p < q /\ (q # Len(t) + 1 => t[q] = Zero)
  BY <1>0, <1>1 DEF Gap
<1>3. p + d \in 1..Len(s) /\ q + d \in 1..Len(s)+1 /\ p <= q /\ p \in Int /\ q \in Int
  <2>1. p \in Int /\ q \in Int /\ p < q /\ p <= Len(t) /\ q <= Len(t) + 1
    BY <1>0, <1>1, <1>2
  <2> QED
    BY <1>0, <2>1
<1>4. q + d # Len(s) + 1 => s[q + d] = Zero
  <2> SUFFICES ASSUME q + d # Len(s) + 1 PROVE s[q + d] = Zero
    OBVIOUS
  <2>1. q \in Int /\ 1 <= q /\ q <= Len(t) + 1
    BY <1>0, <1>1
  <2>2. q # Len(t) + 1
    OBVIOUS
  <2>3. q \in 1..Len(t)
    BY <1>0, <2>1, <2>2
  <2> QED
    BY <1>2, <1>3, <2>2, <2>3
<1>5. \A i \in 1..Len(t) : p <= i /\ i < q => s[i + d] = t[i]
  BY <1>1
<1> QED
  BY <1>1, <1>3, <1>4, <1>5, GapMoves

\* The receiver goes on behind the first d bytes.
LEMMA DropAtMost ==
  ASSUME NEW s \in Seq(Bytes), NEW t \in Seq(Bytes), NEW b \in Int, AtMost(s, b),
         NEW d \in Nat, Len(s) = Len(t) + d, \A i \in 1..Len(t) : s[i + d] = t[i]
  PROVE  AtMost(t, b)
<1>0. Len(s) \in Nat /\ Len(t) \in Nat /\ Spoils(t) \subseteq 1..Len(t)
  BY LenProperties DEF Spoils
<1>1. PICK h : h = [p \in 1..Len(t) |-> p + d]
  OBVIOUS
<1>2. h \in [1..Len(t) -> Int] /\ \A p \in 1..Len(t) : h[p] = p + d
  BY <1>1
<1>3. ASSUME NEW p \in Spoils(t) PROVE h[p] \in Spoils(s)
  <2>1. 1 <= p + d /\ p \in 1..Len(t)
    BY <1>0
  <2>2. p + d \in Spoils(s)
    BY <2>1, SameRest
  <2> QED
    BY <1>2, <2>1, <2>2
<1>4. ASSUME NEW p \in Spoils(t), NEW q \in Spoils(t), p < q,
             NEW z \in 1..Len(t), p < z, z < q, t[z] = Zero
      PROVE  h[p] < h[q] /\ \E y \in 1..Len(s) : h[p] < y /\ y < h[q] /\ s[y] = Zero
  <2>1. h[p] = p + d /\ h[q] = q + d /\ p \in Int /\ q \in Int
    BY <1>0, <1>2
  <2>2. z + d \in 1..Len(s) /\ h[p] < z + d /\ z + d < h[q] /\ h[p] < h[q]
    BY <1>0, <1>4, <2>1
  <2>3. s[z + d] = Zero
    BY <1>4
  <2> QED
    BY <2>2, <2>3
<1>5. PICK X : X = {}
  OBVIOUS
<1>6. Kept(s, t, X, h)
  BY <1>2, <1>3, <1>4, <1>5 DEF Kept
<1> QED
  BY <1>5, <1>6, Transfer

\* A segment that is refused, at the beginning.
LEMMA RefuseAtMost ==
  ASSUME NEW s \in Seq(Bytes), NEW t \in Seq(Bytes), NEW b \in Int, AtMost(s, b),
         NEW d \in Nat, Len(s) = Len(t) + d, \A i \in 1..Len(t) : s[i + d] = t[i],
         1 \in Spoils(s), 1 < d, s[d] = Zero
  PROVE  AtMost(t, b - 1)
<1>0. Len(s) \in Nat /\ Len(t) \in Nat /\ Spoils(t) \subseteq 1..Len(t) /\ Spoils(s) \subseteq 1..Len(s)
  BY LenProperties DEF Spoils
<1> SUFFICES ASSUME NEW I \in SUBSET Spoils(t), Lone(t, I) PROVE Cardinality(I) <= b - 1
  BY DEF AtMost
<1>1. I \subseteq 1..Len(t) /\ \A p \in I : p \in Int /\ p >= 1
  BY <1>0
<1>2. PICK J : J = {p + d : p \in I}
  OBVIOUS
<1>3. PICK K : K = J \union {1}
  OBVIOUS
<1>4. ASSUME NEW p \in I PROVE p + d \in Spoils(s)
  <2>1. 1 <= p + d /\ p \in Spoils(t)
    BY <1>1
  <2> QED
    BY <2>1, SameRest
<1>5. J \subseteq Spoils(s) /\ K \in SUBSET Spoils(s)
  BY <1>2, <1>3, <1>4
<1>6. \A x \in J : x > d /\ x \in Int
  BY <1>1, <1>2
<1>7. ASSUME NEW x \in K, NEW y \in K, x < y
      PROVE  \E z \in 1..Len(s) : x < z /\ z < y /\ s[z] = Zero
  <2>0. x \in Int /\ y \in Int
    BY <1>3, <1>6
  <2>1. y \in J
    <3> SUFFICES ASSUME y = 1 PROVE FALSE
      BY <1>3
    <3>1. x = 1 \/ x > d
      BY <1>3, <1>6
    <3> QED
      BY <1>7, <2>0, <3>1
  <2>2. CASE x = 1
    <3>1. d < y /\ d \in 1..Len(s)
      BY <1>0, <1>6, <2>1
    <3> QED
      BY <2>2, <3>1
  <2>3. CASE x # 1
    <3>1. PICK p \in I, q \in I : x = p + d /\ y = q + d
      BY <1>2, <1>3, <2>1, <2>3
    <3>2. p < q /\ p \in Int /\ q \in Int
      BY <1>1, <1>7, <3>1
    <3>3. PICK z \in 1..Len(t) : p < z /\ z < q /\ t[z] = Zero
      BY <3>2 DEF Lone
    <3>4. z + d \in 1..Len(s) /\ x < z + d /\ z + d < y
      BY <1>0, <3>1, <3>2, <3>3
    <3>5. s[z + d] = Zero
      BY <3>3
    <3> QED
      BY <3>4, <3>5
  <2> QED
    BY <2>2, <2>3
<1>8. Cardinality(K) <= b
  BY <1>5, <1>7 DEF AtMost, Lone
<1>9. IsFiniteSet(J)
  <2>1. IsFiniteSet(1..Len(s))
    BY <1>0, FS_Interval
  <2>2. J \in SUBSET (1..Len(s))
    BY <1>0, <1>5
  <2> QED
    BY <2>1, <2>2, FS_Subset
<1>10. Cardinality(K) = Cardinality(J) + 1 /\ Cardinality(J) \in Nat
  <2>1. 1 \notin J
    BY <1>6
  <2> QED
    BY <1>3, <1>9, <2>1, FS_AddElement, FS_CardinalityType
<1>11. IsFiniteSet(I) /\ Cardinality(I) <= Cardinality(J)
  <2>1. PICK f : f = [p \in I |-> p + d]
    OBVIOUS
  <2>2. f \in [I -> J] /\ DOMAIN f = I
    BY <1>2, <2>1
  <2>3. ASSUME NEW p \in I, NEW q \in I, f[p] = f[q] PROVE p = q
    <3>1. p \in Int /\ q \in Int /\ p + d = q + d
      BY <1>1, <2>1, <2>3
    <3> QED
      BY <3>1
  <2>4. f \in Injection(I, J)
    BY <2>2, <2>3 DEF Injection, IsInjective
  <2> QED
    BY <1>9, <2>4, FS_Injection
<1>12. Cardinality(I) \in Nat
  BY <1>11, FS_CardinalityType
<1> QED
  BY <1>8, <1>10, <1>11, <1>12

\* The last segment ends elsewhere, or not yet.
LEMMA EndAtMost ==
  ASSUME NEW s \in Seq(Bytes), NEW t \in Seq(Bytes), NEW b \in Int, AtMost(s, b),
         NEW n \in Nat, n <= Len(s), n <= Len(t), \A i \in 1..n : s[i] = t[i],
         \A i \in 1..Len(t) : n < i => t[i] # Zero
  PROVE  /\ AtMost(t, b + 1)
         /\ (\A p \in Spoils(t) : \E z \in 1..Len(t) : p < z /\ t[z] = Zero) => AtMost(t, b)
<1>0. Len(s) \in Nat /\ Len(t) \in Nat /\ Spoils(t) \subseteq 1..Len(t)
  BY LenProperties DEF Spoils
<1>1. PICK h : h = [p \in 1..Len(t) |-> p]
  OBVIOUS
<1>2. h \in [1..Len(t) -> Int] /\ \A p \in 1..Len(t) : h[p] = p
  BY <1>1
<1>3. PICK X : X = {p \in Spoils(t) : ~\E z \in 1..Len(t) : p < z /\ t[z] = Zero}
  OBVIOUS
<1>4. ASSUME NEW p \in X \intersect Spoils(t), NEW q \in X \intersect Spoils(t), p < q
      PROVE  ~\E z \in 1..Len(t) : p < z /\ z < q /\ t[z] = Zero
  BY <1>3
<1>5. ASSUME NEW p \in Spoils(t) \ X PROVE h[p] \in Spoils(s)
  <2>1. PICK z \in 1..Len(t) : p < z /\ t[z] = Zero
    BY <1>3
  <2>2. z <= n
    BY <1>0, <2>1
  <2>3. z <= Len(s) /\ \A i \in 1..z : i \in 1..n
    BY <1>0, <2>2
  <2>4. \A i \in 1..z : s[i] = t[i]
    BY <2>3
  <2>5. p \in Spoils(s)
    BY <2>1, <2>3, <2>4, SameHead
  <2>6. h[p] = p
    BY <1>0, <1>2
  <2> QED
    BY <2>5, <2>6
<1>6. ASSUME NEW p \in Spoils(t) \ X, NEW q \in Spoils(t) \ X, p < q,
             NEW z \in 1..Len(t), p < z, z < q, t[z] = Zero
      PROVE  h[p] < h[q] /\ \E y \in 1..Len(s) : h[p] < y /\ y < h[q] /\ s[y] = Zero
  <2>1. h[p] = p /\ h[q] = q
    BY <1>0, <1>2
  <2>2. z <= n /\ z \in 1..n
    BY <1>0, <1>6
  <2>3. z \in 1..Len(s) /\ s[z] = Zero
    BY <1>0, <1>6, <2>2
  <2> QED
    BY <1>6, <2>1, <2>3
<1>7. Kept(s, t, X, h)
  BY <1>2, <1>4, <1>5, <1>6 DEF Kept
<1>8. AtMost(t, b + 1) /\ (X = {} => AtMost(t, b))
  BY <1>7, Transfer
<1> QED
  BY <1>3, <1>8

\* A byte that is lost makes at most one more segment that may be refused.
LEMMA LoseAtMost ==
  ASSUME NEW s \in Seq(Bytes), NEW t \in Seq(Bytes), NEW b \in Int, AtMost(s, b),
         NEW j \in 1..Len(s), Len(t) = Len(s) - 1,
         \A i \in 1..Len(t) : t[i] = IF i < j THEN s[i] ELSE s[i + 1]
  PROVE  AtMost(t, b + 1)
<1>0. Len(s) \in Nat /\ Len(t) \in Nat /\ Spoils(t) \subseteq 1..Len(t)
  BY LenProperties DEF Spoils
<1>1. PICK h : h = [p \in 1..Len(t) |-> IF p < j THEN p ELSE p + 1]
  OBVIOUS
<1>2. h \in [1..Len(t) -> Int] /\ \A p \in 1..Len(t) : h[p] = IF p < j THEN p ELSE p + 1
  BY <1>1
<1>3. PICK X : X = {p \in Spoils(t) : p < j /\ ~\E z \in 1..Len(t) : p < z /\ z < j /\ t[z] = Zero}
  OBVIOUS
<1>4. ASSUME NEW p \in X \intersect Spoils(t), NEW q \in X \intersect Spoils(t), p < q
      PROVE  ~\E z \in 1..Len(t) : p < z /\ z < q /\ t[z] = Zero
  <2> SUFFICES ASSUME NEW z \in 1..Len(t), p < z, z < q, t[z] = Zero PROVE FALSE
    OBVIOUS
  <2>1. q < j /\ q \in Int
    BY <1>0, <1>3
  <2>2. z < j
    BY <2>1
  <2> QED
    BY <1>3, <2>2
<1>5. ASSUME NEW p \in Spoils(t) \ X PROVE h[p] \in Spoils(s)
  <2>0. p \in 1..Len(t)
    BY <1>0
  <2>1. CASE p < j
    <3>1. PICK z \in 1..Len(t) : p < z /\ z < j /\ t[z] = Zero
      BY <1>3, <2>1
    <3>2. z <= Len(s) /\ \A i \in 1..z : i \in 1..Len(t) /\ i < j
      BY <1>0, <3>1
    <3>3. \A i \in 1..z : s[i] = t[i]
      BY <3>2
    <3>4. p \in Spoils(s)
      BY <3>1, <3>2, <3>3, SameHead
    <3> QED
      BY <1>2, <2>0, <2>1, <3>4
  <2>2. CASE ~(p < j)
    <3>1. PICK d \in Int : d = 1
      OBVIOUS
    <3>2. Len(s) = Len(t) + d /\ 1 <= p + d /\ h[p] = p + d
      BY <1>0, <1>2, <2>0, <2>2, <3>1
    <3>3. ASSUME NEW i \in 1..Len(t), p <= i PROVE s[i + d] = t[i]
      <4>1. ~(i < j)
        BY <1>0, <2>0, <2>2, <3>3
      <4> QED
        BY <3>1, <4>1
    <3>4. p + d \in Spoils(s)
      BY <3>1, <3>2, <3>3, SameRest
    <3> QED
      BY <3>2, <3>4
  <2> QED
    BY <2>1, <2>2
<1>6. ASSUME NEW p \in Spoils(t) \ X, NEW q \in Spoils(t) \ X, p < q,
             NEW z \in 1..Len(t), p < z, z < q, t[z] = Zero
      PROVE  h[p] < h[q] /\ \E y \in 1..Len(s) : h[p] < y /\ y < h[q] /\ s[y] = Zero
  <2>1. PICK y : y = h[z]
    OBVIOUS
  <2>2. p \in 1..Len(t) /\ q \in 1..Len(t)
    BY <1>0
  <2>3. /\ h[p] = IF p < j THEN p ELSE p + 1
        /\ h[q] = IF q < j THEN q ELSE q + 1
        /\ y = IF z < j THEN z ELSE z + 1
    BY <1>2, <2>1, <2>2
  <2>4. h[p] < h[q] /\ y \in 1..Len(s) /\ h[p] < y /\ y < h[q]
    BY <1>0, <1>6, <2>2, <2>3
  <2>5. s[y] = Zero
    BY <1>6, <2>3
  <2> QED
    BY <2>4, <2>5
<1>7. Kept(s, t, X, h)
  BY <1>2, <1>4, <1>5, <1>6 DEF Kept
<1> QED
  BY <1>7, Transfer

\* So does a byte that appears; a delimiter may end two such segments, but not of both kinds.
LEMMA InjectAtMost ==
  ASSUME NEW s \in Seq(Bytes), NEW t \in Seq(Bytes), NEW b \in Int, AtMost(s, b),
         Len(t) = Len(s) + 1, NEW j \in 1..Len(t),
         \A i \in 1..Len(t) : i # j => t[i] = IF i < j THEN s[i] ELSE s[i - 1]
  PROVE  AtMost(t, b + 1)
<1>0. Len(s) \in Nat /\ Len(t) \in Nat /\ Spoils(t) \subseteq 1..Len(t)
  BY LenProperties DEF Spoils
<1>1. PICK h : h = [p \in 1..Len(t) |-> IF p < j THEN p ELSE p - 1]
  OBVIOUS
<1>2. h \in [1..Len(t) -> Int] /\ \A p \in 1..Len(t) : h[p] = IF p < j THEN p ELSE p - 1
  BY <1>1
<1>3. PICK X : X = {p \in Spoils(t) :
                      p <= j /\ ~\E z \in 1..Len(t) : p < z /\ z < j /\ t[z] = Zero}
  OBVIOUS
<1>4. ASSUME NEW p \in X \intersect Spoils(t), NEW q \in X \intersect Spoils(t), p < q
      PROVE  ~\E z \in 1..Len(t) : p < z /\ z < q /\ t[z] = Zero
  <2> SUFFICES ASSUME NEW z \in 1..Len(t), p < z, z < q, t[z] = Zero PROVE FALSE
    OBVIOUS
  <2>1. q <= j /\ q \in Int
    BY <1>0, <1>3
  <2>2. z < j
    BY <2>1
  <2> QED
    BY <1>3, <2>2
<1>5. ASSUME NEW p \in Spoils(t) \ X PROVE h[p] \in Spoils(s)
  <2>0. p \in 1..Len(t)
    BY <1>0
  <2>1. CASE p <= j
    <3>1. PICK z \in 1..Len(t) : p < z /\ z < j /\ t[z] = Zero
      BY <1>3, <2>1
    <3>2. z <= Len(s) /\ p < j /\ \A i \in 1..z : i \in 1..Len(t) /\ i < j /\ i # j
      BY <1>0, <2>0, <3>1
    <3>3. \A i \in 1..z : s[i] = t[i]
      BY <3>2
    <3>4. p \in Spoils(s)
      BY <3>1, <3>2, <3>3, SameHead
    <3> QED
      BY <1>2, <2>0, <3>2, <3>4
  <2>2. CASE ~(p <= j)
    <3>1. PICK d \in Int : d = -1
      OBVIOUS
    <3>2. Len(s) = Len(t) + d /\ 1 <= p + d /\ h[p] = p + d
      BY <1>0, <1>2, <2>0, <2>2, <3>1
    <3>3. ASSUME NEW i \in 1..Len(t), p <= i PROVE s[i + d] = t[i]
      <4>1. ~(i < j) /\ i # j /\ i - 1 = i + d
        BY <1>0, <2>0, <2>2, <3>1, <3>3
      <4> QED
        BY <4>1
    <3>4. p + d \in Spoils(s)
      BY <3>1, <3>2, <3>3, SameRest
    <3> QED
      BY <3>2, <3>4
  <2> QED
    BY <2>1, <2>2
<1>6. ASSUME NEW p \in Spoils(t) \ X, NEW q \in Spoils(t) \ X, p < q,
             NEW z \in 1..Len(t), p < z, z < q, t[z] = Zero
      PROVE  h[p] < h[q] /\ \E y \in 1..Len(s) : h[p] < y /\ y < h[q] /\ s[y] = Zero
  <2>1. p \in 1..Len(t) /\ q \in 1..Len(t)
    BY <1>0
  <2>2. PICK w \in 1..Len(t) : w # j /\ p < w /\ w < q /\ t[w] = Zero /\ (p < j /\ j < q => w < j)
    <3>1. CASE p < j
      <4>1. p <= j /\ ~(p \in X)
        BY <1>0, <2>1, <3>1
      <4>2. PICK y \in 1..Len(t) : p < y /\ y < j /\ t[y] = Zero
        BY <1>3, <4>1
      <4>3. CASE j < q
        <5>1. y # j /\ y < q
          BY <2>1, <4>2, <4>3
        <5> QED
          BY <4>2, <5>1
      <4>4. CASE ~(j < q)
        <5>1. z # j
          BY <1>6, <2>1, <4>4
        <5> QED
          BY <1>6, <4>4, <5>1
      <4> QED
        BY <4>3, <4>4
    <3>2. CASE ~(p < j)
      <4>1. z # j
        BY <1>6, <2>1, <3>2
      <4> QED
        BY <1>6, <3>2, <4>1
    <3> QED
      BY <3>1, <3>2
  <2>3. p # j /\ q # j
    <3>1. ~\E y \in 1..Len(t) : j < y /\ y < j /\ t[y] = Zero
      OBVIOUS
    <3>2. p # j
      BY <1>3, <3>1, <2>1
    <3>3. ASSUME q = j PROVE FALSE
      BY <1>3, <2>1, <3>1, <3>3
    <3> QED
      BY <3>2, <3>3
  <2>4. PICK y : y = h[w]
    OBVIOUS
  <2>5. /\ h[p] = IF p < j THEN p ELSE p - 1
        /\ h[q] = IF q < j THEN q ELSE q - 1
        /\ y = IF w < j THEN w ELSE w - 1
    BY <1>2, <2>1, <2>4
  <2>6. h[p] < h[q] /\ y \in 1..Len(s) /\ h[p] < y /\ y < h[q]
    BY <1>0, <2>1, <2>2, <2>3, <2>5
  <2>7. s[y] = Zero
    BY <2>2, <2>5
  <2> QED
    BY <2>6, <2>7
<1>7. Kept(s, t, X, h)
  BY <1>2, <1>4, <1>5, <1>6 DEF Kept
<1> QED
  BY <1>7, Transfer

\* A frame between its delimiters adds none.
LEMMA SendAtMost ==
  ASSUME NEW s \in Seq(Bytes), NEW t \in Seq(Bytes), NEW b \in Int, AtMost(s, b),
         NEW k \in Frames, Len(t) = Len(s) + BodyLen + 2, \A i \in 1..Len(s) : t[i] = s[i],
         t[Len(s) + 1] = Zero, t[Len(s) + BodyLen + 2] = Zero,
         \A j \in 1..BodyLen : t[Len(s) + 1 + j] = <<k, j>>
  PROVE  AtMost(t, b)
<1>0. /\ Len(s) \in Nat /\ Len(t) \in Nat /\ Spoils(t) \subseteq 1..Len(t)
      /\ BodyLen \in Nat \ {0}
  BY LenProperties, LinkAssumption DEF Spoils
<1>1. PICK h : h = [p \in 1..Len(t) |-> p]
  OBVIOUS
<1>2. h \in [1..Len(t) -> Int] /\ \A p \in 1..Len(t) : h[p] = p
  BY <1>1
<1>3. PICK n \in Nat : n = Len(s)
  BY <1>0
<1>4. ASSUME NEW p \in Spoils(t) PROVE p <= n
  <2>1. PICK q \in 1..Len(t)+1 : Gap(t, p, q) /\ p \in 1..Len(t) /\ q \in Nat /\ p \in Nat
    BY <1>0 DEF Spoils, Spoiled
  <2> SUFFICES ASSUME p > n PROVE FALSE
    BY <1>3, <2>1
  <2>2. t[p] = Zero /\ p + 1 < q /\ \A i \in 1..Len(t) : p < i /\ i < q => t[i] # Zero
    BY <2>1 DEF Gap
  <2>3. CASE p = n + 1
    <3>1. PICK z \in 1..Len(t) : z = n + BodyLen + 2
      BY <1>0, <1>3
    <3>2. p < z /\ t[z] = Zero
      BY <1>0, <1>3, <2>3, <3>1
    <3>3. q <= z
      BY <2>1, <3>2, GapStops
    <3>4. q = z
      <4> SUFFICES ASSUME q < z PROVE FALSE
        BY <2>1, <3>1, <3>3
      <4>1. q \in 1..Len(t) /\ t[q] = Zero
        BY <1>0, <2>1, <3>1 DEF Gap
      <4>2. q - p \in 1..BodyLen /\ n + 1 + (q - p) = q
        BY <1>0, <1>3, <2>1, <2>2, <2>3, <3>1
      <4>3. t[n + 1 + (q - p)] = <<k, q - p>>
        BY <1>3, <4>2
      <4> QED
        BY <4>1, <4>2, <4>3, ByteKinds
    <3>5. q = p + BodyLen + 1
      BY <1>0, <1>3, <2>3, <3>1, <3>4
    <3>6. \A j \in 1..BodyLen : t[p + j] = <<k, j>>
      BY <1>3, <2>3
    <3> QED
      BY <2>1, <3>5, <3>6 DEF Gap
  <2>4. CASE p = n + BodyLen + 2
    BY <1>0, <1>3, <2>1, <2>2, <2>4
  <2>5. CASE p # n + 1 /\ p # n + BodyLen + 2
    <3>0. p \in Nat /\ p > n /\ p <= n + BodyLen + 2
      BY <1>0, <1>3, <2>1
    <3>1. p - (n + 1) \in 1..BodyLen /\ n + 1 + (p - (n + 1)) = p
      BY <1>0, <2>5, <3>0
    <3>2. t[n + 1 + (p - (n + 1))] = <<k, p - (n + 1)>>
      BY <1>3, <3>1
    <3> QED
      BY <2>2, <3>1, <3>2, ByteKinds
  <2> QED
    BY <2>3, <2>4, <2>5
<1>5. ASSUME NEW p \in Spoils(t) PROVE h[p] \in Spoils(s)
  <2>1. PICK q \in 1..Len(t)+1 : Gap(t, p, q) /\ p \in 1..Len(t) /\ q \in Nat /\ p \in Nat
    BY <1>0 DEF Spoils, Spoiled
  <2>2. p <= n
    BY <1>4
  <2>3. PICK z \in 1..Len(t) : z = n + 1 /\ t[z] = Zero
    BY <1>0, <1>3
  <2>4. q <= z /\ p < q
    <3>1. p < z
      BY <2>1, <2>2, <2>3
    <3>2. q <= z
      BY <2>1, <2>3, <3>1, GapStops
    <3> QED
      BY <2>1, <3>2 DEF Gap
  <2>5. PICK d \in Int : d = 0
    OBVIOUS
  <2>6. p + d \in 1..Len(s) /\ q + d \in 1..Len(s)+1 /\ p + d = p /\ p \in Int /\ q \in Int /\ d \in Int
    BY <1>3, <2>1, <2>2, <2>3, <2>4, <2>5
  <2>7. ASSUME NEW i \in 1..Len(t), p <= i, i < q PROVE s[i + d] = t[i]
    <3>1. i \in 1..Len(s) /\ i + d = i
      BY <1>3, <2>3, <2>4, <2>5, <2>7, <2>1
    <3> QED
      BY <3>1
  <2>8. q + d # Len(s) + 1 => s[q + d] = Zero
    <3> SUFFICES ASSUME q + d # Len(s) + 1 PROVE s[q + d] = Zero
      OBVIOUS
    <3>1. q \in 1..Len(s) /\ q + d = q /\ q # Len(t) + 1
      BY <1>0, <1>3, <2>1, <2>3, <2>4, <2>5
    <3>2. t[q] = Zero
      BY <2>1, <3>1 DEF Gap
    <3> QED
      BY <3>1, <3>2
  <2>9. p + d \in Spoils(s)
    BY <2>1, <2>6, <2>7, <2>8, GapMoves
  <2> QED
    BY <1>2, <2>1, <2>6, <2>9
<1>6. ASSUME NEW p \in Spoils(t), NEW q \in Spoils(t), p < q,
             NEW z \in 1..Len(t), p < z, z < q, t[z] = Zero
      PROVE  h[p] < h[q] /\ \E y \in 1..Len(s) : h[p] < y /\ y < h[q] /\ s[y] = Zero
  <2>1. h[p] = p /\ h[q] = q /\ q <= n /\ q \in Int
    BY <1>0, <1>2, <1>4
  <2>2. z \in 1..Len(s)
    BY <1>3, <1>6, <2>1
  <2> QED
    BY <1>6, <2>1, <2>2
<1>7. PICK X : X = {}
  OBVIOUS
<1>8. Kept(s, t, X, h)
  BY <1>2, <1>5, <1>6, <1>7 DEF Kept
<1> QED
  BY <1>7, <1>8, Transfer

\* t is s from behind its first d bytes on.
Advanced(s, t, d) == Len(s) = Len(t) + d /\ \A i \in 1..Len(t) : s[i + d] = t[i]

\* What the receiver reads, by the state m that it is in, the bytes r that it holds and the
\* bytes l on the way.
StreamOf(m, r, l) == IF m = "frame" THEN Opened(r, l) ELSE l
Lead(m, r)        == IF m = "frame" THEN Len(r) + 1 ELSE 0

\* It ends with the bytes on the way.
LEMMA StreamParts ==
  ASSUME NEW m, NEW r \in Seq(Bytes), NEW l \in Seq(Bytes)
  PROVE  /\ StreamOf(m, r, l) \in Seq(Bytes)
         /\ Lead(m, r) \in Nat /\ Len(l) \in Nat /\ Len(r) \in Nat
         /\ Len(StreamOf(m, r, l)) = Lead(m, r) + Len(l)
         /\ \A i \in 1..Len(l) : StreamOf(m, r, l)[Lead(m, r) + i] = l[i]
<1>1. CASE m = "frame"
  <2>1. PICK s : s = Opened(r, l)
    OBVIOUS
  <2>2. /\ s \in Seq(Bytes) /\ Len(s) = Len(r) + 1 + Len(l) /\ Len(r) \in Nat /\ Len(l) \in Nat
        /\ \A i \in 1..Len(l) : s[Len(r) + 1 + i] = l[i]
    BY <2>1, StreamIs
  <2>3. StreamOf(m, r, l) = s /\ Lead(m, r) = Len(r) + 1
    BY <1>1, <2>1 DEF StreamOf, Lead
  <2> QED
    BY <2>2, <2>3
<1>2. CASE m # "frame"
  <2>1. StreamOf(m, r, l) = l /\ Lead(m, r) = 0
    BY <1>2 DEF StreamOf, Lead
  <2>2. Len(l) \in Nat /\ Len(r) \in Nat /\ 0 + Len(l) = Len(l) /\ \A i \in 1..Len(l) : 0 + i = i
    BY LenProperties
  <2> QED
    BY <2>1, <2>2
<1> QED
  BY <1>1, <1>2

\* u is c bytes and then l.
Parted(u, c, l) ==
  /\ u \in Seq(Bytes) /\ c \in Nat /\ Len(u) = c + Len(l)
  /\ \A i \in 1..Len(l) : u[c + i] = l[i]

\* The same of a stream that is StreamOf(m, r, l).
LEMMA PartedIs ==
  ASSUME NEW m, NEW r \in Seq(Bytes), NEW l \in Seq(Bytes)
  PROVE  Parted(StreamOf(m, r, l), Lead(m, r), l)
  BY StreamParts DEF Parted

\* Its beginning does not depend on them.
LEMMA StreamLeads ==
  ASSUME NEW m, NEW r \in Seq(Bytes), NEW l \in Seq(Bytes), NEW n \in Seq(Bytes),
         NEW i \in 1..Lead(m, r)
  PROVE  StreamOf(m, r, l)[i] = StreamOf(m, r, n)[i]
<1>1. CASE m = "frame"
  <2>0. Len(r) \in Nat /\ i \in 1..Len(r)+1
    BY <1>1, LenProperties DEF Lead
  <2>1. /\ Opened(r, l)[1] = Zero /\ Opened(r, n)[1] = Zero
        /\ \A j \in 1..Len(r) : Opened(r, l)[1 + j] = r[j]
        /\ \A j \in 1..Len(r) : Opened(r, n)[1 + j] = r[j]
    BY StreamIs
  <2>2. i = 1 \/ \E j \in 1..Len(r) : i = 1 + j
    <3> SUFFICES ASSUME i # 1 PROVE \E j \in 1..Len(r) : i = 1 + j
      OBVIOUS
    <3>1. i - 1 \in 1..Len(r) /\ i = 1 + (i - 1)
      BY <2>0
    <3> QED
      BY <3>1
  <2>3. Opened(r, l)[i] = Opened(r, n)[i]
    BY <2>1, <2>2
  <2> QED
    BY <1>1, <2>3 DEF StreamOf
<1>2. CASE m # "frame"
  BY <1>2 DEF Lead
<1> QED
  BY <1>1, <1>2

\* The receiver reads the stream from its beginning to its end.
LEMMA StreamReads ==
  ASSUME Types, DevRx, NEW b, b = Head(link)
  PROVE  /\ Stream \in Seq(Bytes) /\ Stream' \in Seq(Bytes)
         /\ \E d \in Nat : /\ Advanced(Stream, Stream', d)
                           /\ Ends(b) => d = Len(rx) + 2
<1>0. /\ rx \in Seq(Bytes) /\ link \in Seq(Bytes) /\ Len(rx) \in Nat /\ Len(link) \in Nat
  BY Ranges
<1>1. /\ Skips(b) \/ Opens(b) \/ Keeps(b) \/ Overruns(b) \/ Ends(b)
      /\ link # <<>> /\ link' = Tail(link) /\ b = link[1] /\ b \in Bytes
  BY RxSteps
<1>2. PICK l : l = Tail(link)
  OBVIOUS
<1>3. /\ l \in Seq(Bytes) /\ Len(l) = Len(link) - 1 /\ Len(link) \in Nat \ {0}
      /\ \A i \in 1..Len(link)-1 : l[i] = link[i + 1]
  BY <1>0, <1>1, <1>2, TailIs
<1>4. PICK s : s = Stream
  OBVIOUS
<1>5. PICK t : t = Stream'
  OBVIOUS
<1>6. CASE Skips(b)
  <2>1. s = link /\ t = l
    BY <1>1, <1>2, <1>4, <1>5, <1>6 DEF Stream, Skips
  <2>2. PICK d \in Nat : d = 1
    OBVIOUS
  <2>3. Len(s) = Len(t) + d
    BY <1>3, <2>1, <2>2
  <2>4. \A i \in 1..Len(t) : s[i + d] = t[i]
    BY <1>3, <2>1, <2>2
  <2>5. ~Ends(b)
    BY <1>6 DEF Skips, Ends
  <2> QED
    BY <1>0, <1>3, <1>4, <1>5, <2>1, <2>3, <2>4, <2>5 DEF Advanced
<1>7. CASE Opens(b)
  <2>1. PICK e : e = <<>>
    OBVIOUS
  <2>2. e \in Seq(Bytes) /\ Len(e) = 0
    BY <2>1
  <2>3. s = link /\ t = Opened(e, l)
    BY <1>1, <1>2, <1>4, <1>5, <1>7, <2>1 DEF Stream, Opens
  <2>4. /\ t \in Seq(Bytes) /\ Len(t) = 0 + 1 + Len(l) /\ t[1] = Zero
        /\ \A i \in 1..Len(l) : t[0 + 1 + i] = l[i]
    BY <1>3, <2>2, <2>3, StreamIs
  <2>5. PICK d \in Nat : d = 0
    OBVIOUS
  <2>6. Len(s) = Len(t) + d
    BY <1>3, <2>3, <2>4, <2>5
  <2>7. ASSUME NEW i \in 1..Len(t) PROVE s[i + d] = t[i]
    <3>0. i + d = i
      BY <2>5
    <3>1. CASE i = 1
      BY <1>1, <1>7, <2>3, <2>4, <3>0, <3>1 DEF Opens
    <3>2. CASE i # 1
      <4>1. i - 1 \in 1..Len(l) /\ i - 1 \in 1..Len(link)-1 /\ 0 + 1 + (i - 1) = i /\ (i - 1) + 1 = i
        BY <1>3, <2>4, <3>2
      <4>2. t[i] = l[i - 1] /\ l[i - 1] = link[i]
        BY <1>3, <2>4, <4>1
      <4> QED
        BY <2>3, <3>0, <4>2
    <3> QED
      BY <3>1, <3>2
  <2>8. ~Ends(b)
    BY <1>7 DEF Opens, Ends
  <2> QED
    BY <1>0, <1>4, <1>5, <2>3, <2>4, <2>6, <2>7, <2>8 DEF Advanced
<1>8. CASE Keeps(b)
  <2>1. PICK r : r = Append(rx, b)
    OBVIOUS
  <2>2. /\ r \in Seq(Bytes) /\ Len(r) = Len(rx) + 1 /\ r[Len(rx) + 1] = b
        /\ \A i \in 1..Len(rx) : r[i] = rx[i]
    BY <1>0, <1>1, <2>1, AppendProperties
  <2>3. s = Opened(rx, link) /\ t = Opened(r, l)
    BY <1>1, <1>2, <1>4, <1>5, <1>8, <2>1 DEF Stream, Keeps
  <2>4. /\ s \in Seq(Bytes) /\ Len(s) = Len(rx) + 1 + Len(link) /\ s[1] = Zero
        /\ \A i \in 1..Len(rx) : s[1 + i] = rx[i]
        /\ \A i \in 1..Len(link) : s[Len(rx) + 1 + i] = link[i]
    <3>1. OpenedAs(s, rx, link)
      BY <1>0, <2>3, OpenedIs
    <3> QED
      BY <3>1 DEF OpenedAs
  <2>5. /\ t \in Seq(Bytes) /\ Len(t) = Len(r) + 1 + Len(l) /\ t[1] = Zero
        /\ \A i \in 1..Len(r) : t[1 + i] = r[i]
        /\ \A i \in 1..Len(l) : t[Len(r) + 1 + i] = l[i]
    <3>1. OpenedAs(t, r, l)
      BY <1>3, <2>2, <2>3, OpenedIs
    <3> QED
      BY <3>1 DEF OpenedAs
  <2>6. PICK d \in Nat : d = 0
    OBVIOUS
  <2>7. Len(s) = Len(t) + d
    BY <1>0, <1>3, <2>2, <2>4, <2>5, <2>6
  <2>8. ASSUME NEW i \in 1..Len(t) PROVE s[i + d] = t[i]
    <3>0. i + d = i /\ i \in Nat /\ i >= 1 /\ i <= Len(rx) + 1 + Len(link)
      BY <1>0, <1>3, <2>2, <2>5, <2>6
    <3>1. CASE i = 1
      BY <2>4, <2>5, <3>0, <3>1
    <3>2. CASE i # 1 /\ i <= Len(rx) + 1
      <4>1. i - 1 \in 1..Len(rx) /\ i - 1 \in 1..Len(r) /\ 1 + (i - 1) = i
        BY <1>0, <2>2, <3>0, <3>2
      <4>2. t[1 + (i - 1)] = r[i - 1] /\ s[1 + (i - 1)] = rx[i - 1] /\ r[i - 1] = rx[i - 1]
        BY <2>2, <2>4, <2>5, <4>1
      <4> QED
        BY <3>0, <4>1, <4>2
    <3>3. CASE i = Len(rx) + 2
      <4>1. Len(r) \in 1..Len(r) /\ 1 + Len(r) = i /\ 1 \in 1..Len(link) /\ Len(rx) + 1 + 1 = i
        BY <1>0, <1>3, <2>2, <3>3
      <4>2. t[i] = r[Len(r)] /\ s[i] = link[1]
        BY <2>4, <2>5, <4>1
      <4> QED
        BY <1>1, <2>2, <3>0, <4>2
    <3>4. CASE i > Len(rx) + 2
      <4>0. i - (Len(rx) + 2) \in Nat
        BY <1>0, <3>0, <3>4
      <4>1. PICK x \in Nat : x = i - (Len(rx) + 2)
        BY <4>0
      <4>2. x \in 1..Len(l) /\ x \in 1..Len(link)-1 /\ Len(r) + 1 + x = i
            /\ x + 1 \in 1..Len(link) /\ Len(rx) + 1 + (x + 1) = i
        BY <1>0, <1>3, <2>2, <3>0, <3>4, <4>1
      <4>3. t[i] = l[x] /\ s[i] = link[x + 1]
        BY <2>4, <2>5, <4>2
      <4> QED
        BY <1>3, <3>0, <4>2, <4>3
    <3> QED
      BY <1>0, <3>0, <3>1, <3>2, <3>3, <3>4
  <2>9. ~Ends(b)
    BY <1>8 DEF Keeps, Ends
  <2> QED
    BY <1>4, <1>5, <2>4, <2>5, <2>7, <2>8, <2>9 DEF Advanced
<1>9. CASE Overruns(b) \/ Ends(b)
  <2>1. s = Opened(rx, link) /\ t = l
    BY <1>1, <1>2, <1>4, <1>5, <1>9 DEF Stream, Overruns, Ends
  <2>2. /\ s \in Seq(Bytes) /\ Len(s) = Len(rx) + 1 + Len(link)
        /\ \A i \in 1..Len(link) : s[Len(rx) + 1 + i] = link[i]
    BY <1>0, <2>1, StreamIs
  <2>3. PICK d \in Nat : d = Len(rx) + 2
    BY <1>0
  <2>4. Len(s) = Len(t) + d
    <3>1. Len(s) = Len(rx) + 1 + Len(link) /\ Len(t) = Len(link) - 1
      BY <1>3, <2>1, <2>2
    <3> QED
      BY <1>0, <2>3, <3>1
  <2>5. ASSUME NEW i \in 1..Len(t) PROVE s[i + d] = t[i]
    <3>1. i \in 1..Len(link)-1 /\ i + 1 \in 1..Len(link) /\ Len(rx) + 1 + (i + 1) = i + d
      BY <1>0, <1>3, <2>1, <2>3
    <3> QED
      BY <1>3, <2>1, <2>2, <3>1
  <2> QED
    BY <1>3, <1>4, <1>5, <2>1, <2>2, <2>3, <2>4, <2>5 DEF Advanced
<1> QED
  BY <1>1, <1>6, <1>7, <1>8, <1>9

\* skrit_dev_rx answers a segment that is not empty and no frame, once, or not at all.
LEMMA NakSteps ==
  ASSUME Types, DevRx, NEW b, b = Head(link)
  PROVE  \/ naks' + garbled' = naks + garbled
         \/ /\ Ends(b) /\ rx # <<>> /\ \A k \in Frames : rx # FrameBytes(k)
            /\ naks' + garbled' = naks + garbled + 1
<1>1. naks \in Nat /\ garbled \in Nat
  BY DEF Types, TypeOK
<1>2. CASE \E c \in Classes(b) : IdleByte(c) \/ AsciiByte(c)
  BY <1>2 DEF IdleByte, AsciiByte
<1>3. CASE BinaryByte(b)
  <2>1. CASE b = Zero
    <3>1. mode = "frame" /\ rx' = <<>> /\ mode' = "idle"
          /\ IF rx = <<>> THEN UNCHANGED <<delivered, naks, garbled>>
                          ELSE Dispatched(rx) \/ Refused(rx)
      BY <1>3, <2>1 DEF BinaryByte, FrameEnd, FrameComplete
    <3>2. CASE rx = <<>> \/ Dispatched(rx)
      BY <3>1, <3>2 DEF Dispatched, Refused
    <3>3. CASE rx # <<>> /\ Refused(rx)
      <4>1. (\A k \in Frames : rx # FrameBytes(k)) /\ delivered' = delivered
        BY <3>3 DEF Refused
      <4>2. Ends(b)
        BY <2>1, <3>1, <4>1 DEF Ends
      <4>3. \/ naks' = naks /\ garbled' = garbled
            \/ naks' = naks + 1 /\ garbled' = garbled
            \/ naks' = naks /\ garbled' = garbled + 1
        BY <3>3 DEF Refused
      <4>4. naks' + garbled' = naks + garbled \/ naks' + garbled' = naks + garbled + 1
        BY <1>1, <4>3
      <4> QED
        BY <3>3, <4>1, <4>2, <4>4
    <3> QED
      BY <3>1, <3>2, <3>3
  <2>2. CASE b # Zero
    BY <1>3, <2>2 DEF BinaryByte, FrameByte
  <2> QED
    BY <2>1, <2>2
<1> QED
  BY <1>2, <1>3 DEF DevRx

\* What the host writes or the link changes lies behind what the receiver holds.
LEMMA StreamStays ==
  ASSUME Types, link' \in Seq(Bytes), UNCHANGED <<mode, rx>>
  PROVE  /\ Stream \in Seq(Bytes) /\ Stream' \in Seq(Bytes)
         /\ \E c \in Nat :
              /\ Len(Stream) = c + Len(link) /\ Len(Stream') = c + Len(link')
              /\ \A i \in 1..c : Stream'[i] = Stream[i]
              /\ \A i \in 1..Len(link) : Stream[c + i] = link[i]
              /\ \A i \in 1..Len(link') : Stream'[c + i] = link'[i]
<1>0. rx \in Seq(Bytes) /\ link \in Seq(Bytes)
  BY Ranges
<1>1. PICK l : l = link'
  OBVIOUS
<1>2. PICK c : c = Lead(mode, rx)
  OBVIOUS
<1>3. PICK s : s = Stream
  OBVIOUS
<1>4. PICK t : t = Stream'
  OBVIOUS
<1>5. s = StreamOf(mode, rx, link) /\ t = StreamOf(mode, rx, l)
  BY <1>1, <1>3, <1>4 DEF Stream, StreamOf
<1>6. Parted(s, c, link)
  BY <1>0, <1>2, <1>5, PartedIs
<1>7. Parted(t, c, l)
  <2>1. l \in Seq(Bytes)
    BY <1>1
  <2> QED
    BY <1>0, <1>2, <1>5, <2>1, PartedIs
<1>8. \A i \in 1..c : t[i] = s[i]
  <2>1. l \in Seq(Bytes)
    BY <1>1
  <2> QED
    BY <1>0, <1>2, <1>5, <2>1, StreamLeads
<1> QED
  BY <1>1, <1>3, <1>4, <1>6, <1>7, <1>8 DEF Parted

\* Reading keeps it.
LEMMA NakReads ==
  ASSUME Types, PhaseInv, NakInv, DevRx
  PROVE  NakInv'
<1>1. PICK b : b = Head(link)
  OBVIOUS
<1>0. /\ rx \in Seq(Bytes) /\ link \in Seq(Bytes) /\ Len(rx) \in Nat /\ Len(link) \in Nat
      /\ naks \in Nat /\ garbled \in Nat /\ faults \in Nat /\ lines \in Nat
      /\ faults' = faults /\ lines' = lines /\ link # <<>> /\ link' = Tail(link)
      /\ b = link[1] /\ Len(link) # 0
  BY <1>1, Ranges, RxSteps, EmptySeq, LinkAssumption DEF hostVars, Types, TypeOK
<1>2. PICK s \in Seq(Bytes) : s = Stream
  BY <1>1, StreamReads
<1>3. PICK t \in Seq(Bytes) : t = Stream'
  BY <1>1, StreamReads
<1>4. PICK d \in Nat : Advanced(s, t, d) /\ (Ends(b) => d = Len(rx) + 2)
  BY <1>1, <1>2, <1>3, StreamReads
<1>5. PICK n \in Nat : n = naks + garbled
  BY <1>0
<1>6. PICK o \in Int : o = faults + lines - n
  BY <1>0
<1>7. AtMost(s, o) /\ (faults = 0 => n = 0)
  BY <1>2, <1>5, <1>6 DEF NakInv
<1>8. CASE naks' + garbled' = n
  <2>1. AtMost(t, o)
    BY <1>4, <1>7, DropAtMost DEF Advanced
  <2> QED
    BY <1>0, <1>3, <1>6, <1>7, <1>8, <2>1 DEF NakInv
<1>9. CASE naks' + garbled' = n + 1 /\ Ends(b) /\ rx # <<>> /\ \A k \in Frames : rx # FrameBytes(k)
  <2>1. mode = "frame" /\ b = Zero /\ delivered' = delivered /\ d = Len(rx) + 2 /\ Len(rx) # 0
    BY <1>0, <1>4, <1>9, EmptySeq DEF Ends
  <2>2. faults # 0
    <3> SUFFICES ASSUME faults = 0 PROVE FALSE
      OBVIOUS
    <3>1. PICK lo \in 0..sent : Since(lo)
      BY DEF PhaseInv
    <3>2. PICK p : Synced(lo, p)
      BY <3>1 DEF Since
    <3>3. delivered' = Append(delivered, lo + 1) /\ lo + 1 \in 1..sent
      BY <1>0, <1>9, <2>1, <3>2, SyncedEnds
    <3>4. delivered \in Seq(Frames) /\ Len(delivered) \in Nat
      BY Ranges
    <3>5. sent \in 0..MaxFrames /\ MaxFrames \in Nat
      BY LinkAssumption DEF Types, TypeOK
    <3>6. lo + 1 \in Frames
      BY <3>3, <3>5 DEF Frames
    <3>7. Len(Append(delivered, lo + 1)) = Len(delivered) + 1
      BY <3>4, <3>6, AppendProperties
    <3>8. Len(delivered) = Len(delivered) + 1
      BY <2>1, <3>3, <3>7
    <3> QED
      BY <3>4, <3>8
  <2>3. /\ Len(s) = Len(rx) + 1 + Len(link) /\ s[1] = Zero
        /\ \A i \in 1..Len(rx) : s[1 + i] = rx[i]
        /\ \A i \in 1..Len(link) : s[Len(rx) + 1 + i] = link[i]
    <3>1. PICK u : u = Opened(rx, link)
      OBVIOUS
    <3>2. s = u
      BY <1>2, <2>1, <3>1 DEF Stream
    <3>0. rx \in Seq(Bytes) /\ link \in Seq(Bytes)
      BY <1>0
    <3>3. /\ Len(u) = Len(rx) + 1 + Len(link) /\ u[1] = Zero
          /\ \A i \in 1..Len(rx) : u[1 + i] = rx[i]
          /\ \A i \in 1..Len(link) : u[Len(rx) + 1 + i] = link[i]
      <4>1. OpenedAs(u, rx, link)
        BY <3>0, <3>1, OpenedIs
      <4> QED
        BY <4>1 DEF OpenedAs
    <3> QED
      BY <3>2, <3>3
  <2>4. s[d] = Zero /\ 1 < d /\ d <= Len(s) /\ 1 + 1 < d
    <3>1. 1 \in 1..Len(link) /\ Len(rx) + 1 + 1 = d
      BY <1>0, <2>1
    <3>2. s[Len(rx) + 1 + 1] = link[1]
      BY <2>3, <3>1
    <3>3. 1 < d /\ d <= Len(s) /\ 1 + 1 < d
      BY <1>0, <2>1, <2>3
    <3> QED
      BY <1>0, <2>1, <3>1, <3>2, <3>3
  <2>5. ASSUME NEW i \in 1..Len(s), 1 < i, i < d PROVE s[i] # Zero
    <3>1. i - 1 \in 1..Len(rx) /\ 1 + (i - 1) = i
      BY <1>0, <2>1, <2>3, <2>5
    <3>2. s[i] = rx[i - 1]
      BY <2>3, <3>1
    <3>3. rx \in Seq(Bytes \ {Zero})
      BY DEF Types, TypeOK
    <3>4. rx[i - 1] \in Bytes \ {Zero}
      BY <3>1, <3>3, ElementOfSeq
    <3> QED
      BY <3>2, <3>4
  <2>6. ASSUME d = 1 + BodyLen + 1, NEW k \in Frames, \A j \in 1..BodyLen : s[1 + j] = <<k, j>>
        PROVE  FALSE
    <3>1. Len(rx) = BodyLen
      BY <1>0, <2>1, <2>6, LinkAssumption
    <3>2. \A j \in 1..BodyLen : rx[j] = <<k, j>>
      BY <2>3, <2>6, <3>1
    <3>3. rx = FrameBytes(k)
      <4>1. PICK f : f = FrameBytes(k)
        OBVIOUS
      <4>2. f \in Seq(Bytes) /\ Len(f) = BodyLen /\ \A j \in 1..BodyLen : f[j] = <<k, j>>
        BY <4>1, FrameIs
      <4>3. Len(f) = Len(rx) /\ \A i \in 1..Len(rx) : rx[i] = f[i]
        BY <3>1, <3>2, <4>2
      <4> QED
        BY <1>0, <4>1, <4>2, <4>3, SeqEqual
    <3> QED
      BY <1>9, <3>3
  <2>7. Gap(s, 1, d)
    <3>1. 1 \in 1..Len(s) /\ d \in 1..Len(s)+1 /\ d - 1 - 1 <= RxCap
      <4>1. Len(rx) <= RxCap /\ RxCap \in Nat
        BY LinkAssumption DEF Types, TypeOK
      <4> QED
        BY <1>0, <2>1, <2>3, <4>1
    <3> QED
      BY <2>3, <2>4, <2>5, <2>6, <3>1 DEF Gap
  <2>8. 1 \in Spoils(s)
    BY <2>7 DEF Spoils, Spoiled, Gap
  <2>9. AtMost(t, o - 1)
    BY <1>4, <1>7, <2>4, <2>8, RefuseAtMost DEF Advanced
  <2>10. faults' + lines' - (naks' + garbled') = o - 1
    BY <1>0, <1>5, <1>6, <1>9
  <2>11. AtMost(Stream', faults' + lines' - (naks' + garbled'))
    BY <1>3, <2>9, <2>10
  <2> QED
    BY <1>0, <2>2, <2>11 DEF NakInv
<1> QED
  BY <1>1, <1>5, <1>8, <1>9, NakSteps

\* Writing keeps it: only a line can make one more.
LEMMA NakWrites ==
  ASSUME Types, NakInv, HostSend \/ HostLine \/ HostFlush
  PROVE  NakInv'
<1>0. /\ link \in Seq(Bytes) /\ Len(link) \in Nat /\ RxCap \in Nat /\ BodyLen \in Nat \ {0}
      /\ naks \in Nat /\ garbled \in Nat /\ faults \in Nat /\ lines \in Nat
  BY Ranges, LinkAssumption DEF Types, TypeOK
<1>1. UNCHANGED devVars /\ faults' = faults
  BY HostWrites
<1>2. PICK w \in Seq(Bytes) :
        /\ link' = link \o w
        /\ HostSend => w = Delimited(FrameBytes(sent + 1)) /\ sent + 1 \in Frames
        /\ ~HostSend => Plain(w)
        /\ ~HostSend /\ ~HostLine => Len(w) = RxCap + 1
  BY HostWrites
<1>3. lines' = IF ~HostSend /\ HostLine THEN lines + 1 ELSE lines
  BY DEF HostSend, HostLine, HostFlush
<1>4. /\ link' \in Seq(Bytes) /\ Len(link') = Len(link) + Len(w) /\ Len(w) \in Nat
      /\ \A i \in 1..Len(link) : link'[i] = link[i]
      /\ \A i \in 1..Len(w) : link'[Len(link) + i] = w[i]
  <2>1. PICK l : l = link \o w
    OBVIOUS
  <2>2. /\ l \in Seq(Bytes) /\ Len(l) = Len(link) + Len(w) /\ Len(w) \in Nat
        /\ \A i \in 1..Len(link) : l[i] = link[i]
        /\ \A i \in 1..Len(w) : l[Len(link) + i] = w[i]
    BY <1>0, <2>1, JoinIs
  <2> QED
    BY <1>2, <2>1, <2>2
<1>5. mode' = mode /\ rx' = rx /\ naks' = naks /\ garbled' = garbled
  BY <1>1 DEF devVars
<1>6. PICK s \in Seq(Bytes) : s = Stream
  BY <1>4, <1>5, StreamStays
<1>7. PICK t \in Seq(Bytes) : t = Stream'
  BY <1>4, <1>5, StreamStays
<1>8. PICK c \in Nat :
        /\ Len(s) = c + Len(link) /\ Len(t) = c + Len(link')
        /\ \A i \in 1..c : t[i] = s[i]
        /\ \A i \in 1..Len(link) : s[c + i] = link[i]
        /\ \A i \in 1..Len(link') : t[c + i] = link'[i]
  BY <1>4, <1>5, <1>6, <1>7, StreamStays
<1>9. PICK n \in Nat : n = Len(s)
  BY <1>0, <1>8
<1>10. Len(t) = n + Len(w)
  BY <1>0, <1>4, <1>8, <1>9
<1>11. ASSUME NEW i \in 1..n PROVE t[i] = s[i]
  <2>1. CASE i <= c
    BY <1>8, <2>1
  <2>2. CASE ~(i <= c)
    <3>1. i - c \in 1..Len(link) /\ i - c \in 1..Len(link') /\ c + (i - c) = i
      BY <1>0, <1>4, <1>8, <1>9, <2>2
    <3>2. t[i] = link'[i - c] /\ s[i] = link[i - c]
      BY <1>8, <3>1
    <3> QED
      BY <1>4, <3>1, <3>2
  <2> QED
    BY <2>1, <2>2
<1>12. ASSUME NEW i \in 1..Len(w) PROVE t[n + i] = w[i]
  <2>1. Len(link) + i \in 1..Len(link') /\ c + (Len(link) + i) = n + i
    BY <1>0, <1>4, <1>8, <1>9
  <2>2. t[c + (Len(link) + i)] = link'[Len(link) + i]
    BY <1>8, <2>1
  <2> QED
    BY <1>4, <2>1, <2>2
<1>13. PICK o \in Int : o = faults + lines - (naks + garbled)
  BY <1>0
<1>14. AtMost(s, o) /\ (faults = 0 => naks + garbled = 0)
  BY <1>6, <1>13 DEF NakInv
<1>15. AtMost(t, IF ~HostSend /\ HostLine THEN o + 1 ELSE o)
  <2>1. CASE HostSend
    <3>1. PICK k \in Frames : k = sent + 1 /\ w = Delimited(FrameBytes(k))
      BY <1>2, <2>1
    <3>2. /\ Len(w) = BodyLen + 2 /\ w[1] = Zero /\ w[BodyLen + 2] = Zero
          /\ \A j \in 1..BodyLen : w[1 + j] = <<k, j>>
      BY <3>1, DelimitedIs
    <3>3. t[n + 1] = Zero
      <4>1. 1 \in 1..Len(w)
        BY <1>0, <3>2
      <4> QED
        BY <1>12, <3>2, <4>1
    <3>4. t[n + BodyLen + 2] = Zero
      <4>1. BodyLen + 2 \in 1..Len(w) /\ n + (BodyLen + 2) = n + BodyLen + 2
        BY <1>0, <3>2
      <4>2. t[n + (BodyLen + 2)] = w[BodyLen + 2]
        BY <1>12, <4>1
      <4> QED
        BY <3>2, <4>1, <4>2
    <3>5. ASSUME NEW j \in 1..BodyLen PROVE t[n + 1 + j] = <<k, j>>
      <4>1. 1 + j \in 1..Len(w) /\ n + (1 + j) = n + 1 + j
        BY <1>0, <3>2
      <4>2. t[n + (1 + j)] = w[1 + j]
        BY <1>12, <4>1
      <4> QED
        BY <3>2, <4>1, <4>2
    <3>6. Len(t) = n + BodyLen + 2
      BY <1>0, <1>10, <3>2
    <3>7. AtMost(t, o)
      BY <1>9, <1>11, <1>14, <3>3, <3>4, <3>5, <3>6, SendAtMost
    <3> QED
      BY <2>1, <3>7
  <2>2. CASE ~HostSend
    <3>1. ASSUME NEW i \in 1..Len(t), n < i PROVE t[i] # Zero
      <4>1. i - n \in 1..Len(w) /\ n + (i - n) = i
        BY <1>4, <1>10, <3>1
      <4>2. t[i] = w[i - n] /\ w[i - n] \in {Char, Eol}
        BY <1>2, <1>12, <2>2, <4>1 DEF Plain
      <4> QED
        BY <4>2, ByteKinds
    <3>2. n <= Len(s) /\ n <= Len(t)
      BY <1>4, <1>9, <1>10
    <3>3. \A i \in 1..n : s[i] = t[i]
      BY <1>11
    <3>4. /\ AtMost(t, o + 1)
          /\ (\A p \in Spoils(t) : \E z \in 1..Len(t) : p < z /\ t[z] = Zero) => AtMost(t, o)
      BY <1>14, <3>1, <3>2, <3>3, EndAtMost
    <3>5. CASE HostLine
      BY <2>2, <3>4, <3>5
    <3>6. CASE ~HostLine
      <4>1. ASSUME NEW p \in Spoils(t) PROVE \E z \in 1..Len(t) : p < z /\ t[z] = Zero
        <5>1. PICK q \in 1..Len(t)+1 : Gap(t, p, q)
          BY DEF Spoils, Spoiled
        <5>2. /\ p \in 1..Len(t) /\ p + 1 < q /\ q - p - 1 <= RxCap /\ t[p] = Zero
              /\ (q # Len(t) + 1 => t[q] = Zero)
          BY <5>1 DEF Gap
        <5>3. Len(w) = RxCap + 1 /\ Len(t) \in Nat
          BY <1>2, <1>4, <1>9, <1>10, <2>2, <3>6
        <5>4. ~(n < p)
          BY <3>1, <5>2
        <5>5. q # Len(t) + 1
          BY <1>0, <1>10, <5>2, <5>3, <5>4
        <5>6. q \in 1..Len(t) /\ p < q
          BY <5>2, <5>3, <5>5
        <5> QED
          BY <5>2, <5>5, <5>6
      <4>2. AtMost(t, o)
        BY <3>4, <4>1
      <4> QED
        BY <3>6, <4>2
    <3> QED
      BY <3>5, <3>6
  <2> QED
    BY <2>1, <2>2
<1>16. CASE ~HostSend /\ HostLine
  <2>1. faults' + lines' - (naks' + garbled') = o + 1
    BY <1>0, <1>1, <1>3, <1>5, <1>13, <1>16
  <2>2. AtMost(Stream', faults' + lines' - (naks' + garbled'))
    BY <1>7, <1>15, <1>16, <2>1
  <2> QED
    BY <1>1, <1>5, <1>14, <2>2 DEF NakInv
<1>17. CASE ~(~HostSend /\ HostLine)
  <2>1. faults' + lines' - (naks' + garbled') = o
    BY <1>0, <1>1, <1>3, <1>5, <1>13, <1>17
  <2>2. AtMost(Stream', faults' + lines' - (naks' + garbled'))
    BY <1>7, <1>15, <1>17, <2>1
  <2> QED
    BY <1>1, <1>5, <1>14, <2>2 DEF NakInv
<1> QED
  BY <1>16, <1>17

\* So does a fault, which pays for the one that it may make.
LEMMA NakFaults ==
  ASSUME Types, NakInv, Lose \/ Inject \/ Cut
  PROVE  NakInv'
<1>0. /\ link \in Seq(Bytes) /\ Len(link) \in Nat
      /\ naks \in Nat /\ garbled \in Nat /\ faults \in Nat /\ lines \in Nat
  BY Ranges, LinkAssumption DEF Types, TypeOK
<1>1. UNCHANGED <<devVars, lines>> /\ faults' = faults + 1 /\ link' \in Seq(Bytes)
  BY FaultSteps DEF Sifted
<1>2. mode' = mode /\ rx' = rx /\ naks' = naks /\ garbled' = garbled /\ lines' = lines
  BY <1>1 DEF devVars
<1>3. PICK s \in Seq(Bytes) : s = Stream
  BY <1>1, <1>2, StreamStays
<1>4. PICK t \in Seq(Bytes) : t = Stream'
  BY <1>1, <1>2, StreamStays
<1>5. PICK c \in Nat :
        /\ Len(s) = c + Len(link) /\ Len(t) = c + Len(link')
        /\ \A i \in 1..c : t[i] = s[i]
        /\ \A i \in 1..Len(link) : s[c + i] = link[i]
        /\ \A i \in 1..Len(link') : t[c + i] = link'[i]
  BY <1>1, <1>2, <1>3, <1>4, StreamStays
<1>6. PICK o \in Int : o = faults + lines - (naks + garbled)
  BY <1>0
<1>7. AtMost(s, o)
  BY <1>3, <1>6 DEF NakInv
<1>8. ASSUME Lose PROVE AtMost(t, o + 1)
  <2>1. PICK i \in 1..Len(link) : link' = Without(link, i)
    BY <1>0, <1>8 DEF Lose
  <2>2. PICK l : l = Without(link, i)
    OBVIOUS
  <2>3. Len(l) = Len(link) - 1 /\ \A j \in 1..Len(link)-1 : l[j] = IF j < i THEN link[j] ELSE link[j + 1]
    BY <1>0, <2>2, WithoutIs
  <2>4. PICK x \in 1..Len(s) : x = c + i
    BY <1>0, <1>5
  <2>5. Len(t) = Len(s) - 1 /\ link' = l /\ Len(t) = c + (Len(link) - 1)
    BY <1>0, <1>5, <2>1, <2>2, <2>3
  <2>6. ASSUME NEW j \in 1..Len(t) PROVE t[j] = IF j < x THEN s[j] ELSE s[j + 1]
    <3>1. CASE j <= c
      <4>1. j < x /\ j \in 1..c
        BY <1>0, <1>5, <2>4, <2>5, <3>1
      <4> QED
        BY <1>5, <4>1
    <3>2. CASE ~(j <= c)
      <4>0. j - c \in Nat /\ j \in Nat
        BY <1>0, <1>5, <2>5, <3>2
      <4>1. PICK y \in Nat : y = j - c
        BY <4>0
      <4>2. /\ y \in 1..Len(link)-1 /\ y \in 1..Len(link') /\ y \in 1..Len(link) /\ c + y = j
            /\ y + 1 \in 1..Len(link) /\ c + (y + 1) = j + 1 /\ (j < x <=> y < i)
        BY <1>0, <2>3, <2>4, <2>5, <3>2, <4>0, <4>1
      <4>3. t[j] = l[y] /\ s[j] = link[y] /\ s[j + 1] = link[y + 1]
        BY <1>5, <2>5, <4>2
      <4>4. l[y] = IF y < i THEN link[y] ELSE link[y + 1]
        BY <2>3, <4>2
      <4> QED
        BY <4>2, <4>3, <4>4
    <3> QED
      BY <3>1, <3>2
  <2> QED
    BY <1>7, <2>5, <2>6, LoseAtMost
<1>9. ASSUME Inject PROVE AtMost(t, o + 1)
  <2>1. PICK i \in 0..Len(link), e \in {Zero, Char} : link' = With(link, i, e)
    BY <1>9 DEF Inject
  <2>2. PICK l : l = With(link, i, e)
    OBVIOUS
  <2>3. /\ Len(l) = Len(link) + 1
        /\ \A j \in 1..Len(link)+1 :
             l[j] = IF j <= i THEN link[j] ELSE IF j = i + 1 THEN e ELSE link[j - 1]
    <3>1. e \in Bytes /\ link \in Seq(Bytes)
      BY <1>0, ByteKinds
    <3>2. Grown(l, link, i, e)
      BY <2>2, <3>1, WithIs
    <3> QED
      BY <3>2 DEF Grown
  <2>4. Len(t) = Len(s) + 1 /\ link' = l /\ Len(t) = c + (Len(link) + 1)
    BY <1>0, <1>5, <2>1, <2>2, <2>3
  <2>5. PICK x \in 1..Len(t) : x = c + (i + 1)
    BY <1>0, <2>4
  <2>6. ASSUME NEW j \in 1..Len(t), j # x PROVE t[j] = IF j < x THEN s[j] ELSE s[j - 1]
    <3>1. CASE j <= c
      <4>1. j < x /\ j \in 1..c
        BY <1>0, <1>5, <2>4, <2>5, <3>1
      <4> QED
        BY <1>5, <4>1
    <3>2. CASE ~(j <= c)
      <4>0. j - c \in Nat /\ j \in Nat
        BY <1>0, <1>5, <2>4, <3>2
      <4>1. PICK y \in Nat : y = j - c
        BY <4>0
      <4>2. y \in 1..Len(link)+1 /\ y \in 1..Len(link') /\ c + y = j /\ y # i + 1
        BY <1>0, <2>3, <2>4, <2>5, <2>6, <3>2, <4>0, <4>1
      <4>3. t[j] = l[y]
        BY <1>5, <2>4, <4>2
      <4>4. CASE y <= i
        <5>1. j < x /\ y \in 1..Len(link)
          BY <1>0, <2>5, <4>0, <4>1, <4>2, <4>4
        <5>2. s[j] = link[y] /\ l[y] = link[y]
          BY <1>5, <2>3, <4>2, <4>4, <5>1
        <5> QED
          BY <4>3, <5>1, <5>2
      <4>5. CASE ~(y <= i)
        <5>1. ~(j < x) /\ y - 1 \in 1..Len(link) /\ c + (y - 1) = j - 1
          BY <1>0, <2>5, <4>0, <4>1, <4>2, <4>5
        <5>2. s[j - 1] = link[y - 1] /\ l[y] = link[y - 1]
          BY <1>5, <2>3, <4>2, <4>5, <5>1
        <5> QED
          BY <4>3, <5>1, <5>2
      <4> QED
        BY <4>4, <4>5
    <3> QED
      BY <3>1, <3>2
  <2> QED
    BY <1>7, <2>4, <2>6, InjectAtMost
<1>10. ASSUME Cut PROVE AtMost(t, o + 1)
  <2>1. PICK i \in 0..(Len(link) - 1) : link' = SubSeq(link, 1, i)
    BY <1>10 DEF Cut
  <2>2. i \in 0..Len(link) /\ i \in Nat
    BY <1>0
  <2>3. PICK l : l = SubSeq(link, 1, i)
    OBVIOUS
  <2>4. Len(l) = i /\ \A j \in 1..i : l[j] = link[j]
    BY <1>0, <2>2, <2>3, PartsIs
  <2>5. link' = l /\ Len(t) = c + i
    BY <1>5, <2>1, <2>3, <2>4
  <2>6. PICK n \in Nat : n = c + i
    BY <2>2
  <2>7. n <= Len(s) /\ n <= Len(t) /\ n = Len(t)
    <3>1. Len(s) = c + Len(link) /\ Len(t) = c + i
      BY <1>5, <2>5
    <3> QED
      BY <1>0, <2>2, <2>6, <3>1
  <2>8. ASSUME NEW j \in 1..n PROVE s[j] = t[j]
    <3>1. CASE j <= c
      <4>1. j \in 1..c
        BY <3>1
      <4> QED
        BY <1>5, <4>1
    <3>2. CASE ~(j <= c)
      <4>1. j - c \in 1..i /\ j - c \in 1..Len(link) /\ j - c \in 1..Len(link') /\ c + (j - c) = j
        BY <1>0, <2>2, <2>4, <2>5, <2>6, <3>2
      <4>2. t[j] = link'[j - c] /\ s[j] = link[j - c]
        BY <1>5, <4>1
      <4> QED
        BY <2>4, <2>5, <4>1, <4>2
    <3> QED
      BY <3>1, <3>2
  <2>9. \A j \in 1..Len(t) : n < j => t[j] # Zero
    BY <2>7
  <2> QED
    BY <1>7, <2>7, <2>8, <2>9, EndAtMost
<1>11. AtMost(t, o + 1)
  BY <1>8, <1>9, <1>10
<1>12. faults' + lines' - (naks' + garbled') = o + 1 /\ faults' # 0
  BY <1>0, <1>1, <1>2, <1>6
<1>13. AtMost(Stream', faults' + lines' - (naks' + garbled'))
  BY <1>4, <1>11, <1>12
<1> QED
  BY <1>12, <1>13 DEF NakInv

\* Every step keeps it.
LEMMA NakKeeps ==
  ASSUME Types, PhaseInv, NakInv, [Next]_vars
  PROVE  NakInv'
<1>1. CASE UNCHANGED vars
  <2>1. /\ Stream' = Stream /\ faults' = faults /\ lines' = lines
        /\ naks' = naks /\ garbled' = garbled
    BY <1>1 DEF vars, devVars, hostVars, Stream
  <2> QED
    BY <2>1 DEF NakInv
<1> QED
  BY <1>1, NakReads, NakWrites, NakFaults DEF Next

-----------------------------------------------------------------------------
(* The theorems                                                            *)

\* The invariant: types, the order of the bytes, the phase and the lines.
LEMMA LinkIsInvariant == Spec => []LinkInv
<1>1. Init => LinkInv
  <2> SUFFICES ASSUME Init PROVE OrderInv /\ LineInv
    BY TypesInit, PhaseInit DEF LinkInv
  <2>1. rx = <<>> /\ link = <<>> /\ delivered = <<>> /\ sent = 0 /\ lines = 0 /\ answers = 0
    BY DEF Init
  <2>2. OrderInv
    BY <2>1 DEF OrderInv, InOrder, Ordered
  <2>3. PICK K : K = 0+1..0
    OBVIOUS
  <2>4. K = {}
    BY <2>3
  <2>5. PICK e : e = [n \in K |-> 0]
    OBVIOUS
  <2>6. Awaited(e)
    BY <2>1, <2>3, <2>4, <2>5 DEF Awaited
  <2>7. LineInv
    BY <2>1, <2>6 DEF LineInv
  <2> QED
    BY <2>2, <2>7
<1>2. LinkInv /\ [Next]_vars => LinkInv'
  <2> SUFFICES ASSUME LinkInv, [Next]_vars PROVE LinkInv'
    OBVIOUS
  <2>1. Types /\ OrderInv /\ PhaseInv /\ LineInv
    BY DEF LinkInv
  <2>2. Types' /\ OrderInv' /\ PhaseInv' /\ LineInv'
    BY <2>1, TypesKeep, OrderKeeps, PhaseKeeps, LineKeeps
  <2> QED
    BY <2>2 DEF LinkInv
<1> QED
  BY <1>1, <1>2, PTL DEF Spec

\* skrit_dev_rx never stores more than SKRIT_RX_CAP bytes, whatever arrives, and outside of a
\* frame its buffer is empty.
THEOREM BufferHolds == Spec => []TypeOK
<1>1. LinkInv => TypeOK
  BY DEF LinkInv, Types
<1> QED
  BY <1>1, LinkIsInvariant, PTL

\* Once the device has read everything, each frame written in phase and not hit by a fault
\* is dispatched, and on a clean dual link each line is answered once.
THEOREM OwedAreDelivered == Spec => []OwedDelivered
<1>1. LinkInv => OwedDelivered
  <2> SUFFICES ASSUME LinkInv PROVE OwedDelivered
    OBVIOUS
  <2>1. Types /\ PhaseInv /\ LineInv
    BY DEF LinkInv
  <2>2. ASSUME link = <<>>, NEW k \in owed PROVE \E i \in DOMAIN delivered : delivered[i] = k
    <3> SUFFICES k \in Done
      BY DEF Done
    <3>1. CASE ~inPhase
      BY <2>1, <2>2, <3>1 DEF PhaseInv
    <3>2. CASE inPhase
      <4>1. PICK lo \in 0..sent : Since(lo)
        BY <2>1, <3>2 DEF PhaseInv
      <4>2. Len(link) = 0 /\ rx \in Seq(Bytes) /\ Len(rx) \in Nat /\ link \in Seq(Bytes)
            /\ BodyLen \in Nat \ {0}
        BY <2>1, <2>2, Ranges, LinkAssumption
      <4>3. CASE \E p : Synced(lo, p)
        <5>1. PICK p : Synced(lo, p)
          BY <4>3
        <5>2. PICK s : s = Stream
          OBVIOUS
        <5>3. PICK K : K = lo+1..sent
          OBVIOUS
        <5>4. Holds(K, p, 0, s)
          BY <5>1, <5>2, <5>3 DEF Synced
        <5>5. ~(k \in K)
          <6> SUFFICES ASSUME k \in K PROVE FALSE
            OBVIOUS
          <6>1. /\ p[k] \in Nat /\ 0 < p[k] /\ p[k] + BodyLen + 1 <= Len(s)
                /\ s[p[k] + BodyLen + 1] = Zero
            BY <5>4 DEF Holds
          <6>2. CASE mode # "frame"
            <7>1. Len(s) = 0
              BY <4>2, <5>2, <6>2 DEF Stream
            <7> QED
              BY <4>2, <6>1, <7>1
          <6>3. CASE mode = "frame"
            <7>1. s = Opened(rx, link)
              BY <5>2, <6>3 DEF Stream
            <7>2. Len(s) = Len(rx) + 1 + Len(link) /\ \A i \in 1..Len(rx) : s[1 + i] = rx[i]
              BY <4>2, <7>1, StreamIs
            <7>3. PICK x \in Nat : x = p[k]
              BY <6>1
            <7>4. /\ x + BodyLen \in 1..Len(rx) /\ 1 + (x + BodyLen) = x + BodyLen + 1
              BY <4>2, <6>1, <7>2, <7>3
            <7>5. rx[x + BodyLen] = Zero
              BY <6>1, <7>2, <7>3, <7>4
            <7>6. rx \in Seq(Bytes \ {Zero})
              BY <2>1 DEF Types, TypeOK
            <7>7. rx[x + BodyLen] \in Bytes \ {Zero}
              BY <7>4, <7>6, ElementOfSeq
            <7> QED
              BY <7>5, <7>7
          <6> QED
            BY <6>2, <6>3
        <5> QED
          BY <2>2, <4>1, <5>3, <5>5 DEF Since
      <4>4. CASE \E p, c, m : c \in Nat /\ m \in Nat /\ Flushing(lo, p, c, m)
        <5>1. PICK p, c, m : c \in Nat /\ m \in Nat /\ Flushing(lo, p, c, m)
          BY <4>4
        <5>2. c = 0 /\ m = 0 /\ (m > RxCap \/ Len(rx) + m > RxCap)
          BY <4>2, <5>1 DEF Flushing
        <5>3. RxCap \in Nat /\ Len(rx) <= RxCap
          BY <2>1, LinkAssumption DEF Types, TypeOK
        <5> QED
          BY <4>2, <5>2, <5>3
      <4> QED
        BY <4>1, <4>3, <4>4 DEF Since
    <3> QED
      BY <3>1, <3>2
  <2>3. ASSUME faults = 0, ~muxed
        PROVE  answers <= lines /\ (link = <<>> => answers = lines)
    <3>1. PICK e : Awaited(e) /\ answers <= lines
      BY <2>1, <2>3 DEF LineInv
    <3>2. ASSUME link = <<>> PROVE answers = lines
      <4>1. Len(link) = 0 /\ answers \in Nat /\ lines \in Nat
        BY <2>1, <3>2, LinkAssumption DEF Types, TypeOK
      <4>2. \A n \in answers+1..lines : e[n] \in 1..0
        BY <3>1, <4>1 DEF Awaited
      <4>3. ~(lines \in answers+1..lines)
        BY <4>2
      <4> QED
        BY <3>1, <4>1, <4>3
    <3> QED
      BY <3>1, <3>2
  <2> QED
    BY <2>2, <2>3 DEF OwedDelivered
<1> QED
  BY <1>1, LinkIsInvariant, PTL

\* The framing is a frame channel: frames are dispatched in the order they were sent and at
\* most once, and until the first fault none is skipped, whatever the link loses, invents or
\* cuts and whatever else is typed.
THEOREM FramingIsChannel == Spec => Channel!Spec
<1>1. Init => Channel!Init
  BY DEF Init, Channel!Init
<1>2. LinkInv /\ [Next]_vars => [Channel!Next]_(Channel!vars)
  <2> SUFFICES ASSUME LinkInv, [Next]_vars PROVE [Channel!Next]_(Channel!vars)
    OBVIOUS
  <2>0. Types /\ OrderInv /\ PhaseInv
    BY DEF LinkInv
  <2>1. CASE DevRx
    <3>1. PICK b : b = Head(link)
      OBVIOUS
    <3>2. /\ Skips(b) \/ Opens(b) \/ Keeps(b) \/ Overruns(b) \/ Ends(b)
          /\ link # <<>> /\ link' = Tail(link) /\ b = link[1]
          /\ sent' = sent /\ faults' = faults
      BY <2>0, <2>1, <3>1, RxSteps DEF hostVars
    <3>3. CASE delivered' = delivered
      BY <3>2, <3>3 DEF Channel!vars
    <3>4. CASE Ends(b) /\ delivered' # delivered
      <4>1. PICK k \in Frames : rx = FrameBytes(k) /\ delivered' = Append(delivered, k)
        BY <3>4 DEF Ends
      <4>2. k <= sent /\ \A n \in 1..Len(delivered) : delivered[n] < k
        BY <2>0, <3>2, <4>1, OrderEnds
      <4>3. delivered \in Seq(Frames) /\ Len(delivered) \in Nat /\ k \in Nat /\ k > 0 /\ sent \in Nat
        BY <2>0, Ranges DEF Frames
      <4>4. Channel!Newest < k
        <5>1. CASE delivered = <<>>
          BY <4>3, <5>1 DEF Channel!Newest
        <5>2. CASE delivered # <<>>
          <6>1. Len(delivered) # 0
            BY <4>3, <5>2, EmptySeq
          <6>2. Len(delivered) \in 1..Len(delivered)
            BY <4>3, <6>1
          <6> QED
            BY <4>2, <5>2, <6>2 DEF Channel!Newest
        <5> QED
          BY <5>1, <5>2
      <4>5. faults = 0 => k = Channel!Newest + 1
        <5> SUFFICES ASSUME faults = 0 PROVE k = Channel!Newest + 1
          OBVIOUS
        <5>1. PICK lo \in 0..sent : Since(lo)
          BY <2>0 DEF PhaseInv
        <5>2. PICK p : Synced(lo, p) /\ lo = Channel!Newest
          BY <5>1 DEF Since
        <5>3. mode = "frame"
          BY <3>4 DEF Ends
        <5>4. delivered' = Append(delivered, lo + 1) /\ lo + 1 \in 1..sent
          BY <2>0, <3>2, <3>4, <5>2, <5>3, SyncedEnds
        <5>5. lo + 1 = k
          <6>1. \A m \in Frames : Append(delivered, m)[Len(delivered) + 1] = m
            BY <4>3, AppendProperties
          <6>2. Append(delivered, k) = Append(delivered, lo + 1)
            BY <4>1, <5>4
          <6>3. sent \in 0..MaxFrames /\ MaxFrames \in Nat
            BY <2>0, LinkAssumption DEF Types, TypeOK
          <6>4. lo + 1 \in Frames
            BY <5>4, <6>3 DEF Frames
          <6> QED
            BY <6>1, <6>2, <6>4
        <5> QED
          BY <5>2, <5>5
      <4>6. k \in 1..sent
        BY <4>2, <4>3
      <4>7. Channel!Deliver(k)
        BY <3>2, <4>1, <4>4, <4>5 DEF Channel!Deliver
      <4> QED
        BY <4>6, <4>7 DEF Channel!Next
    <3> QED
      BY <3>2, <3>3, <3>4 DEF Skips, Opens, Keeps, Overruns, Ends
  <2>2. CASE HostSend
    <3>1. Channel!Send
      BY <2>2 DEF HostSend, devVars, Channel!Send
    <3> QED
      BY <3>1 DEF Channel!Next
  <2>3. CASE HostLine \/ HostFlush
    BY <2>3 DEF HostLine, HostFlush, devVars, Channel!vars
  <2>4. CASE Lose \/ Inject \/ Cut
    <3>1. sent' = sent /\ delivered' = delivered /\ faults' = faults + 1
      BY <2>0, <2>4, FaultSteps DEF devVars
    <3>2. faults \in Nat
      BY <2>0, LinkAssumption DEF Types, TypeOK
    <3>3. (faults' = 0) = FALSE
      BY <3>1, <3>2
    <3>4. Channel!Break
      BY <3>1, <3>3 DEF Channel!Break
    <3> QED
      BY <3>4 DEF Channel!Next
  <2>5. CASE UNCHANGED vars
    BY <2>5 DEF vars, devVars, hostVars, Channel!vars
  <2> QED
    BY <2>1, <2>2, <2>3, <2>4, <2>5 DEF Next
<1> QED
  BY <1>1, <1>2, LinkIsInvariant, PTL DEF Spec, Channel!Spec

\* However the link damages what the host writes, the device gives no more refusals, BADARGS
\* or BADCRC or a damaged write to the console, than there were faults and lines, none before
\* the first fault: one damaged segment is refused once, wherever the damage was done.
THEOREM OneRefusalPerFault == Spec => []OneNakPerFault
<1>1. Init => NakInv
  <2> SUFFICES ASSUME Init PROVE NakInv
    OBVIOUS
  <2>1. Stream = <<>> /\ faults = 0 /\ lines = 0 /\ naks = 0 /\ garbled = 0
    BY DEF Init, Stream
  <2>2. Spoils(<<>>) = {}
    BY DEF Spoils
  <2>3. ASSUME NEW I \in SUBSET Spoils(<<>>) PROVE Cardinality(I) <= 0
    <3>1. I = {}
      BY <2>2
    <3> QED
      BY <3>1, FS_EmptySet
  <2>4. AtMost(<<>>, 0)
    BY <2>3 DEF AtMost
  <2> QED
    BY <2>1, <2>4 DEF NakInv
<1>2. LinkInv /\ NakInv /\ [Next]_vars => NakInv'
  BY NakKeeps DEF LinkInv
<1>3. LinkInv /\ NakInv => OneNakPerFault
  <2> SUFFICES ASSUME LinkInv, NakInv PROVE OneNakPerFault
    OBVIOUS
  <2>1. TypeOK /\ naks \in Nat /\ garbled \in Nat /\ faults \in Nat /\ lines \in Nat
    BY LinkAssumption DEF LinkInv, Types, TypeOK
  <2>2. CASE faults = 0
    BY <2>1, <2>2 DEF NakInv, OneNakPerFault
  <2>3. CASE faults # 0
    <3>1. PICK o \in Int : o = faults + lines - (naks + garbled)
      BY <2>1
    <3>2. AtMost(Stream, o)
      BY <3>1 DEF NakInv
    <3>3. PICK I : I = {}
      OBVIOUS
    <3>4. I \in SUBSET Spoils(Stream) /\ Lone(Stream, I) /\ Cardinality(I) = 0
      BY <3>3, FS_EmptySet DEF Lone
    <3>5. 0 <= o
      BY <3>2, <3>4 DEF AtMost
    <3>6. naks + garbled <= faults + lines
      BY <2>1, <3>1, <3>5
    <3> QED
      BY <2>1, <2>3, <3>6 DEF OneNakPerFault
  <2> QED
    BY <2>2, <2>3
<1> QED
  BY <1>1, <1>2, <1>3, LinkIsInvariant, PTL DEF Spec
==============================================================================
