----------------------------- MODULE Links_proofs -----------------------------
(***************************************************************************)
(* Theorems about the transports that queue what the core writes: that     *)
(* frames leave the USB port of the Zephyr build whole, and that over BLE, *)
(* in both builds, every byte is notified in order and once, missing are   *)
(* only those that found no room or no central.                            *)
(***************************************************************************)
EXTENDS MCLinks, SequenceTheorems, TLAPS

-----------------------------------------------------------------------------
(* A queue that is drained with a peek                                     *)

Rises(s) == \A i, j \in 1..Len(s) : i < j => s[i] < s[j]

In(n, s) == \E i \in 1..Len(s) : s[i] = n

\* Of the numbers 1..m that were put into a queue, s have been sent, r are still
\* queued and g are lost.  The first k of the queue are dealt with but not yet
\* taken out.
Queue(s, r, k, m, g) ==
  /\ s \in Seq(Nat) /\ r \in Seq(Nat) /\ k \in 0..Len(r) /\ m \in Nat
  /\ Rises(s) /\ Rises(r)
  /\ \A i \in 1..Len(s) : s[i] <= m
  /\ \A j \in 1..Len(r) : r[j] <= m
  /\ \A i \in 1..Len(s), j \in 1..Len(r) : j > k => s[i] < r[j]
  /\ \A j \in 1..Len(r) : j <= k => r[j] \in g \/ In(r[j], s)
  /\ \A n \in 1..m : n \in g \/ In(n, s) \/ In(n, r)

\* t is the beginning of r.
Begins(t, r) == /\ t \in Seq(Nat) /\ Len(t) <= Len(r)
                /\ \A i \in 1..Len(t) : t[i] = r[i]

\* Lengths are numbers.
LEMMA QueueLengths ==
  ASSUME NEW s, NEW r, NEW k, NEW m, NEW g, Queue(s, r, k, m, g)
  PROVE  /\ Len(s) \in Nat /\ Len(r) \in Nat /\ k \in 0..Len(r) /\ m \in Nat
         /\ \A i \in 1..Len(s) : s[i] \in Nat
         /\ \A i \in 1..Len(r) : r[i] \in Nat
<1>1. s \in Seq(Nat) /\ r \in Seq(Nat)
  BY DEF Queue
<1> QED
  BY <1>1, LenProperties, ElementOfSeq DEF Queue

\* Nothing is sent twice or out of order, and what is missing is lost.
LEMMA QueueOrder ==
  ASSUME NEW s, NEW r, NEW k, NEW m, NEW g, Queue(s, r, k, m, g)
  PROVE  /\ \A i, j \in DOMAIN s : i < j => s[i] < s[j]
         /\ s # <<>> => \A n \in 1..s[Len(s)] : n \in g \/ \E i \in DOMAIN s : s[i] = n
<1>1. s \in Seq(Nat) /\ Len(s) \in Nat /\ DOMAIN s = 1..Len(s)
  BY LenProperties DEF Queue
<1>2. \A i, j \in DOMAIN s : i < j => s[i] < s[j]
  BY <1>1 DEF Queue, Rises
<1>3. ASSUME s # <<>>, NEW n \in 1..s[Len(s)], n \notin g
      PROVE  In(n, s)
  <2>1. Len(s) \in 1..Len(s)
    BY <1>1, <1>3, EmptySeq
  <2>2. s[Len(s)] \in Nat /\ s[Len(s)] <= m /\ m \in Nat
    BY <2>1, QueueLengths DEF Queue
  <2>3. n \in 1..m
    BY <2>2
  <2>4. CASE In(n, r)
    <3>1. PICK j \in 1..Len(r) : r[j] = n
      BY <2>4 DEF In
    <3>2. Len(r) \in Nat /\ k \in Nat
      BY QueueLengths
    <3>3. CASE j > k
      <4>1. s[Len(s)] < r[j]
        BY <2>1, <3>3 DEF Queue
      <4> QED
        BY <2>2, <3>1, <4>1
    <3>4. CASE j <= k
      BY <1>3, <3>1, <3>4 DEF Queue
    <3> QED
      BY <3>2, <3>3, <3>4
  <2> QED
    BY <1>3, <2>3, <2>4 DEF Queue
<1> QED
  BY <1>1, <1>2, <1>3 DEF In

\* Later numbers are put at the end; those that find no room are lost.
LEMMA QueuePut ==
  ASSUME NEW s, NEW r, NEW k, NEW m, NEW g, Queue(s, r, k, m, g),
         NEW r2 \in Seq(Nat), NEW m2 \in Nat, NEW g2, m <= m2, g \subseteq g2, Begins(r, r2),
         \A j \in 1..Len(r2) : j > Len(r) => r2[j] > m /\ r2[j] <= m2,
         \A i, j \in 1..Len(r2) : i > Len(r) /\ i < j => r2[i] < r2[j],
         \A n \in (m + 1)..m2 : n \in g2 \/ In(n, r2)
  PROVE  Queue(s, r2, k, m2, g2)
<1>1. /\ Len(s) \in Nat /\ Len(r) \in Nat /\ Len(r2) \in Nat /\ k \in 0..Len(r)
      /\ m \in Nat /\ Len(r) <= Len(r2) /\ \A i \in 1..Len(r) : r2[i] = r[i]
      /\ \A i \in 1..Len(s) : s[i] \in Nat
      /\ \A i \in 1..Len(r2) : r2[i] \in Nat
  BY QueueLengths, LenProperties, ElementOfSeq DEF Begins
<1>2. \A j \in 1..Len(r2) : j \in 1..Len(r) \/ j > Len(r)
  BY <1>1
<1>3. \A j \in 1..Len(r2) : r2[j] <= m2
  <2> TAKE j \in 1..Len(r2)
  <2>1. CASE j \in 1..Len(r)
    <3>1. r2[j] <= m
      BY <1>1, <2>1 DEF Queue
    <3> QED
      BY <1>1, <3>1
  <2> QED
    BY <1>2, <2>1
<1>4. Rises(r2)
  <2> SUFFICES ASSUME NEW i \in 1..Len(r2), NEW j \in 1..Len(r2), i < j
               PROVE  r2[i] < r2[j]
    BY DEF Rises
  <2>1. CASE i > Len(r)
    BY <2>1
  <2>2. CASE i \in 1..Len(r) /\ j > Len(r)
    <3>1. r2[i] <= m /\ r2[j] > m
      BY <1>1, <2>2 DEF Queue
    <3> QED
      BY <1>1, <3>1
  <2>3. CASE i \in 1..Len(r) /\ j \in 1..Len(r)
    BY <1>1, <2>3 DEF Queue, Rises
  <2> QED
    BY <1>2, <2>1, <2>2, <2>3
<1>5. ASSUME NEW i \in 1..Len(s), NEW j \in 1..Len(r2), j > k PROVE s[i] < r2[j]
  <2>1. CASE j \in 1..Len(r)
    BY <1>1, <1>5, <2>1 DEF Queue
  <2>2. CASE j > Len(r)
    <3>1. s[i] <= m /\ r2[j] > m
      BY <2>2 DEF Queue
    <3> QED
      BY <1>1, <3>1
  <2> QED
    BY <1>2, <2>1, <2>2
<1>6. ASSUME NEW j \in 1..Len(r2), j <= k PROVE r2[j] \in g2 \/ In(r2[j], s)
  <2>1. j \in 1..Len(r)
    BY <1>1, <1>6
  <2>2. r[j] \in g \/ In(r[j], s)
    BY <1>6, <2>1 DEF Queue
  <2> QED
    BY <1>1, <2>1, <2>2
<1>7. ASSUME NEW n \in 1..m2 PROVE n \in g2 \/ In(n, s) \/ In(n, r2)
  <2>1. CASE n \in 1..m
    <3>1. In(n, r) => In(n, r2)
      BY <1>1 DEF In
    <3> QED
      BY <2>1, <3>1 DEF Queue
  <2>2. CASE n \in (m + 1)..m2
    BY <2>2
  <2> QED
    BY <1>1, <2>1, <2>2
<1>8. k \in 0..Len(r2) /\ \A i \in 1..Len(s) : s[i] <= m2
  <2>1. \A i \in 1..Len(s) : s[i] <= m
    BY DEF Queue
  <2> QED
    BY <1>1, <2>1
<1> QED
  BY <1>3, <1>4, <1>5, <1>6, <1>7, <1>8 DEF Queue

\* All that is queued is lost.
LEMMA QueueClears ==
  ASSUME NEW s, NEW r, NEW m, NEW g, Queue(s, r, 0, m, g), NEW g2, g \subseteq g2,
         \A j \in 1..Len(r) : r[j] \in g2
  PROVE  Queue(s, <<>>, 0, m, g2)
<1>1. <<>> \in Seq(Nat) /\ Len(<<>>) = 0
  BY EmptySeq
<1>2. \A n \in 1..m : n \in g2 \/ In(n, s)
  BY DEF Queue, In
<1> QED
  BY <1>1, <1>2 DEF Queue, Rises

\* The beginning of the queue is sent, ...
LEMMA QueueSends ==
  ASSUME NEW s, NEW r, NEW m, NEW g, Queue(s, r, 0, m, g), NEW t, Begins(t, r)
  PROVE  Queue(s \o t, r, Len(t), m, g)
<1> DEFINE st == s \o t
<1>1. /\ Len(s) \in Nat /\ Len(r) \in Nat /\ Len(t) \in Nat /\ Len(t) <= Len(r)
      /\ m \in Nat /\ s \in Seq(Nat) /\ t \in Seq(Nat)
      /\ \A i \in 1..Len(t) : t[i] = r[i]
  BY QueueLengths, LenProperties DEF Begins, Queue
<1>2. /\ st \in Seq(Nat) /\ Len(st) = Len(s) + Len(t)
      /\ \A i \in 1..Len(s) : st[i] = s[i]
      /\ \A i \in 1..Len(st) : i > Len(s) => i - Len(s) \in 1..Len(t) /\ st[i] = t[i - Len(s)]
      /\ \A i \in 1..Len(t) : Len(s) + i \in 1..Len(st) /\ st[Len(s) + i] = t[i]
  BY <1>1, ConcatProperties, SMTT(20)
<1> HIDE DEF st
<1>3. ASSUME NEW i \in 1..Len(st)
      PROVE  \/ i \in 1..Len(s) /\ st[i] = s[i]
             \/ \E k \in 1..Len(t) : i = Len(s) + k /\ st[i] = r[k]
  <2>1. CASE i <= Len(s)
    BY <1>1, <1>2, <2>1
  <2>2. CASE i > Len(s)
    <3>1. i - Len(s) \in 1..Len(t) /\ st[i] = t[i - Len(s)]
      BY <1>2, <2>2
    <3>2. i = Len(s) + (i - Len(s))
      BY <1>2
    <3>3. st[i] = r[i - Len(s)]
      BY <1>1, <3>1
    <3> QED
      BY <3>1, <3>2, <3>3
  <2> QED
    BY <1>1, <1>2, <2>1, <2>2
<1>r. \A k \in 1..Len(t) : k \in 1..Len(r) /\ k > 0
  BY <1>1
<1>4. ASSUME NEW i \in 1..Len(st) PROVE st[i] <= m
  BY <1>3, <1>r DEF Queue
<1>5. Rises(st)
  <2> SUFFICES ASSUME NEW i \in 1..Len(st), NEW j \in 1..Len(st), i < j
               PROVE  st[i] < st[j]
    BY DEF Rises
  <2>1. CASE i \in 1..Len(s) /\ j \in 1..Len(s)
    BY <1>2, <2>1 DEF Queue, Rises
  <2>2. CASE i \in 1..Len(s) /\ \E k \in 1..Len(t) : j = Len(s) + k /\ st[j] = r[k]
    BY <1>2, <1>r, <2>2 DEF Queue
  <2>3. ASSUME NEW k \in 1..Len(t), i = Len(s) + k, st[i] = r[k],
               NEW l \in 1..Len(t), j = Len(s) + l, st[j] = r[l]
        PROVE  st[i] < st[j]
    <3>1. k < l /\ k \in 1..Len(r) /\ l \in 1..Len(r)
      BY <1>1, <1>r, <2>3
    <3> QED
      BY <2>3, <3>1 DEF Queue, Rises
  <2>4. ASSUME NEW k \in 1..Len(t), i = Len(s) + k, j \in 1..Len(s) PROVE FALSE
    BY <1>1, <2>4
  <2> QED
    BY <1>3, <2>1, <2>2, <2>3, <2>4
<1>6. ASSUME NEW i \in 1..Len(st), NEW j \in 1..Len(r), j > Len(t) PROVE st[i] < r[j]
  <2>1. CASE i \in 1..Len(s) /\ st[i] = s[i]
    <3>1. j > 0
      BY <1>1
    <3> QED
      BY <2>1, <3>1 DEF Queue
  <2>2. ASSUME NEW k \in 1..Len(t), st[i] = r[k] PROVE st[i] < r[j]
    <3>1. k < j /\ k \in 1..Len(r)
      BY <1>1, <1>r, <1>6
    <3> QED
      BY <2>2, <3>1 DEF Queue, Rises
  <2> QED
    BY <1>3, <2>1, <2>2
<1>7. ASSUME NEW j \in 1..Len(r), j <= Len(t) PROVE In(r[j], st)
  <2>1. j \in 1..Len(t)
    BY <1>1, <1>7
  <2>2. Len(s) + j \in 1..Len(st) /\ st[Len(s) + j] = r[j]
    BY <1>1, <1>2, <2>1
  <2> QED
    BY <2>2 DEF In
<1>8. \A n : In(n, s) => In(n, st)
  BY <1>1, <1>2 DEF In
<1>9. Len(t) \in 0..Len(r)
  BY <1>1
<1> QED
  BY <1>2, <1>4, <1>5, <1>6, <1>7, <1>8, <1>9 DEF Queue, st

\* ... or lost, ...
LEMMA QueueDrops ==
  ASSUME NEW s, NEW r, NEW m, NEW g, Queue(s, r, 0, m, g), NEW t, Begins(t, r),
         NEW g2, g \subseteq g2, \A i \in 1..Len(t) : t[i] \in g2
  PROVE  Queue(s, r, Len(t), m, g2)
<1>1. /\ Len(r) \in Nat /\ Len(t) \in Nat /\ Len(t) \in 0..Len(r)
      /\ \A i \in 1..Len(t) : t[i] = r[i]
  BY QueueLengths, LenProperties DEF Begins
<1>2. ASSUME NEW j \in 1..Len(r), j <= Len(t) PROVE r[j] \in g2
  BY <1>1, <1>2
<1>3. \A i \in 1..Len(s), j \in 1..Len(r) : j > Len(t) => s[i] < r[j]
  <2>1. \A j \in 1..Len(r) : j > 0
    BY <1>1
  <2> QED
    BY <2>1 DEF Queue
<1>4. \A n \in g : n \in g2
  OBVIOUS
<1> QED
  BY <1>1, <1>2, <1>3, <1>4 DEF Queue

\* ... and taken out.
LEMMA QueueTakes ==
  ASSUME NEW s, NEW r, NEW k, NEW m, NEW g, Queue(s, r, k, m, g),
         NEW r2 \in Seq(Nat), Len(r2) = Len(r) - k,
         \A i \in 1..Len(r2) : r2[i] = r[k + i]
  PROVE  Queue(s, r2, 0, m, g)
<1>1. /\ Len(r) \in Nat /\ Len(r2) \in Nat /\ k \in 0..Len(r)
      /\ \A i \in 1..Len(r2) : k + i \in 1..Len(r) /\ k + i > k
      /\ \A j \in 1..Len(r) : j > k => j - k \in 1..Len(r2) /\ k + (j - k) = j
  BY QueueLengths, LenProperties
<1>2. \A j \in 1..Len(r2) : r2[j] <= m /\ \A i \in 1..Len(s) : s[i] < r2[j]
  BY <1>1 DEF Queue
<1>3. Rises(r2)
  <2> SUFFICES ASSUME NEW i \in 1..Len(r2), NEW j \in 1..Len(r2), i < j
               PROVE  r2[i] < r2[j]
    BY DEF Rises
  <2>1. k + i < k + j
    BY <1>1
  <2> QED
    BY <1>1, <2>1 DEF Queue, Rises
<1>4. ASSUME NEW n \in 1..m PROVE n \in g \/ In(n, s) \/ In(n, r2)
  <2> SUFFICES ASSUME In(n, r) PROVE n \in g \/ In(n, s) \/ In(n, r2)
    BY DEF Queue
  <2>1. PICK j \in 1..Len(r) : r[j] = n
    BY DEF In
  <2>2. CASE j > k
    <3>1. j - k \in 1..Len(r2) /\ r2[j - k] = n
      BY <1>1, <2>1, <2>2
    <3> QED
      BY <3>1 DEF In
  <2>3. CASE j <= k
    BY <2>1, <2>3 DEF Queue
  <2> QED
    BY <1>1, <2>2, <2>3
<1>5. 0 \in 0..Len(r2) /\ \A j \in 1..Len(r2) : ~(j <= 0)
  BY <1>1
<1> QED
  BY <1>2, <1>3, <1>4, <1>5 DEF Queue

-----------------------------------------------------------------------------
(* The Zephyr build: dev_mtx and the USB port                              *)

Places == {"idle", "lock", "core", "open", "close", "get", "begin", "peek", "notify"}

\* Whoever is in the core or writing has the mutex, ...
MutexInv ==
  /\ transport \in {"usb", "ble"} /\ at \in [Threads -> Places]
  /\ lock \in Threads \union {"none"}
  /\ \A t \in Threads : at[t] \in {"core", "open", "close"} <=> lock = t

\* ... and the one frame that is half written is the one in the buffer.
FrameInv ==
  wire = IF \E t \in Threads : at[t] = "close"
         THEN <<[frame |-> scratch, is |-> "open"]>> ELSE <<>>

\* Where a thread goes on once it has left the mutex.
LEMMA AfterPlaces ==
  ASSUME NEW t \in Threads
  PROVE  /\ After(t) \in {"get", "begin", "idle"}
         /\ t = "main" => After(t) \in {"begin", "idle"}
  BY DEF After, Threads

\* No step puts two threads inside the mutex.
LEMMA MutexKeeps == MutexInv /\ [Next]_vars => MutexInv'
<1> SUFFICES ASSUME MutexInv, [Next]_vars PROVE MutexInv'
  OBVIOUS
<1> USE DEF MutexInv, Places, Goes
<1>t. "main" \in Threads /\ "cmd" \in Threads /\ "sniff" \in Threads /\ "none" \notin Threads
  BY DEF Threads
<1>1. CASE MainWakes
  BY <1>1, <1>t DEF MainWakes
<1>2. ASSUME NEW t \in Threads, Lock(t) PROVE MutexInv'
  BY <1>2, <1>t DEF Lock, Free
<1>3. ASSUME NEW t \in Threads, Unlock(t) PROVE MutexInv'
  <2>1. /\ After(t) \in {"get", "begin", "idle"} /\ at[t] = "core" /\ lock = t
        /\ transport' = transport
    BY <1>3, AfterPlaces DEF Unlock
  <2>2. CASE \E u \in Threads : at[u] = "lock"
    <3>1. PICK u \in Threads : at[u] = "lock" /\ lock' = u
                               /\ at' = [at EXCEPT ![t] = After(t), ![u] = "core"]
      BY <1>3, <2>2 DEF Unlock
    <3> QED
      BY <1>t, <2>1, <3>1
  <2>3. CASE ~\E u \in Threads : at[u] = "lock"
    <3>1. lock' = "none" /\ at' = [at EXCEPT ![t] = After(t)]
      BY <1>3, <2>3 DEF Unlock
    <3> QED
      BY <1>t, <2>1, <3>1
  <2> QED
    BY <2>2, <2>3
<1>4. ASSUME NEW n \in 1..2, Isr(n) PROVE MutexInv'
  BY <1>4 DEF Isr, UsbSame
<1>5. CASE CmdWakes \/ CmdGet \/ SniffWakes
  BY <1>5, <1>t DEF CmdWakes, CmdGet, SniffWakes, UsbSame
<1>6. CASE Dispatch
  BY <1>6, <1>t DEF Dispatch, UsbSame
<1>7. ASSUME NEW t \in Threads, SendData(t) PROVE MutexInv'
  BY <1>7 DEF SendData, UsbSame
<1>8. ASSUME NEW t \in Threads, Write(t) PROVE MutexInv'
  BY <1>8 DEF Write, UsbSame
<1>9. CASE Connected \/ Disconnected
           \/ \E q \in Pipes : \/ \E on \in BOOLEAN : Subscribe(q, on)
                               \/ \E t \in {"main", "cmd"} : Emit(t, q)
  BY <1>9 DEF Connected, Disconnected, Subscribe, Emit, BleSame
<1>10. CASE CmdWrite
  BY <1>10, <1>t DEF CmdWrite, BleSame
<1>11. CASE Drain \/ Notify
  BY <1>11, <1>t DEF Drain, DrainBegin, DrainPeek, Notify, NotifyFails, DrainGet, NextPipe,
                     DrainSame
<1>12. CASE UNCHANGED vars
  BY <1>12 DEF vars, coreVars
<1> QED
  BY <1>1, <1>2, <1>3, <1>4, <1>5, <1>6, <1>7, <1>8, <1>9, <1>10, <1>11, <1>12
  DEF Next, Usb, Ble

\* Nobody is half way through a frame and nothing is written.
LEMMA FrameSame ==
  ASSUME FrameInv, wire' = wire,
         \/ scratch' = scratch /\ \A t \in Threads : at'[t] = "close" <=> at[t] = "close"
         \/ \A t \in Threads : at[t] # "close" /\ at'[t] # "close"
  PROVE  FrameInv'
  BY DEF FrameInv

\* No step cuts a frame, or writes into an open one.
LEMMA FrameKeeps == MutexInv /\ FrameInv /\ [Next]_vars => FrameInv'
<1> SUFFICES ASSUME MutexInv, FrameInv, [Next]_vars PROVE FrameInv'
  OBVIOUS
<1>a. at \in [Threads -> Places]
  BY DEF MutexInv
<1>m. \A t, u \in Threads : at[t] \in {"core", "open", "close"}
                             /\ at[u] \in {"core", "open", "close"} => t = u
  BY DEF MutexInv
<1>t. "main" \in Threads /\ "cmd" \in Threads /\ "sniff" \in Threads
  BY DEF Threads
<1>1. CASE MainWakes
  BY <1>1, <1>a, <1>t, FrameSame DEF MainWakes, Goes, usbVars
<1>2. ASSUME NEW t \in Threads, Lock(t) PROVE FrameInv'
  BY <1>2, <1>a, FrameSame DEF Lock, Goes, usbVars
<1>3. ASSUME NEW t \in Threads, Unlock(t) PROVE FrameInv'
  <2>1. After(t) \in {"get", "begin", "idle"} /\ at[t] = "core" /\ UNCHANGED <<wire, scratch>>
    BY <1>3, AfterPlaces DEF Unlock, usbVars
  <2>2. \/ at' = [at EXCEPT ![t] = After(t)]
        \/ \E u \in Threads : at[u] = "lock" /\ at' = [at EXCEPT ![t] = After(t), ![u] = "core"]
    BY <1>3 DEF Unlock, Goes
  <2>3. \A v \in Threads : at'[v] = "close" <=> at[v] = "close"
    BY <1>a, <2>1, <2>2
  <2> QED
    BY <2>1, <2>3, FrameSame
<1>4. ASSUME NEW n \in 1..2, Isr(n) PROVE FrameInv'
  BY <1>4, FrameSame DEF Isr
<1>5. CASE CmdWakes \/ CmdGet \/ SniffWakes
  <2>1. UNCHANGED <<wire, scratch>>
    BY <1>5 DEF CmdWakes, CmdGet, SniffWakes, usbVars
  <2>2. \A v \in Threads : at'[v] = "close" <=> at[v] = "close"
    BY <1>5, <1>a, <1>t DEF CmdWakes, CmdGet, SniffWakes, Goes
  <2> QED
    BY <2>1, <2>2, FrameSame
<1>6. CASE Dispatch \/ \E t \in Threads : SendData(t)
  <2>1. PICK t \in Threads : at[t] = "core" /\ at' = [at EXCEPT ![t] = "open"] /\ wire' = wire
    BY <1>6, <1>t DEF Dispatch, SendData, Goes
  <2>2. \A v \in Threads : at[v] # "close" /\ at'[v] # "close"
    BY <1>a, <1>m, <2>1
  <2> QED
    BY <2>1, <2>2, FrameSame
<1>7. ASSUME NEW t \in Threads, Write(t) PROVE FrameInv'
  <2> DEFINE half == [frame |-> scratch, is |-> at[t]]
             open == [frame |-> scratch, is |-> "open"]
  <2>0. /\ at[t] \in {"open", "close"} /\ scratch' = scratch
        /\ wire' = IF wire = <<>> \/ wire[Len(wire)] # [half EXCEPT !.is = "open"]
                   THEN Append(wire, half) ELSE <<>>
        /\ at' = [at EXCEPT ![t] = IF at[t] = "open" THEN "close" ELSE "core"]
    BY <1>7 DEF Write, Goes
  <2>1. \A v \in Threads : v # t => at[v] # "close" /\ at'[v] # "close"
    BY <1>a, <1>m, <2>0
  <2>2. CASE at[t] = "open"
    <3>1. wire = <<>> /\ half = open
      BY <2>1, <2>2 DEF FrameInv
    <3>2. wire' = <<open>>
      BY <2>0, <3>1
    <3>3. at'[t] = "close"
      BY <1>a, <2>0, <2>2
    <3> QED
      BY <2>0, <3>2, <3>3 DEF FrameInv
  <2>3. CASE at[t] = "close"
    <3>1. wire = <<open>> /\ [half EXCEPT !.is = "open"] = open
      BY <2>3 DEF FrameInv
    <3>2. Len(wire) = 1 /\ wire[1] = open /\ wire # <<>>
      BY <3>1
    <3>3. wire' = <<>>
      BY <2>0, <3>1, <3>2
    <3>4. \A v \in Threads : at'[v] # "close"
      BY <1>a, <2>0, <2>1, <2>3
    <3> QED
      BY <3>3, <3>4 DEF FrameInv
  <2> QED
    BY <2>0, <2>2, <2>3
<1>8. CASE Connected \/ Disconnected
           \/ \E q \in Pipes : \/ \E on \in BOOLEAN : Subscribe(q, on)
                               \/ \E t \in {"main", "cmd"} : Emit(t, q)
  BY <1>8, FrameSame DEF Connected, Disconnected, Subscribe, Emit, BleSame, usbVars
<1>9. CASE CmdWrite
  BY <1>9, <1>a, <1>t, FrameSame DEF CmdWrite, BleSame, Goes, usbVars
<1>10. CASE Drain \/ Notify
  <2>1. UNCHANGED <<wire, scratch>>
    BY <1>10 DEF Drain, DrainBegin, DrainPeek, Notify, NotifyFails, DrainGet, DrainSame, usbVars
  <2>2. \A v \in Threads : at'[v] = "close" <=> at[v] = "close"
    BY <1>10, <1>a, <1>t DEF Drain, DrainBegin, DrainPeek, Notify, NotifyFails, DrainGet,
                             NextPipe, Goes
  <2> QED
    BY <2>1, <2>2, FrameSame
<1>11. CASE UNCHANGED vars
  BY <1>11, FrameSame DEF vars, coreVars, usbVars
<1> QED
  BY <1>1, <1>2, <1>3, <1>4, <1>5, <1>6, <1>7, <1>8, <1>9, <1>10, <1>11
  DEF Next, Usb, Ble

-----------------------------------------------------------------------------
(* The Zephyr build: the rings of the BLE transport                        *)

\* What the drain has notified and not yet taken out of ring q.
Taken(q) == IF at["main"] = "get" /\ q = pipe THEN Len(tmp) ELSE 0

\* Each ring is a queue; what the drain holds is the beginning of its ring.
RingsInv ==
  /\ rb \in [Pipes -> Seq(Nat)] /\ sent \in [Pipes -> Seq(Nat)]
  /\ made \in [Pipes -> Nat] /\ gone \in [Pipes -> SUBSET Nat]
  /\ pipe \in Pipes /\ tmp \in Seq(Nat)
  /\ \A q \in Pipes : Len(rb[q]) <= TxCap
  /\ \A q \in Pipes : Queue(sent[q], rb[q], Taken(q), made[q], gone[q])
  /\ at["main"] \in {"notify", "get"} => Begins(tmp, rb[pipe])

\* What is put goes to the end, as much of it as there is room for.
LEMMA PutFits ==
  ASSUME NEW r \in Seq(Nat), NEW t \in Seq(Nat), Len(r) <= TxCap
  PROVE  /\ Put(r, t, TxCap) \in Seq(Nat)
         /\ Len(Put(r, t, TxCap)) \in Len(r)..TxCap
         /\ Len(Put(r, t, TxCap)) <= Len(r) + Len(t)
         /\ \A i \in 1..Len(r) : Put(r, t, TxCap)[i] = r[i]
         /\ \A i \in 1..Len(Put(r, t, TxCap)) :
              i > Len(r) => i - Len(r) \in 1..Len(t) /\ Put(r, t, TxCap)[i] = t[i - Len(r)]
<1> DEFINE rt == r \o t
           n  == IF Len(rt) < TxCap THEN Len(rt) ELSE TxCap
           f  == SubSeq(rt, 1, n)
<1>1. /\ rt \in Seq(Nat) /\ Len(rt) = Len(r) + Len(t) /\ Len(r) \in Nat /\ Len(t) \in Nat
      /\ \A i \in 1..Len(r) : rt[i] = r[i]
      /\ \A i \in 1..Len(rt) : i > Len(r) => i - Len(r) \in 1..Len(t) /\ rt[i] = t[i - Len(r)]
  BY ConcatProperties, LenProperties
<1>2. Put(r, t, TxCap) = f
  BY DEF Put
<1> HIDE DEF rt
<1>3. n \in Len(r)..TxCap /\ n <= Len(rt) /\ n \in Nat /\ TxCap \in Nat
  BY <1>1, ZephyrAssumption
<1> HIDE DEF n
<1>4. f \in Seq(Nat) /\ Len(f) = n /\ \A i \in 1..n : f[i] = rt[i]
  BY <1>1, <1>3, SubSeqProperties
<1> HIDE DEF f
<1>5. \A i \in 1..Len(r) : f[i] = r[i]
  BY <1>1, <1>3, <1>4
<1>6. \A i \in 1..Len(f) : i > Len(r) => i - Len(r) \in 1..Len(t) /\ f[i] = t[i - Len(r)]
  BY <1>1, <1>3, <1>4
<1> QED
  BY <1>1, <1>2, <1>3, <1>4, <1>5, <1>6

\* No step but those of the drain and of a push concerns the rings.
LEMMA RingsSame ==
  ASSUME RingsInv, UNCHANGED <<rb, sent, made, gone, tmp>>,
         \/ at'["main"] = at["main"] /\ pipe' = pipe
         \/ at["main"] \notin {"notify", "get"} /\ at'["main"] \notin {"notify", "get"}
            /\ pipe' \in Pipes
  PROVE  RingsInv'
<1>1. \A q \in Pipes : Taken(q)' = Taken(q)
  BY DEF Taken
<1> QED
  BY <1>1 DEF RingsInv

\* What a push of n bytes leaves in the ring and what it loses.
New(m, n)     == [i \in 1..n |-> m + i]
Filled(r, m, n) == Put(r, New(m, n), TxCap)
Lost(r, m, n) == {New(m, n)[i] : i \in (Len(Filled(r, m, n)) - Len(r) + 1)..n}

\* A ring to which n bytes are pushed stays a queue.
LEMMA PushQueues ==
  ASSUME NEW s, NEW r, NEW k, NEW m, NEW g, Queue(s, r, k, m, g), Len(r) <= TxCap,
         NEW n \in 1..2
  PROVE  /\ Queue(s, Filled(r, m, n), k, m + n, g \union Lost(r, m, n))
         /\ Begins(r, Filled(r, m, n)) /\ Len(Filled(r, m, n)) <= TxCap
         /\ Lost(r, m, n) \in SUBSET Nat
<1> DEFINE new  == [i \in 1..n |-> m + i]
           full == Put(r, new, TxCap)
           lost == {new[i] : i \in (Len(full) - Len(r) + 1)..n}
<1>1. Filled(r, m, n) = full /\ Lost(r, m, n) = lost
  BY DEF Filled, Lost, New
<1>2. r \in Seq(Nat) /\ Len(r) \in Nat /\ m \in Nat /\ m + n \in Nat /\ n \in Nat
  BY QueueLengths DEF Queue
<1>3. new \in Seq(Nat) /\ Len(new) = n /\ \A i \in 1..n : new[i] = m + i
  <2>1. \A i \in 1..n : m + i \in Nat
    BY <1>2
  <2> QED
    BY <2>1
<1>f. full = Put(r, new, TxCap)
  OBVIOUS
<1>l. lost = {new[i] : i \in (Len(full) - Len(r) + 1)..n}
  OBVIOUS
<1> HIDE DEF new, full, lost
<1>4. /\ full \in Seq(Nat) /\ Len(full) \in Len(r)..TxCap /\ Len(full) <= Len(r) + n
      /\ \A i \in 1..Len(r) : full[i] = r[i]
      /\ \A i \in 1..Len(full) : i > Len(r) => i - Len(r) \in 1..n /\ full[i] = new[i - Len(r)]
  BY <1>2, <1>3, <1>f, PutFits
<1>5. Len(full) \in Nat /\ Len(full) <= TxCap
  BY <1>2, <1>4, LenProperties, ZephyrAssumption
<1>6. \A i \in (Len(full) - Len(r) + 1)..n : i \in 1..n
  BY <1>2, <1>4, <1>5
<1>7. lost \in SUBSET Nat
  <2>1. \A i \in (Len(full) - Len(r) + 1)..n : new[i] \in Nat
    BY <1>2, <1>3, <1>6
  <2> QED
    BY <1>l, <2>1
<1>8. \A j \in 1..Len(full) : j > Len(r) =>
        full[j] = m + (j - Len(r)) /\ full[j] > m /\ full[j] <= m + n
  <2> TAKE j \in 1..Len(full)
  <2> HAVE j > Len(r)
  <2>1. j - Len(r) \in 1..n /\ full[j] = new[j - Len(r)]
    BY <1>4
  <2>2. full[j] = m + (j - Len(r))
    BY <1>3, <2>1
  <2> QED
    BY <1>2, <1>5, <2>1, <2>2
<1>9. ASSUME NEW i \in 1..Len(full), NEW j \in 1..Len(full), i > Len(r), i < j
      PROVE  full[i] < full[j]
  <2>1. full[i] = m + (i - Len(r)) /\ full[j] = m + (j - Len(r))
    BY <1>2, <1>5, <1>8, <1>9
  <2> QED
    BY <1>2, <1>9, <2>1
<1>10. ASSUME NEW x \in (m + 1)..(m + n) PROVE x \in g \union lost \/ In(x, full)
  <2>1. PICK i \in 1..n : x = m + i
    <3>1. x - m \in 1..n /\ x = m + (x - m)
      BY <1>2
    <3> QED
      BY <3>1
  <2>2. CASE i > Len(full) - Len(r)
    <3>1. i \in (Len(full) - Len(r) + 1)..n
      BY <1>2, <1>5, <2>2
    <3> QED
      BY <1>3, <1>l, <2>1, <3>1
  <2>3. CASE i <= Len(full) - Len(r)
    <3>1. Len(r) + i \in 1..Len(full) /\ Len(r) + i > Len(r)
          /\ (Len(r) + i) - Len(r) = i
      BY <1>2, <1>5, <2>3
    <3>2. full[Len(r) + i] = m + i
      BY <1>8, <3>1
    <3> QED
      BY <2>1, <3>1, <3>2 DEF In
  <2>4. i > Len(full) - Len(r) \/ i <= Len(full) - Len(r)
    BY <1>2, <1>5
  <2> QED
    BY <2>2, <2>3, <2>4
<1>11. Begins(r, full)
  BY <1>2, <1>4, <1>5 DEF Begins
<1>12. m <= m + n /\ g \subseteq g \union lost
  BY <1>2
<1>13. Queue(s, full, k, m + n, g \union lost)
  BY <1>2, <1>4, <1>8, <1>9, <1>10, <1>11, <1>12, QueuePut
<1> QED
  BY <1>1, <1>5, <1>7, <1>11, <1>13

\* A push: hal_link_write, ble_data_notify.
LEMMA RingsPushed ==
  ASSUME RingsInv, NEW q \in Pipes, NEW n \in 1..2, Push(q, n), UNCHANGED <<at, drainVars>>
  PROVE  RingsInv'
<1> DEFINE full == Filled(rb[q], made[q], n)
           lost == Lost(rb[q], made[q], n)
<1>1. /\ rb' = [rb EXCEPT ![q] = full] /\ made' = [made EXCEPT ![q] = @ + n]
      /\ gone' = [gone EXCEPT ![q] = @ \union lost]
  BY DEF Push, Filled, Lost, New
<1>2. /\ made[q] \in Nat /\ gone[q] \in SUBSET Nat /\ Len(rb[q]) <= TxCap
      /\ made[q] + n \in Nat /\ Queue(sent[q], rb[q], Taken(q), made[q], gone[q])
  BY DEF RingsInv
<1>12. /\ Queue(sent[q], full, Taken(q), made[q] + n, gone[q] \union lost)
       /\ Begins(rb[q], full) /\ Len(full) <= TxCap /\ lost \in SUBSET Nat
  BY <1>2, PushQueues
<1> HIDE DEF full, lost
<1>4. full \in Seq(Nat) /\ Len(full) \in Nat
  BY <1>12, LenProperties DEF Queue
<1>5. Len(rb[q]) \in Nat /\ Len(rb[q]) <= Len(full) /\ \A i \in 1..Len(rb[q]) : full[i] = rb[q][i]
  BY <1>2, <1>12, QueueLengths DEF Begins
<1>13. /\ UNCHANGED <<sent, pipe, tmp>> /\ \A p \in Pipes : Taken(p)' = Taken(p)
  BY DEF drainVars, Taken
<1>14. /\ rb'[q] = full /\ made'[q] = made[q] + n /\ gone'[q] = gone[q] \union lost
       /\ \A p \in Pipes \ {q} : rb'[p] = rb[p] /\ made'[p] = made[p] /\ gone'[p] = gone[p]
  BY <1>1 DEF RingsInv
<1>15. /\ rb' \in [Pipes -> Seq(Nat)] /\ made' \in [Pipes -> Nat]
       /\ gone' \in [Pipes -> SUBSET Nat]
  BY <1>1, <1>2, <1>4, <1>12 DEF RingsInv
<1>16. \A p \in Pipes : Len(rb'[p]) <= TxCap
  BY <1>12, <1>14 DEF RingsInv
<1>17. \A p \in Pipes : Queue(sent'[p], rb'[p], Taken(p)', made'[p], gone'[p])
  <2> TAKE p \in Pipes
  <2>1. CASE p = q
    BY <1>12, <1>13, <1>14, <2>1
  <2>2. CASE p # q
    BY <1>13, <1>14, <2>2 DEF RingsInv
  <2> QED
    BY <2>1, <2>2
<1>18. at'["main"] \in {"notify", "get"} => Begins(tmp', rb'[pipe'])
  <2> SUFFICES ASSUME at["main"] \in {"notify", "get"} PROVE Begins(tmp, rb'[pipe])
    BY <1>13
  <2>1. Begins(tmp, rb[pipe])
    BY DEF RingsInv
  <2>2. CASE pipe = q
    <3>1. /\ Len(tmp) <= Len(rb[q]) /\ tmp \in Seq(Nat) /\ Len(tmp) \in Nat
          /\ \A i \in 1..Len(tmp) : tmp[i] = rb[q][i]
      BY <2>1, <2>2, LenProperties DEF Begins
    <3>2. Len(tmp) <= Len(full) /\ \A i \in 1..Len(tmp) : i \in 1..Len(rb[q])
      BY <1>4, <1>5, <3>1
    <3> QED
      BY <1>5, <1>14, <2>2, <3>1, <3>2 DEF Begins
  <2>3. CASE pipe # q
    BY <1>14, <2>1, <2>3 DEF RingsInv
  <2> QED
    BY <2>2, <2>3
<1> QED
  BY <1>13, <1>15, <1>16, <1>17, <1>18 DEF RingsInv

\* The first bytes of a ring and what follows them.
LEMMA Splits ==
  ASSUME NEW r \in Seq(Nat), NEW n \in 0..Len(r)
  PROVE  /\ Begins(First(r), r)
         /\ Rest(r, n) \in Seq(Nat) /\ Len(Rest(r, n)) = Len(r) - n
         /\ \A i \in 1..Len(Rest(r, n)) : Rest(r, n)[i] = r[n + i]
<1> DEFINE c == IF Len(r) < Chunk THEN Len(r) ELSE Chunk
<1>1. Len(r) \in Nat /\ c \in 0..Len(r)
  BY LenProperties, ZephyrAssumption
<1>2. /\ SubSeq(r, 1, c) \in Seq(Nat) /\ Len(SubSeq(r, 1, c)) = c
      /\ \A i \in 1..c : SubSeq(r, 1, c)[i] = r[i]
  <2> HIDE DEF c
  <2> QED
    BY <1>1, SubSeqProperties
<1>3. Begins(First(r), r)
  BY <1>1, <1>2 DEF Begins, First
<1>4. /\ SubSeq(r, n + 1, Len(r)) \in Seq(Nat) /\ Len(SubSeq(r, n + 1, Len(r))) = Len(r) - n
      /\ \A i \in 1..(Len(r) - n) : SubSeq(r, n + 1, Len(r))[i] = r[n + i]
  <2> DEFINE rest == SubSeq(r, n + 1, Len(r))
  <2>1. n + 1 \in Int /\ Len(r) \in Int /\ \A i \in (n + 1)..Len(r) : r[i] \in Nat
    BY <1>1, ElementOfSeq
  <2>2. /\ rest \in Seq(Nat)
        /\ Len(rest) = IF n + 1 <= Len(r) THEN Len(r) - (n + 1) + 1 ELSE 0
        /\ \A i \in 1..(Len(r) - (n + 1) + 1) : rest[i] = r[(n + 1) + i - 1]
    BY <2>1, SubSeqProperties
  <2> HIDE DEF rest
  <2>3. Len(rest) = Len(r) - n /\ Len(r) - (n + 1) + 1 = Len(r) - n
    BY <1>1, <2>2
  <2>4. \A i \in 1..(Len(r) - n) : (n + 1) + i - 1 = n + i
    BY <1>1
  <2> QED
    BY <2>2, <2>3, <2>4 DEF rest
<1> QED
  BY <1>1, <1>3, <1>4 DEF Rest

\* The drain sends what it peeked, and takes it out when it has been sent.
LEMMA RingsDrained ==
  ASSUME MutexInv, RingsInv, Drain \/ Notify
  PROVE  RingsInv'
<1>a. /\ at \in [Threads -> Places] /\ "main" \in Threads /\ "data" \in Pipes /\ made' = made
      /\ pipe \in Pipes /\ tmp \in Seq(Nat) /\ rb[pipe] \in Seq(Nat) /\ sent[pipe] \in Seq(Nat)
  BY DEF MutexInv, RingsInv, Threads, Pipes, Drain, DrainBegin, DrainPeek, Notify, NotifyFails,
         DrainGet, DrainSame
<1>b. ASSUME NextPipe
      PROVE  at'["main"] \in {"begin", "idle"} /\ pipe' = "data" /\ \A q \in Pipes : Taken(q)' = 0
  BY <1>a, <1>b DEF NextPipe, Goes, Taken
<1>c. \A p \in Pipes : at["main"] # "get" \/ p # pipe =>
        Taken(p) = 0 /\ Queue(sent[p], rb[p], 0, made[p], gone[p])
  BY DEF RingsInv, Taken
<1>1. CASE DrainBegin /\ (~conn \/ sub[pipe])
  <2>1. /\ UNCHANGED <<rb, sent, made, gone, tmp>> /\ at["main"] = "begin"
        /\ at'["main"] \in {"peek", "begin", "idle"} /\ pipe' \in Pipes
    BY <1>1, <1>a, <1>b DEF DrainBegin, Goes
  <2> QED
    BY <2>1, RingsSame
<1>2. CASE DrainBegin /\ conn /\ ~sub[pipe]
  <2> DEFINE all == {rb[pipe][i] : i \in DOMAIN rb[pipe]}
  <2>1. /\ NextPipe /\ at["main"] = "begin" /\ UNCHANGED <<sent, tmp>>
        /\ rb' = [rb EXCEPT ![pipe] = <<>>] /\ gone' = [gone EXCEPT ![pipe] = @ \union all]
    BY <1>2 DEF DrainBegin
  <2>2. DOMAIN rb[pipe] = 1..Len(rb[pipe]) /\ \A i \in 1..Len(rb[pipe]) : rb[pipe][i] \in Nat
    BY <1>a, LenProperties, ElementOfSeq
  <2>3. all \in SUBSET Nat /\ \A i \in 1..Len(rb[pipe]) : rb[pipe][i] \in all
    BY <2>2
  <2> HIDE DEF all
  <2>4. Queue(sent[pipe], <<>>, 0, made[pipe], gone[pipe] \union all)
    <3>1. Queue(sent[pipe], rb[pipe], 0, made[pipe], gone[pipe])
      BY <1>a, <1>c, <2>1
    <3>2. gone[pipe] \subseteq gone[pipe] \union all
          /\ \A j \in 1..Len(rb[pipe]) : rb[pipe][j] \in gone[pipe] \union all
      BY <2>3
    <3> QED
      BY <3>1, <3>2, QueueClears
  <2>5. /\ <<>> \in Seq(Nat) /\ Len(<<>>) = 0 /\ TxCap \in Nat
    BY EmptySeq, ZephyrAssumption
  <2>6. /\ rb' \in [Pipes -> Seq(Nat)] /\ gone' \in [Pipes -> SUBSET Nat]
        /\ rb'[pipe] = <<>> /\ gone'[pipe] = gone[pipe] \union all
        /\ \A p \in Pipes : p # pipe => rb'[p] = rb[p] /\ gone'[p] = gone[p]
    BY <1>a, <2>1, <2>3, <2>5 DEF RingsInv
  <2>7. ASSUME NEW p \in Pipes PROVE Len(rb'[p]) <= TxCap
    <3>1. CASE p = pipe
      <4>1. Len(rb'[p]) = 0
        BY <2>5, <2>6, <3>1, Zenon
      <4> QED
        BY <2>5, <4>1
    <3>2. CASE p # pipe
      BY <2>6, <3>2 DEF RingsInv
    <3> QED
      BY <3>1, <3>2
  <2>8. \A p \in Pipes : Queue(sent'[p], rb'[p], Taken(p)', made'[p], gone'[p])
    <3> TAKE p \in Pipes
    <3>1. CASE p = pipe
      BY <1>a, <1>b, <2>1, <2>4, <2>6, <3>1
    <3>2. CASE p # pipe
      BY <1>a, <1>b, <1>c, <2>1, <2>6, <3>2
    <3> QED
      BY <3>1, <3>2
  <2> QED
    BY <1>a, <1>b, <2>1, <2>6, <2>7, <2>8 DEF RingsInv
<1>3. CASE DrainPeek
  <2>1. /\ at["main"] = "peek" /\ tmp' = First(rb[pipe]) /\ UNCHANGED <<rb, sent, gone>>
        /\ pipe' \in Pipes
        /\ \/ at'["main"] \in {"begin", "idle"}
           \/ at'["main"] = "notify" /\ pipe' = pipe
    BY <1>3, <1>a, <1>b DEF DrainPeek, Goes
  <2>2. Begins(tmp', rb[pipe])
    <3>1. 0 \in 0..Len(rb[pipe])
      BY <1>a, LenProperties
    <3> QED
      BY <1>a, <2>1, <3>1, Splits
  <2>3. tmp' \in Seq(Nat)
    BY <2>2 DEF Begins
  <2>4. \A p \in Pipes : Taken(p)' = 0 /\ Queue(sent'[p], rb'[p], 0, made'[p], gone'[p])
    BY <1>a, <1>c, <2>1 DEF Taken
  <2>5. at'["main"] \in {"notify", "get"} => Begins(tmp', rb'[pipe'])
    BY <2>1, <2>2
  <2> QED
    BY <1>a, <2>1, <2>3, <2>4, <2>5 DEF RingsInv
<1>4. CASE Notify
  <2>1. /\ at["main"] = "notify" /\ at'["main"] = "get" /\ UNCHANGED <<pipe, tmp, rb, gone>>
        /\ sent' = [sent EXCEPT ![pipe] = @ \o tmp]
    BY <1>4, <1>a DEF Notify, Goes
  <2>2. Begins(tmp, rb[pipe])
    BY <2>1 DEF RingsInv
  <2>3. Queue(sent[pipe] \o tmp, rb[pipe], Len(tmp), made[pipe], gone[pipe])
    BY <1>a, <1>c, <2>1, <2>2, QueueSends
  <2>4. /\ sent' \in [Pipes -> Seq(Nat)] /\ sent'[pipe] = sent[pipe] \o tmp
        /\ \A p \in Pipes : p # pipe => sent'[p] = sent[p]
    <3>1. sent[pipe] \o tmp \in Seq(Nat)
      BY <1>a, ConcatProperties
    <3> QED
      BY <1>a, <2>1, <3>1 DEF RingsInv
  <2>5. \A p \in Pipes : Queue(sent'[p], rb'[p], Taken(p)', made'[p], gone'[p])
    <3> TAKE p \in Pipes
    <3>1. CASE p = pipe
      <4>1. Taken(p)' = Len(tmp)
        BY <2>1, <3>1 DEF Taken
      <4> QED
        BY <1>a, <2>1, <2>3, <2>4, <3>1, <4>1
    <3>2. CASE p # pipe
      <4>1. Taken(p)' = 0
        BY <2>1, <3>2 DEF Taken
      <4> QED
        BY <1>a, <1>c, <2>1, <2>4, <3>2, <4>1
    <3> QED
      BY <3>1, <3>2
  <2> QED
    BY <1>a, <2>1, <2>2, <2>4, <2>5 DEF RingsInv
<1>5. CASE NotifyFails
  <2>1. /\ at["main"] = "notify" /\ NextPipe /\ UNCHANGED <<rb, sent, gone, tmp>>
    BY <1>5 DEF NotifyFails
  <2>2. \A p \in Pipes : Queue(sent'[p], rb'[p], Taken(p)', made'[p], gone'[p])
    BY <1>a, <1>b, <1>c, <2>1
  <2> QED
    BY <1>a, <1>b, <2>1, <2>2 DEF RingsInv
<1>6. CASE DrainGet
  <2> DEFINE n    == Len(tmp)
             rest == Rest(rb[pipe], Len(tmp))
  <2>1. /\ at["main"] = "get" /\ at'["main"] = "peek" /\ UNCHANGED <<pipe, tmp, sent, gone>>
        /\ rb' = [rb EXCEPT ![pipe] = rest]
    BY <1>6, <1>a DEF DrainGet, Goes
  <2>2. /\ Queue(sent[pipe], rb[pipe], n, made[pipe], gone[pipe])
        /\ n \in 0..Len(rb[pipe]) /\ Len(rb[pipe]) \in Nat /\ Len(rb[pipe]) <= TxCap
    <3>1. Taken(pipe) = n /\ Queue(sent[pipe], rb[pipe], Taken(pipe), made[pipe], gone[pipe])
      BY <1>a, <2>1 DEF Taken, RingsInv
    <3>2. Len(rb[pipe]) <= TxCap
      BY <1>a DEF RingsInv
    <3> QED
      BY <3>1, <3>2, QueueLengths
  <2>3. /\ rest \in Seq(Nat) /\ Len(rest) = Len(rb[pipe]) - n
        /\ \A i \in 1..Len(rest) : rest[i] = rb[pipe][n + i]
    BY <1>a, <2>2, Splits
  <2> HIDE DEF n, rest
  <2>4. Queue(sent[pipe], rest, 0, made[pipe], gone[pipe])
    BY <2>2, <2>3, QueueTakes
  <2>5. Len(rest) <= TxCap
    BY <2>2, <2>3, ZephyrAssumption
  <2>6. /\ rb' \in [Pipes -> Seq(Nat)] /\ rb'[pipe] = rest
        /\ \A p \in Pipes : p # pipe => rb'[p] = rb[p]
    BY <1>a, <2>1, <2>3 DEF RingsInv
  <2>7. \A p \in Pipes : Len(rb'[p]) <= TxCap
    BY <2>5, <2>6 DEF RingsInv
  <2>8. \A p \in Pipes : Queue(sent'[p], rb'[p], Taken(p)', made'[p], gone'[p])
    <3> TAKE p \in Pipes
    <3>1. Taken(p)' = 0
      BY <2>1 DEF Taken
    <3>2. CASE p = pipe
      BY <1>a, <2>1, <2>4, <2>6, <3>1, <3>2
    <3>3. CASE p # pipe
      BY <1>a, <1>c, <2>1, <2>6, <3>1, <3>3
    <3> QED
      BY <3>2, <3>3
  <2> QED
    BY <1>a, <2>1, <2>6, <2>7, <2>8 DEF RingsInv
<1> QED
  BY <1>1, <1>2, <1>3, <1>4, <1>5, <1>6 DEF Drain

\* No step of a thread breaks the order of a ring.
LEMMA RingsKeep == MutexInv /\ RingsInv /\ [Next]_vars => RingsInv'
<1> SUFFICES ASSUME MutexInv, RingsInv, [Next]_vars PROVE RingsInv'
  OBVIOUS
<1>a. at \in [Threads -> Places] /\ "main" \in Threads
  BY DEF MutexInv, Threads
<1>b. pipe \in Pipes /\ "cmd" \in Pipes
  BY DEF RingsInv, Pipes
<1>1. CASE MainWakes
  BY <1>1, <1>a, <1>b, RingsSame DEF MainWakes, Goes, bleVars, ringVars, drainVars
<1>2. ASSUME NEW t \in Threads, Lock(t) PROVE RingsInv'
  BY <1>2, <1>a, <1>b, RingsSame DEF Lock, Goes, bleVars, ringVars, drainVars
<1>3. ASSUME NEW t \in Threads, Unlock(t) PROVE RingsInv'
  <2>1. UNCHANGED <<rb, sent, made, gone, tmp>> /\ at[t] = "core" /\ pipe' \in Pipes
    BY <1>3, <1>b DEF Unlock, ringVars
  <2>2. \/ at' = [at EXCEPT ![t] = After(t)]
        \/ \E u \in Threads : at[u] = "lock" /\ at' = [at EXCEPT ![t] = After(t), ![u] = "core"]
    BY <1>3 DEF Unlock, Goes
  <2>3. CASE t = "main"
    <3>1. After(t) \in {"begin", "idle"}
      BY <2>3, AfterPlaces
    <3>2. at["main"] = "core" /\ at'["main"] \in {"begin", "idle"}
      BY <1>a, <2>1, <2>2, <2>3, <3>1
    <3> QED
      BY <2>1, <3>2, RingsSame
  <2>4. CASE t # "main"
    <3>1. pipe' = pipe
      BY <1>3, <2>4 DEF Unlock
    <3>2. \/ at'["main"] = at["main"]
          \/ at["main"] = "lock" /\ at'["main"] = "core"
      BY <1>a, <2>2, <2>4
    <3> QED
      BY <1>b, <2>1, <3>1, <3>2, RingsSame
  <2> QED
    BY <2>3, <2>4
<1>4. ASSUME NEW n \in 1..2, Isr(n) PROVE RingsInv'
  BY <1>4, RingsSame DEF Isr, UsbSame, bleVars, ringVars, drainVars
<1>5. CASE CmdWakes \/ CmdGet \/ SniffWakes \/ Dispatch
  <2>1. UNCHANGED <<rb, sent, made, gone, tmp, pipe>>
    BY <1>5 DEF CmdWakes, CmdGet, SniffWakes, Dispatch, UsbSame, bleVars, ringVars, drainVars
  <2>2. at'["main"] = at["main"]
    BY <1>5, <1>a DEF CmdWakes, CmdGet, SniffWakes, Dispatch, Goes
  <2> QED
    BY <2>1, <2>2, RingsSame
<1>6. ASSUME NEW t \in Threads, SendData(t) \/ Write(t) PROVE RingsInv'
  <2>1. UNCHANGED <<rb, sent, made, gone, tmp, pipe>>
    BY <1>6 DEF SendData, Write, UsbSame, bleVars, ringVars, drainVars
  <2>2. at[t] \in {"core", "open", "close"} /\ \E p \in {"core", "open", "close"} :
          at' = [at EXCEPT ![t] = p]
    BY <1>6 DEF SendData, Write, Goes
  <2> QED
    BY <1>a, <1>b, <2>1, <2>2, RingsSame
<1>7. CASE Connected \/ Disconnected \/ \E q \in Pipes : \E on \in BOOLEAN : Subscribe(q, on)
  BY <1>7, RingsSame DEF Connected, Disconnected, Subscribe, ringVars, drainVars
<1>8. ASSUME NEW q \in Pipes, NEW t \in {"main", "cmd"}, Emit(t, q) PROVE RingsInv'
  <2>1. PICK n \in 1..2 : Push(q, n)
    BY <1>8 DEF Emit
  <2> QED
    BY <1>8, <2>1, RingsPushed DEF Emit
<1>9. CASE CmdWrite
  BY <1>9, <1>a, RingsSame DEF CmdWrite, Goes, bleVars, ringVars, drainVars
<1>10. CASE Drain \/ Notify
  BY <1>10, RingsDrained
<1>11. CASE UNCHANGED vars
  BY <1>11, RingsSame DEF vars, coreVars, bleVars, ringVars, drainVars
<1> QED
  BY <1>1, <1>2, <1>3, <1>4, <1>5, <1>6, <1>7, <1>8, <1>9, <1>10, <1>11
  DEF Next, Usb, Ble

\* All three hold when the threads start.
LEMMA ZephyrStarts == Init => MutexInv /\ FrameInv /\ RingsInv
<1> SUFFICES ASSUME Init PROVE MutexInv /\ FrameInv /\ RingsInv
  OBVIOUS
<1>1. <<>> \in Seq(Nat) /\ Len(<<>>) = 0 /\ TxCap \in Nat
  BY EmptySeq, ZephyrAssumption
<1>2. MutexInv
  BY DEF Init, MutexInv, Places, Threads
<1>3. FrameInv
  BY DEF Init, FrameInv
<1>4. "main" \in Threads /\ at["main"] = "idle" /\ "cmd" \in Pipes
  BY DEF Init, Threads, Pipes
<1>5. \A q \in Pipes : /\ sent[q] = <<>> /\ rb[q] = <<>> /\ Taken(q) = 0 /\ made[q] = 0
                       /\ gone[q] = {}
  BY <1>4 DEF Init, Taken
<1>6. Queue(<<>>, <<>>, 0, 0, {})
  BY <1>1 DEF Queue, Rises, In
<1>7. /\ rb \in [Pipes -> Seq(Nat)] /\ sent \in [Pipes -> Seq(Nat)]
      /\ made \in [Pipes -> Nat] /\ gone \in [Pipes -> SUBSET Nat]
      /\ pipe \in Pipes /\ tmp \in Seq(Nat)
  BY <1>1, <1>4 DEF Init
<1>8. \A q \in Pipes : Queue(sent[q], rb[q], Taken(q), made[q], gone[q])
  BY <1>5, <1>6, Zenon
<1>9. \A q \in Pipes : Len(rb[q]) <= TxCap
  <2>1. 0 <= TxCap
    BY <1>1
  <2> QED
    BY <1>1, <1>5, <2>1, Zenon
<1> QED
  BY <1>2, <1>3, <1>4, <1>7, <1>8, <1>9 DEF RingsInv

\* A mutex and two rings are enough for the threads of main.c: over USB every frame
\* leaves whole, over BLE every byte once and in order.
THEOREM ZephyrExact == LinkSpec => [](FramesWhole /\ NotifiedOnce)
<1> DEFINE Inv == MutexInv /\ FrameInv /\ RingsInv
<1>1. LinkInit => Inv
  BY ZephyrStarts DEF LinkInit
<1>2. Inv /\ [LinkNext]_linkVars => Inv'
  <2>1. [LinkNext]_linkVars => [Next]_vars
    BY DEF LinkNext, OnZephyr, OnArduino, linkVars
  <2> QED
    BY <2>1, MutexKeeps, FrameKeeps, RingsKeep
<1>3. Inv => FramesWhole /\ NotifiedOnce
  <2> SUFFICES ASSUME Inv PROVE FramesWhole /\ NotifiedOnce
    OBVIOUS
  <2>1. FramesWhole
    <3>1. wire = <<[frame |-> scratch, is |-> "open"]>> \/ wire = <<>>
      BY DEF FrameInv
    <3> QED
      BY <3>1 DEF FramesWhole
  <2>2. ASSUME NEW q \in Pipes
        PROVE  /\ \A i, j \in DOMAIN sent[q] : i < j => sent[q][i] < sent[q][j]
               /\ sent[q] # <<>> => \A n \in 1..sent[q][Len(sent[q])] :
                    n \in gone[q] \/ \E i \in DOMAIN sent[q] : sent[q][i] = n
    <3>1. Queue(sent[q], rb[q], Taken(q), made[q], gone[q])
      BY DEF RingsInv
    <3> QED
      BY <3>1, QueueOrder
  <2>3. NotifiedOnce
    BY <2>2 DEF NotifiedOnce
  <2> QED
    BY <2>1, <2>3
<1> QED
  BY <1>1, <1>2, <1>3, PTL DEF LinkSpec

-----------------------------------------------------------------------------
(* The Arduino build: the indices of a ring                                *)

Slots == Arduino!Slots

\* How many slots lie between tail and head, and the k-th slot from the tail.
Used(h, t) == IF h >= t THEN h - t ELSE h + N - t
Nth(t, k)  == IF t + k < N THEN t + k ELSE t + k - N

\* What the slots of a ring are.
LEMMA RingSize == N \in Nat /\ N > 1 /\ Chunk \in Nat \ {0} /\ Slots = 0..N-1
  BY BleConstants DEF Arduino!BleAssumption, Slots, Arduino!Slots

\* The remainder is a wrap at the end of the ring.
LEMMA Wrap ==
  ASSUME NEW n \in 0..(2 * N - 1)
  PROVE  n % N = IF n < N THEN n ELSE n - N
<1> USE RingSize
<1>1. CASE n < N
  BY <1>1
<1>2. CASE n >= N
  BY <1>2
<1> QED
  BY <1>1, <1>2

\* The index n slots on.
LEMMA AfterNth ==
  ASSUME NEW i \in Slots, NEW k \in 0..N
  PROVE  Arduino!After(i, k) = Nth(i, k) /\ Nth(i, k) \in Slots
<1> USE RingSize
<1>1. PICK n \in 0..(2 * N - 1) : n = i + k
  OBVIOUS
<1>2. n % N = IF n < N THEN n ELSE n - N
  BY Wrap
<1>3. Nth(i, k) = (IF n < N THEN n ELSE n - N) /\ Nth(i, k) \in Slots
  BY <1>1 DEF Nth
<1>4. Arduino!After(i, k) = n % N
  BY <1>1 DEF Arduino!After
<1> QED
  BY <1>2, <1>3, <1>4

\* The length that the code computes is the number of slots in use.
LEMMA LengthUsed ==
  ASSUME NEW q, head[q] \in Slots, tail[q] \in Slots
  PROVE  Arduino!Length(q) = Used(head[q], tail[q]) /\ Used(head[q], tail[q]) \in 0..N-1
<1> USE RingSize
<1>1. PICK n \in 0..(2 * N - 1) : n = head[q] + N - tail[q]
  OBVIOUS
<1>2. n % N = IF n < N THEN n ELSE n - N
  BY Wrap
<1>3. /\ Used(head[q], tail[q]) = (IF n < N THEN n ELSE n - N)
      /\ Used(head[q], tail[q]) \in 0..N-1
  BY <1>1 DEF Used
<1>4. Arduino!Length(q) = n % N
  BY <1>1 DEF Arduino!Length
<1> QED
  BY <1>2, <1>3, <1>4

\* Moving the head takes the slot at the head into use, which is none of those in use.
LEMMA HeadMoves ==
  ASSUME NEW h \in Slots, NEW t \in Slots
  PROVE  /\ Nth(h, 1) \in Slots /\ Used(h, t) \in 0..N-1
         /\ Nth(t, Used(h, t)) = h
         /\ \A k \in 0..Used(h, t)-1 : Nth(t, k) \in Slots /\ Nth(t, k) # h
         /\ Nth(h, 1) # t => Used(Nth(h, 1), t) = Used(h, t) + 1
         /\ Nth(h, 1) # t <=> Used(h, t) < N - 1
         /\ Used(h, h) = 0 /\ Nth(h, 1) # h
  BY RingSize DEF Used, Nth

\* Moving the tail gives the first slots back.
LEMMA TailMoves ==
  ASSUME NEW h \in Slots, NEW t \in Slots, NEW n \in 0..Used(h, t)
  PROVE  /\ Nth(t, n) \in Slots
         /\ Used(h, Nth(t, n)) = Used(h, t) - n
         /\ \A k \in 0..Used(h, t)-n : Nth(Nth(t, n), k) = Nth(t, n + k)
  BY RingSize DEF Used, Nth

-----------------------------------------------------------------------------
(* The Arduino build: two rings that two tasks share without a lock        *)

Rings == {"cmd", "data"}
Tasks == {"loop", "bt"}
None  == [ring |-> "none"]

BleType ==
  /\ buf \in [Rings -> [Slots -> Nat]]
  /\ head \in [Rings -> Slots] /\ tail \in [Rings -> Slots]
  /\ push \in [Tasks -> [ring : Rings, next : Slots] \union {None}]
  /\ btmp \in Seq(Nat) /\ bmade \in [Rings -> Nat]
  /\ bsent \in [Rings -> Seq(Nat)] /\ bgone \in [Rings -> SUBSET Nat]

\* The bytes between tail and head.
Between(b, h, t) == [i \in 1..Used(h, t) |-> b[Nth(t, i - 1)]]
Contents(q)      == Between(buf[q], head[q], tail[q])

Pushes(t, q) == push[t].ring = q

\* The bytes given to a ring, without the one whose push has not moved the head.
Settled(q) == IF \E t \in Tasks : Pushes(t, q) THEN bmade[q] - 1 ELSE bmade[q]

\* What has been notified, or lost, and not yet freed.
Unfreed(q) == IF loop = <<"free", q>> THEN Len(btmp) ELSE 0

\* A ring used as it is meant to be is a queue: one task at most is in a push to it,
\* for which there is room, and the drain holds its first bytes.
RingInv(q) ==
  /\ Queue(bsent[q], Contents(q), Unfreed(q), Settled(q), bgone[q])
  /\ \A t, u \in Tasks : Pushes(t, q) /\ Pushes(u, q) => t = u
  /\ \A t \in Tasks : Pushes(t, q) =>
       /\ push[t].next = Nth(head[q], 1) /\ push[t].next # tail[q]
       /\ buf[q][head[q]] = bmade[q]
  /\ Arduino!Drains(q) => Begins(btmp, Contents(q))

BleInv == BleType /\ \A q \in Rings : Arduino!Undisturbed(q) => RingInv(q)

\* The places of the loop are told apart.
LEMMA LoopPlaces ==
  ASSUME NEW p, NEW q, NEW a \in {"copy", "over"}
  PROVE  /\ <<"poll">> # <<"notify", q>> /\ <<"poll">> # <<"free", q>>
         /\ <<a, p>> # <<"notify", q>> /\ <<a, p>> # <<"free", q>>
         /\ <<"notify", p>> # <<"free", q>>
         /\ <<"notify", p>> = <<"notify", q>> <=> p = q
         /\ <<"free", p>> = <<"free", q>> <=> p = q
<1>1. Len(<<"poll">>) = 1 /\ Len(<<"notify", q>>) = 2 /\ Len(<<"free", q>>) = 2
  OBVIOUS
<1>2. <<"poll">> # <<"notify", q>> /\ <<"poll">> # <<"free", q>>
  BY <1>1
<1> QED
  BY <1>2

\* What a ring holds is a sequence.
LEMMA RingHolds ==
  ASSUME NEW b \in [Slots -> Nat], NEW h \in Slots, NEW t \in Slots
  PROVE  /\ Used(h, t) \in 0..N-1
         /\ Between(b, h, t) \in Seq(Nat) /\ Len(Between(b, h, t)) = Used(h, t)
         /\ \A i \in 1..Used(h, t) : Between(b, h, t)[i] = b[Nth(t, i - 1)]
<1> DEFINE n == Used(h, t)
<1>1. n \in 0..N-1 /\ \A k \in 0..n-1 : Nth(t, k) \in Slots
  BY HeadMoves
<1>2. n \in Nat
  BY <1>1, RingSize
<1>3. \A i \in 1..n : b[Nth(t, i - 1)] \in Nat
  <2> TAKE i \in 1..n
  <2>1. i - 1 \in 0..n-1
    BY <1>2
  <2> QED
    BY <1>1, <2>1
<1>4. Between(b, h, t) = [i \in 1..n |-> b[Nth(t, i - 1)]]
  BY DEF Between
<1> HIDE DEF n
<1>5. Between(b, h, t) \in Seq(Nat) /\ Len(Between(b, h, t)) = n
  BY <1>2, <1>3, <1>4
<1> QED
  BY <1>1, <1>4, <1>5 DEF n

\* The parts of a ring, and its bytes.
LEMMA RingParts ==
  ASSUME BleType, NEW q \in Rings
  PROVE  /\ head[q] \in Slots /\ tail[q] \in Slots /\ bmade[q] \in Nat
         /\ bsent[q] \in Seq(Nat) /\ bgone[q] \in SUBSET Nat /\ buf[q] \in [Slots -> Nat]
         /\ Used(head[q], tail[q]) \in 0..N-1
         /\ Contents(q) \in Seq(Nat) /\ Len(Contents(q)) = Used(head[q], tail[q])
         /\ \A i \in 1..Len(Contents(q)) : Contents(q)[i] = buf[q][Nth(tail[q], i - 1)]
<1>1. /\ head[q] \in Slots /\ tail[q] \in Slots /\ buf[q] \in [Slots -> Nat]
      /\ bmade[q] \in Nat /\ bsent[q] \in Seq(Nat) /\ bgone[q] \in SUBSET Nat
  BY DEF BleType
<1>2. PICK b \in [Slots -> Nat], h \in Slots, t \in Slots :
        b = buf[q] /\ h = head[q] /\ t = tail[q]
  BY <1>1
<1>3. /\ Used(h, t) \in 0..N-1
      /\ Between(b, h, t) \in Seq(Nat) /\ Len(Between(b, h, t)) = Used(h, t)
      /\ \A i \in 1..Used(h, t) : Between(b, h, t)[i] = b[Nth(t, i - 1)]
  BY RingHolds
<1>4. Contents(q) = Between(b, h, t)
  BY <1>2 DEF Contents
<1> QED
  BY <1>1, <1>2, <1>3, <1>4

\* A ring that a step leaves alone.
LEMMA RingSame ==
  ASSUME NEW q \in Rings, RingInv(q),
         buf'[q] = buf[q], head'[q] = head[q], tail'[q] = tail[q],
         bmade'[q] = bmade[q], bsent'[q] = bsent[q], bgone'[q] = bgone[q],
         \A t \in Tasks : \/ push'[t] = push[t]
                          \/ ~Pushes(t, q) /\ ~Pushes(t, q)',
         \/ UNCHANGED <<loop, btmp>>
         \/ ~Arduino!Drains(q) /\ ~Arduino!Drains(q)'
  PROVE  RingInv(q)'
<1>1. Contents(q)' = Contents(q)
  BY DEF Contents
<1>2. \A t \in Tasks : Pushes(t, q)' <=> Pushes(t, q)
  BY DEF Pushes
<1>3. Settled(q)' = Settled(q)
  BY <1>2 DEF Settled
<1>4. Unfreed(q)' = Unfreed(q)
  BY DEF Unfreed, Arduino!Drains
<1>5. Queue(bsent[q], Contents(q), Unfreed(q), Settled(q), bgone[q])'
  BY <1>1, <1>3, <1>4 DEF RingInv
<1>6. Arduino!Drains(q)' => Begins(btmp, Contents(q))'
  <2>1. CASE UNCHANGED <<loop, btmp>>
    BY <1>1, <2>1 DEF RingInv, Arduino!Drains
  <2> QED
    BY <2>1
<1>7. \A t \in Tasks : Pushes(t, q)' =>
        /\ push'[t].next = Nth(head'[q], 1) /\ push'[t].next # tail'[q]
        /\ buf'[q][head'[q]] = bmade'[q]
  BY <1>2 DEF RingInv, Pushes
<1>8. \A t, u \in Tasks : Pushes(t, q)' /\ Pushes(u, q)' => t = u
  BY <1>2 DEF RingInv
<1> QED
  BY <1>5, <1>6, <1>7, <1>8 DEF RingInv

\* A push begins: the byte is dropped, or stored where the head is.
LEMMA BlePushBegin ==
  ASSUME BleInv, NEW t \in Tasks, NEW p \in Rings, Arduino!PushBegin(t, p)
  PROVE  BleInv'
<1> DEFINE h == head[p]
           m == bmade[p]
<1>0. /\ push[t] = None /\ bmade' = [bmade EXCEPT ![p] = m + 1]
      /\ UNCHANGED <<head, tail, loop, btmp, bsent, raced>>
      /\ shared' = (shared \/ \E u \in Tasks \ {t} : Pushes(u, p))
  BY DEF Arduino!PushBegin, Arduino!None, None, Arduino!Tasks, Tasks, Pushes
<1>1. /\ BleType /\ h \in Slots /\ tail[p] \in Slots /\ m \in Nat /\ bgone[p] \in SUBSET Nat
      /\ buf[p] \in [Slots -> Nat] /\ Used(h, tail[p]) \in 0..N-1
      /\ Contents(p) \in Seq(Nat) /\ Len(Contents(p)) = Used(h, tail[p])
      /\ \A i \in 1..Len(Contents(p)) : Contents(p)[i] = buf[p][Nth(tail[p], i - 1)]
  BY RingParts DEF BleInv
<1>2. Arduino!Full(p) <=> Nth(h, 1) = tail[p]
  <2>1. 1 \in 0..N
    BY RingSize
  <2>2. Arduino!After(h, 1) = Nth(h, 1)
    BY <1>1, <2>1, AfterNth
  <2> QED
    BY <2>2 DEF Arduino!Full
<1>3. \A u \in Tasks, q \in Rings : push[u] = None => ~Pushes(u, q)
  BY DEF None, Pushes, Rings
<1>4. \A q \in Rings : Arduino!Undisturbed(q)' => Arduino!Undisturbed(q)
  BY <1>0 DEF Arduino!Undisturbed
<1>5. Arduino!Undisturbed(p)' => \A u \in Tasks : ~Pushes(u, p)
  BY <1>0, <1>3 DEF Arduino!Undisturbed
<1> HIDE DEF h, m
<1>6. CASE Arduino!Full(p)
  <2>1. /\ bgone' = [bgone EXCEPT ![p] = @ \union {m + 1}] /\ UNCHANGED <<buf, push>>
    BY <1>6 DEF Arduino!PushBegin, m
  <2>2. BleType'
    BY <1>0, <1>1, <2>1 DEF BleType
  <2>3. ASSUME NEW q \in Rings, Arduino!Undisturbed(q)' PROVE RingInv(q)'
    <3>1. RingInv(q)
      BY <1>4, <2>3 DEF BleInv
    <3>2. CASE q # p
      <4>1. bmade'[q] = bmade[q] /\ bgone'[q] = bgone[q]
        BY <1>0, <1>1, <2>1, <3>2 DEF BleType
      <4> QED
        BY <1>0, <2>1, <3>1, <4>1, RingSame
    <3>3. CASE q = p
      <4>1. /\ \A u \in Tasks : ~Pushes(u, p) /\ ~Pushes(u, p)'
        BY <1>5, <2>1, <2>3, <3>3 DEF Pushes
      <4>2. bmade'[p] = m + 1 /\ bgone'[p] = bgone[p] \union {m + 1}
        BY <1>0, <1>1, <2>1 DEF BleType
      <4>3. Settled(p) = m /\ Settled(p)' = m + 1
        BY <4>1, <4>2 DEF Settled, m
      <4>4. Contents(p)' = Contents(p) /\ Unfreed(p)' = Unfreed(p)
        BY <1>0, <2>1 DEF Contents, Unfreed
      <4>5. Queue(bsent[p], Contents(p), Unfreed(p), m, bgone[p])
        BY <3>1, <3>3, <4>3 DEF RingInv
      <4>6. Queue(bsent[p], Contents(p), Unfreed(p), m + 1, bgone[p] \union {m + 1})
        <5>1. Begins(Contents(p), Contents(p)) /\ m + 1 \in Nat /\ m <= m + 1
          BY <1>1, LenProperties DEF Begins
        <5>2. \A n \in (m + 1)..(m + 1) : n \in bgone[p] \union {m + 1}
          BY <1>1
        <5>3. Len(Contents(p)) \in Nat /\ \A j \in 1..Len(Contents(p)) : ~(j > Len(Contents(p)))
          BY <1>1, LenProperties
        <5> QED
          BY <1>1, <4>5, <5>1, <5>2, <5>3, QueuePut
      <4>7. Queue(bsent[p], Contents(p), Unfreed(p), Settled(p), bgone[p])'
        BY <1>0, <4>2, <4>3, <4>4, <4>6
      <4>8. Arduino!Drains(p)' => Begins(btmp, Contents(p))'
        BY <1>0, <3>1, <3>3, <4>4 DEF RingInv, Arduino!Drains
      <4> QED
        BY <3>3, <4>1, <4>7, <4>8 DEF RingInv
    <3> QED
      BY <3>2, <3>3
  <2> QED
    BY <2>2, <2>3 DEF BleInv
<1>7. CASE ~Arduino!Full(p)
  <2>1. /\ buf' = [buf EXCEPT ![p][h] = m + 1]
        /\ push' = [push EXCEPT ![t] = [ring |-> p, next |-> Nth(h, 1)]]
        /\ bgone' = bgone
    <3>1. Arduino!After(h, 1) = Nth(h, 1)
      <4>1. 1 \in 0..N
        BY RingSize
      <4> QED
        BY <1>1, <4>1, AfterNth
    <3> QED
      BY <1>7, <3>1 DEF Arduino!PushBegin, h, m
  <2>h. Nth(h, 1) \in Slots /\ \A k \in 0..Used(h, tail[p])-1 : Nth(tail[p], k) # h
    BY <1>1, HeadMoves
  <2>2. BleType'
    <3>1. buf' \in [Rings -> [Slots -> Nat]]
      BY <1>1, <2>1 DEF BleType
    <3>2. push' \in [Tasks -> [ring : Rings, next : Slots] \union {None}]
      BY <1>1, <2>1, <2>h DEF BleType
    <3>3. bmade' \in [Rings -> Nat]
      BY <1>0, <1>1 DEF BleType
    <3> QED
      BY <1>0, <1>1, <2>1, <3>1, <3>2, <3>3 DEF BleType
  <2>p. /\ push'[t] = [ring |-> p, next |-> Nth(h, 1)]
        /\ \A u \in Tasks : u # t => push'[u] = push[u]
    BY <1>1, <2>1 DEF BleType
  <2>3. ASSUME NEW q \in Rings, Arduino!Undisturbed(q)' PROVE RingInv(q)'
    <3>1. RingInv(q)
      BY <1>4, <2>3 DEF BleInv
    <3>2. CASE q # p
      <4>1. bmade'[q] = bmade[q] /\ buf'[q] = buf[q]
        BY <1>0, <1>1, <2>1, <3>2 DEF BleType
      <4>2. ~Pushes(t, q) /\ ~Pushes(t, q)'
        BY <1>0, <1>3, <2>p, <3>2 DEF Pushes
      <4> QED
        BY <1>0, <2>1, <2>p, <3>1, <4>1, <4>2, RingSame
    <3>3. CASE q = p
      <4>1. /\ \A u \in Tasks : ~Pushes(u, p)
            /\ Pushes(t, p)' /\ \A u \in Tasks : Pushes(u, p)' => u = t
        BY <1>5, <2>p, <2>3, <3>3 DEF Pushes
      <4>2. bmade'[p] = m + 1 /\ buf'[p] = [buf[p] EXCEPT ![h] = m + 1]
        BY <1>0, <1>1, <2>1 DEF BleType
      <4>3. Settled(p) = m /\ Settled(p)' = m
        <5>1. Settled(p)' = bmade'[p] - 1
          BY <4>1 DEF Settled
        <5>2. Settled(p) = m
          BY <4>1 DEF Settled, m
        <5> QED
          BY <1>1, <4>2, <5>1, <5>2
      <4>4. Contents(p)' = Contents(p)
        <5> DEFINE n == Used(h, tail[p])
        <5>1. \A i \in 1..n : buf'[p][Nth(tail[p], i - 1)] = buf[p][Nth(tail[p], i - 1)]
          <6> TAKE i \in 1..n
          <6>1. i - 1 \in 0..n-1
            BY <1>1, RingSize
          <6>2. Nth(tail[p], i - 1) # h
            BY <2>h, <6>1
          <6> QED
            BY <1>1, <4>2, <6>2
        <5>2. /\ Contents(p) = [i \in 1..n |-> buf[p][Nth(tail[p], i - 1)]]
              /\ Contents(p)' = [i \in 1..n |-> buf'[p][Nth(tail[p], i - 1)]]
          BY <1>0 DEF Contents, Between, h
        <5> QED
          BY <5>1, <5>2
      <4>5. Unfreed(p)' = Unfreed(p)
        BY <1>0 DEF Unfreed
      <4>6. Queue(bsent[p], Contents(p), Unfreed(p), Settled(p), bgone[p])'
        BY <1>0, <2>1, <3>1, <3>3, <4>3, <4>4, <4>5 DEF RingInv
      <4>7. Arduino!Drains(p)' => Begins(btmp, Contents(p))'
        BY <1>0, <3>1, <3>3, <4>4 DEF RingInv, Arduino!Drains
      <4>8. /\ push'[t].next = Nth(head'[p], 1) /\ push'[t].next # tail'[p]
            /\ buf'[p][head'[p]] = bmade'[p]
        BY <1>0, <1>1, <1>2, <1>7, <2>p, <4>2 DEF h
      <4> QED
        BY <3>3, <4>1, <4>6, <4>7, <4>8 DEF RingInv
    <3> QED
      BY <3>2, <3>3
  <2> QED
    BY <2>2, <2>3 DEF BleInv
<1> QED
  BY <1>6, <1>7

\* A push ends: the head moves past the byte, which is now in the queue.
LEMMA BlePushEnd ==
  ASSUME BleInv, NEW t \in Tasks, Arduino!PushEnd(t)
  PROVE  BleInv'
<1> DEFINE p == push[t].ring
<1>0. /\ push[t] # None /\ head' = [head EXCEPT ![p] = push[t].next]
      /\ push' = [push EXCEPT ![t] = None]
      /\ UNCHANGED <<buf, tail, loop, btmp, bmade, bsent, bgone, raced, shared>>
  BY DEF Arduino!PushEnd, Arduino!None, None
<1>1. /\ BleType /\ p \in Rings /\ push[t].next \in Slots
      /\ push'[t] = None /\ \A u \in Tasks : u # t => push'[u] = push[u]
  BY <1>0 DEF BleInv, BleType
<1>2. BleType'
  BY <1>0, <1>1 DEF BleType
<1>3. \A q \in Rings : ~Pushes(t, q)'
  BY <1>1 DEF Pushes, None, Rings
<1>4. ASSUME NEW q \in Rings, Arduino!Undisturbed(q)' PROVE RingInv(q)'
  <2>1. RingInv(q)
    BY <1>0, <1>4 DEF BleInv, Arduino!Undisturbed
  <2>2. CASE q # p
    <3>1. head'[q] = head[q] /\ ~Pushes(t, q)
      BY <1>0, <1>1, <2>2 DEF BleType, Pushes
    <3> QED
      BY <1>0, <1>1, <1>3, <2>1, <3>1, RingSame
  <2>3. CASE q = p
    <3> DEFINE h == head[q]
               k == Used(head[q], tail[q])
               c == Contents(q)
    <3>1. /\ Pushes(t, q) /\ \A u \in Tasks : Pushes(u, q) => u = t
          /\ push[t].next = Nth(h, 1) /\ Nth(h, 1) # tail[q] /\ buf[q][h] = bmade[q]
      BY <2>1, <2>3 DEF RingInv, Pushes
    <3>2. \A u \in Tasks : ~Pushes(u, q)'
      BY <1>1, <1>3, <3>1 DEF Pushes
    <3>3. Settled(q) = bmade[q] - 1 /\ Settled(q)' = bmade[q]
      BY <1>0, <3>1, <3>2 DEF Settled
    <3>4. /\ h \in Slots /\ tail[q] \in Slots /\ bmade[q] \in Nat /\ buf[q] \in [Slots -> Nat]
          /\ c \in Seq(Nat) /\ Len(c) = k /\ k \in 0..N-1
          /\ \A i \in 1..Len(c) : c[i] = buf[q][Nth(tail[q], i - 1)]
      BY <1>1, RingParts
    <3>5. head'[q] = Nth(h, 1)
      BY <1>0, <1>1, <2>3, <3>1 DEF BleType
    <3>6. Used(Nth(h, 1), tail[q]) = k + 1 /\ Nth(tail[q], k) = h
      BY <3>1, <3>4, HeadMoves
    <3>7. /\ Contents(q)' \in Seq(Nat) /\ Len(Contents(q)') = k + 1
          /\ \A i \in 1..k : Contents(q)'[i] = c[i]
          /\ Contents(q)'[k + 1] = bmade[q]
      <4>1. /\ Contents(q)' \in Seq(Nat) /\ Len(Contents(q)') = Used(head'[q], tail'[q])
            /\ \A i \in 1..Len(Contents(q)') :
                 Contents(q)'[i] = buf'[q][Nth(tail'[q], i - 1)]
        <5>1. buf'[q] \in [Slots -> Nat] /\ head'[q] \in Slots /\ tail'[q] \in Slots
          BY <1>2 DEF BleType
        <5>2. PICK b \in [Slots -> Nat], y \in Slots, x \in Slots :
                b = buf'[q] /\ y = head'[q] /\ x = tail'[q]
          BY <5>1
        <5>3. /\ Between(b, y, x) \in Seq(Nat) /\ Len(Between(b, y, x)) = Used(y, x)
              /\ \A i \in 1..Used(y, x) : Between(b, y, x)[i] = b[Nth(x, i - 1)]
          BY RingHolds
        <5>4. Contents(q)' = Between(b, y, x)
          BY <5>2 DEF Contents
        <5> QED
          BY <5>2, <5>3, <5>4
      <4>2. /\ Len(Contents(q)') = k + 1
            /\ \A i \in 1..(k + 1) : Contents(q)'[i] = buf[q][Nth(tail[q], i - 1)]
        BY <1>0, <3>5, <3>6, <4>1
      <4>3. /\ \A i \in 1..k : i \in 1..(k + 1)
            /\ k \in Nat /\ k + 1 \in 1..(k + 1) /\ k + 1 - 1 = k
        BY <3>4, RingSize
      <4>4. \A i \in 1..k : Contents(q)'[i] = c[i]
        BY <3>4, <4>2, <4>3
      <4>5. Contents(q)'[k + 1] = buf[q][Nth(tail[q], k)]
        <5>1. PICK n \in 1..(k + 1) : n = k + 1 /\ n - 1 = k
          BY <4>3
        <5>2. Contents(q)'[n] = buf[q][Nth(tail[q], n - 1)]
          BY <4>2
        <5> QED
          BY <5>1, <5>2
      <4> QED
        BY <3>1, <3>6, <4>1, <4>2, <4>4, <4>5
    <3>8. Queue(bsent[q], c, Unfreed(q), bmade[q] - 1, bgone[q])
      BY <2>1, <3>3 DEF RingInv
    <3> DEFINE d == Contents(q)'
    <3>9. d \in Seq(Nat) /\ Len(d) = k + 1 /\ \A i \in 1..k : d[i] = c[i]
      BY <3>7
    <3>10. d[k + 1] = bmade[q] /\ k \in Nat /\ Len(c) = k
      BY <3>4, <3>7, RingSize
    <3> HIDE DEF c, d, k
    <3>11. /\ Begins(c, d) /\ bmade[q] - 1 <= bmade[q]
           /\ \A j \in 1..Len(d) : j > Len(c) => j = k + 1
      BY <3>4, <3>9, <3>10 DEF Begins
    <3>12. /\ \A j \in 1..Len(d) : j > Len(c) => d[j] > bmade[q] - 1 /\ d[j] <= bmade[q]
           /\ \A i, j \in 1..Len(d) : i > Len(c) /\ i < j => d[i] < d[j]
      BY <3>4, <3>9, <3>10, <3>11
    <3>13. \A n \in (bmade[q] - 1 + 1)..bmade[q] : In(n, d)
      <4>1. k + 1 \in 1..Len(d)
        BY <3>9, <3>10
      <4> QED
        BY <3>4, <3>10, <4>1 DEF In
    <3>14. Queue(bsent[q], d, Unfreed(q), bmade[q], bgone[q])
      BY <3>4, <3>8, <3>9, <3>11, <3>12, <3>13, QueuePut
    <3>15. Queue(bsent[q], Contents(q), Unfreed(q), Settled(q), bgone[q])'
      <4>1. Unfreed(q)' = Unfreed(q)
        BY <1>0 DEF Unfreed
      <4> QED
        BY <1>0, <3>3, <3>14, <4>1 DEF d
    <3>16. Arduino!Drains(q)' => Begins(btmp, Contents(q))'
      <4> SUFFICES ASSUME Arduino!Drains(q) PROVE Begins(btmp, d)
        BY <1>0 DEF Arduino!Drains, d
      <4>1. Begins(btmp, c)
        BY <2>1 DEF RingInv, c
      <4>2. btmp \in Seq(Nat) /\ Len(btmp) <= Len(c) /\ Len(btmp) \in Nat
            /\ \A i \in 1..Len(btmp) : btmp[i] = c[i]
        BY <4>1, LenProperties DEF Begins
      <4>3. Len(btmp) <= Len(d) /\ \A i \in 1..Len(btmp) : i \in 1..k
        BY <3>9, <3>10, <4>2
      <4> QED
        BY <3>9, <4>2, <4>3 DEF Begins
    <3> QED
      BY <3>2, <3>15, <3>16 DEF RingInv
  <2> QED
    BY <2>2, <2>3
<1> QED
  BY <1>2, <1>4 DEF BleInv

\* A disconnect empties both rings, and is not in the middle of a drain of those
\* that stay undisturbed.
LEMMA BleReset ==
  ASSUME BleInv, Arduino!Reset
  PROVE  BleInv'
<1>0. /\ tail' = head /\ bgone' = [q \in Rings |-> bgone[q] \union Arduino!Waiting(q)]
      /\ raced' = raced \union {q \in Rings : Arduino!Drains(q)}
      /\ UNCHANGED <<buf, head, loop, push, btmp, bmade, bsent, shared>>
  BY DEF Arduino!Reset, Arduino!BtSame, Arduino!Rings, Rings
<1>1. BleType
  BY DEF BleInv
<1>2. ASSUME NEW q \in Rings
      PROVE  /\ Arduino!Waiting(q) \in SUBSET Nat
             /\ \A j \in 1..Len(Contents(q)) : Contents(q)[j] \in Arduino!Waiting(q)
  <2>1. /\ head[q] \in Slots /\ tail[q] \in Slots /\ buf[q] \in [Slots -> Nat]
        /\ Used(head[q], tail[q]) \in 0..N-1
        /\ Len(Contents(q)) = Used(head[q], tail[q])
        /\ \A i \in 1..Len(Contents(q)) : Contents(q)[i] = buf[q][Nth(tail[q], i - 1)]
    BY <1>1, RingParts
  <2> DEFINE n == Used(head[q], tail[q])
  <2>2. Arduino!Length(q) = n
    BY <2>1, LengthUsed
  <2>3. \A k \in 0..n-1 : Arduino!After(tail[q], k) = Nth(tail[q], k) /\ Nth(tail[q], k) \in Slots
    <3>1. \A k \in 0..n-1 : k \in 0..N
      BY <2>1, RingSize
    <3> QED
      BY <2>1, <3>1, AfterNth
  <2>4. Arduino!Waiting(q) = {buf[q][Nth(tail[q], k)] : k \in 0..n-1}
    BY <2>2, <2>3 DEF Arduino!Waiting
  <2>5. Arduino!Waiting(q) \in SUBSET Nat
    BY <2>1, <2>3, <2>4
  <2>6. \A j \in 1..n : j - 1 \in 0..n-1
    BY <2>1, RingSize
  <2> QED
    BY <2>1, <2>4, <2>5, <2>6
<1>3. BleType'
  BY <1>0, <1>1, <1>2 DEF BleType
<1>4. ASSUME NEW q \in Rings, Arduino!Undisturbed(q)' PROVE RingInv(q)'
  <2>1. RingInv(q) /\ ~Arduino!Drains(q)
    BY <1>0, <1>4 DEF BleInv, Arduino!Undisturbed
  <2>2. ~Arduino!Drains(q)' /\ Unfreed(q) = 0 /\ Unfreed(q)' = 0
    BY <1>0, <2>1 DEF Arduino!Drains, Unfreed
  <2>3. Settled(q)' = Settled(q) /\ \A t \in Tasks : Pushes(t, q)' <=> Pushes(t, q)
    BY <1>0 DEF Settled, Pushes
  <2>4. head[q] \in Slots /\ bgone'[q] = bgone[q] \union Arduino!Waiting(q) /\ tail'[q] = head[q]
    BY <1>0, <1>1 DEF BleType
  <2>5. Contents(q)' = <<>>
    <3>1. Used(head[q], head[q]) = 0
      BY <2>4, HeadMoves
    <3>2. Len(Contents(q)') = Used(head'[q], tail'[q]) /\ Contents(q)' \in Seq(Nat)
      <4>1. buf'[q] \in [Slots -> Nat] /\ head'[q] \in Slots /\ tail'[q] \in Slots
        BY <1>3 DEF BleType
      <4> QED
        BY <4>1, RingHolds DEF Contents
    <3> QED
      BY <1>0, <2>4, <3>1, <3>2, EmptySeq
  <2>6. Queue(bsent[q], <<>>, 0, Settled(q), bgone[q] \union Arduino!Waiting(q))
    <3>1. Queue(bsent[q], Contents(q), 0, Settled(q), bgone[q])
      BY <2>1, <2>2 DEF RingInv
    <3>2. /\ bgone[q] \subseteq bgone[q] \union Arduino!Waiting(q)
          /\ \A j \in 1..Len(Contents(q)) : Contents(q)[j] \in bgone[q] \union Arduino!Waiting(q)
      BY <1>2
    <3> QED
      BY <3>1, <3>2, QueueClears
  <2>7. Queue(bsent[q], Contents(q), Unfreed(q), Settled(q), bgone[q])'
    BY <1>0, <2>2, <2>3, <2>4, <2>5, <2>6
  <2>8. \A t \in Tasks : Pushes(t, q)' =>
          /\ push'[t].next = Nth(head'[q], 1) /\ push'[t].next # tail'[q]
          /\ buf'[q][head'[q]] = bmade'[q]
    <3>1. Nth(head[q], 1) # head[q]
      BY <2>4, HeadMoves
    <3> QED
      BY <1>0, <2>1, <2>3, <2>4, <3>1 DEF RingInv
  <2> QED
    BY <2>1, <2>2, <2>3, <2>7, <2>8 DEF RingInv
<1> QED
  BY <1>3, <1>4 DEF BleInv

\* A step of the loop that moves no byte.
LEMMA BleQuiet ==
  ASSUME BleInv, UNCHANGED <<buf, head, tail, push, bmade, bsent, bgone, raced, shared>>,
         btmp' \in Seq(Nat),
         \A q \in Rings : \/ UNCHANGED <<loop, btmp>>
                          \/ ~Arduino!Drains(q) /\ ~Arduino!Drains(q)'
  PROVE  BleInv'
<1>1. BleType'
  BY DEF BleInv, BleType
<1>2. ASSUME NEW q \in Rings, Arduino!Undisturbed(q)' PROVE RingInv(q)'
  <2>1. RingInv(q)
    BY <1>2 DEF BleInv, Arduino!Undisturbed
  <2> QED
    BY <2>1, RingSame
<1> QED
  BY <1>1, <1>2 DEF BleInv

\* The drain copies the first bytes of a ring, ...
LEMMA BleCopy ==
  ASSUME BleInv, NEW p \in Rings, Arduino!DrainCopy(p)
  PROVE  BleInv'
<1>0. /\ loop = <<"copy", p>>
      /\ UNCHANGED <<buf, head, tail, push, bmade, bsent, bgone, raced, shared>>
  BY DEF Arduino!DrainCopy, Arduino!LoopSame
<1>1. \A q \in Rings : ~Arduino!Drains(q)
  BY <1>0, LoopPlaces DEF Arduino!Drains
<1>2. BleType
  BY DEF BleInv
<1>3. CASE ~Arduino!Copies(p)
  <2>1. loop' = <<"over", p>> /\ btmp' = btmp
    BY <1>3 DEF Arduino!DrainCopy
  <2>2. \A q \in Rings : ~Arduino!Drains(q)'
    BY <2>1, LoopPlaces DEF Arduino!Drains
  <2> QED
    BY <1>0, <1>1, <1>2, <2>1, <2>2, BleQuiet DEF BleType
<1>4. CASE Arduino!Copies(p)
  <2> DEFINE l == Used(head[p], tail[p])
             n == IF l < Chunk THEN l ELSE Chunk
  <2>1. loop' = <<"notify", p>> /\ btmp' = Arduino!Copied(p)
    BY <1>4 DEF Arduino!DrainCopy
  <2>2. /\ head[p] \in Slots /\ tail[p] \in Slots /\ l \in 0..N-1
        /\ Contents(p) \in Seq(Nat) /\ Len(Contents(p)) = l
        /\ \A i \in 1..l : Contents(p)[i] = buf[p][Nth(tail[p], i - 1)]
    BY <1>2, RingParts
  <2>3. l \in Nat /\ n \in 0..l /\ n \in Nat /\ Arduino!Length(p) = l
    BY <2>2, LengthUsed, RingSize
  <2>4. \A i \in 1..n : Arduino!After(tail[p], i - 1) = Nth(tail[p], i - 1)
    <3>1. \A i \in 1..n : i - 1 \in 0..N
      BY <2>2, <2>3, RingSize
    <3> QED
      BY <2>2, <3>1, AfterNth
  <2>5. btmp' = [i \in 1..n |-> buf[p][Arduino!After(tail[p], i - 1)]]
    BY <2>1, <2>3 DEF Arduino!Copied
  <2> HIDE DEF n, l
  <2>6. \A i \in 1..n : i \in 1..l /\ btmp'[i] = Contents(p)[i]
    BY <2>2, <2>3, <2>4, <2>5
  <2>7. btmp' \in Seq(Nat) /\ Len(btmp') = n
    <3>1. \A i \in 1..n : buf[p][Arduino!After(tail[p], i - 1)] \in Nat
      <4> TAKE i \in 1..n
      <4>1. Contents(p)[i] \in Nat
        BY <2>2, <2>6, ElementOfSeq
      <4> QED
        BY <2>5, <2>6, <4>1
    <3> QED
      BY <2>3, <2>5, <3>1
  <2>8. Begins(btmp', Contents(p))
    BY <2>2, <2>3, <2>6, <2>7 DEF Begins
  <2>9. BleType'
    BY <1>0, <1>2, <2>7 DEF BleType
  <2>10. ASSUME NEW q \in Rings, Arduino!Undisturbed(q)' PROVE RingInv(q)'
    <3>1. RingInv(q)
      BY <1>0, <2>10 DEF BleInv, Arduino!Undisturbed
    <3>2. CASE q # p
      <4>1. ~Arduino!Drains(q)'
        BY <2>1, <3>2, LoopPlaces DEF Arduino!Drains
      <4> QED
        BY <1>0, <1>1, <3>1, <4>1, RingSame
    <3>3. CASE q = p
      <4>1. /\ Contents(q)' = Contents(q) /\ Settled(q)' = Settled(q)
            /\ \A t \in Tasks : Pushes(t, q)' <=> Pushes(t, q)
        BY <1>0 DEF Contents, Settled, Pushes
      <4>2. Unfreed(q) = 0 /\ Unfreed(q)' = 0
        BY <1>1, <2>1, LoopPlaces DEF Unfreed, Arduino!Drains
      <4>3. Queue(bsent[q], Contents(q), Unfreed(q), Settled(q), bgone[q])'
        BY <1>0, <3>1, <4>1, <4>2 DEF RingInv
      <4>4. Begins(btmp, Contents(q))'
        BY <2>8, <3>3, <4>1
      <4> QED
        BY <1>0, <3>1, <4>1, <4>3, <4>4 DEF RingInv
    <3> QED
      BY <3>2, <3>3
  <2> QED
    BY <2>9, <2>10 DEF BleInv
<1> QED
  BY <1>3, <1>4

\* ... notifies them, or loses them when the central has left, ...
LEMMA BleNotify ==
  ASSUME BleInv, NEW p \in Rings, Arduino!DrainNotify(p)
  PROVE  BleInv'
<1> DEFINE held == {btmp[i] : i \in DOMAIN btmp}
<1>0. /\ loop = <<"notify", p>> /\ loop' = <<"free", p>>
      /\ UNCHANGED <<buf, head, tail, push, bmade, btmp, raced, shared>>
  BY DEF Arduino!DrainNotify, Arduino!LoopSame
<1>1. \/ bsent' = [bsent EXCEPT ![p] = @ \o btmp] /\ bgone' = bgone
      \/ bgone' = [bgone EXCEPT ![p] = @ \union held] /\ bsent' = bsent
  BY DEF Arduino!DrainNotify
<1>2. BleType /\ btmp \in Seq(Nat) /\ bsent[p] \in Seq(Nat) /\ bgone[p] \in SUBSET Nat
  BY DEF BleInv, BleType
<1>3. held \in SUBSET Nat /\ \A i \in 1..Len(btmp) : btmp[i] \in held
  <2>1. DOMAIN btmp = 1..Len(btmp) /\ \A i \in 1..Len(btmp) : btmp[i] \in Nat
    BY <1>2, LenProperties, ElementOfSeq
  <2> QED
    BY <2>1
<1> HIDE DEF held
<1>4. bsent[p] \o btmp \in Seq(Nat)
  BY <1>2, ConcatProperties
<1>5. BleType'
  BY <1>0, <1>1, <1>2, <1>3, <1>4 DEF BleType
<1>6. ASSUME NEW q \in Rings, Arduino!Undisturbed(q)' PROVE RingInv(q)'
  <2>1. RingInv(q)
    BY <1>0, <1>6 DEF BleInv, Arduino!Undisturbed
  <2>2. CASE q # p
    <3>1. ~Arduino!Drains(q) /\ ~Arduino!Drains(q)'
      BY <1>0, <2>2, LoopPlaces DEF Arduino!Drains
    <3>2. bsent'[q] = bsent[q] /\ bgone'[q] = bgone[q]
      BY <1>1, <1>2, <2>2 DEF BleType
    <3> QED
      BY <1>0, <2>1, <3>1, <3>2, RingSame
  <2>3. CASE q = p
    <3>1. /\ Contents(q)' = Contents(q) /\ Settled(q)' = Settled(q)
          /\ \A t \in Tasks : Pushes(t, q)' <=> Pushes(t, q)
      BY <1>0 DEF Contents, Settled, Pushes
    <3>2. Unfreed(q) = 0 /\ Unfreed(q)' = Len(btmp)
      BY <1>0, <2>3, LoopPlaces DEF Unfreed
    <3>3. Begins(btmp, Contents(q))
      BY <1>0, <2>1, <2>3 DEF RingInv, Arduino!Drains
    <3>4. Queue(bsent[q], Contents(q), 0, Settled(q), bgone[q])
      BY <2>1, <3>2 DEF RingInv
    <3>5. Queue(bsent'[q], Contents(q), Len(btmp), Settled(q), bgone'[q])
      <4>1. CASE bsent' = [bsent EXCEPT ![p] = @ \o btmp] /\ bgone' = bgone
        <5>1. bsent'[q] = bsent[q] \o btmp /\ bgone'[q] = bgone[q]
          BY <1>2, <2>3, <4>1 DEF BleType
        <5> QED
          BY <3>3, <3>4, <5>1, QueueSends
      <4>2. CASE bgone' = [bgone EXCEPT ![p] = @ \union held] /\ bsent' = bsent
        <5>1. bsent'[q] = bsent[q] /\ bgone'[q] = bgone[q] \union held
          BY <1>2, <2>3, <4>2 DEF BleType
        <5>2. /\ bgone[q] \subseteq bgone'[q]
              /\ \A i \in 1..Len(btmp) : btmp[i] \in bgone'[q]
          BY <1>3, <5>1
        <5> QED
          BY <3>3, <3>4, <5>1, <5>2, QueueDrops
      <4> QED
        BY <1>1, <4>1, <4>2
    <3>6. Queue(bsent[q], Contents(q), Unfreed(q), Settled(q), bgone[q])'
      BY <3>1, <3>2, <3>5
    <3> QED
      BY <1>0, <2>1, <3>1, <3>3, <3>6 DEF RingInv
  <2> QED
    BY <2>2, <2>3
<1> QED
  BY <1>5, <1>6 DEF BleInv

\* ... and frees their slots.
LEMMA BleFree ==
  ASSUME BleInv, NEW p \in Rings, Arduino!DrainFree(p)
  PROVE  BleInv'
<1>0. /\ loop = <<"free", p>> /\ loop' = <<"copy", p>> /\ btmp' = <<>>
      /\ tail' = [tail EXCEPT ![p] = Arduino!After(@, Len(btmp))]
      /\ UNCHANGED <<buf, head, push, bmade, bsent, bgone, raced, shared>>
  BY DEF Arduino!DrainFree, Arduino!LoopSame, Arduino!Free
<1>1. BleType /\ tail[p] \in Slots /\ head[p] \in Slots /\ btmp \in Seq(Nat) /\ Len(btmp) \in Nat
  BY LenProperties DEF BleInv, BleType
<1>2. Arduino!After(tail[p], Len(btmp)) \in Slots
  BY <1>1, RingSize DEF Arduino!After
<1>3. BleType'
  BY <1>0, <1>1, <1>2, EmptySeq DEF BleType
<1>4. ASSUME NEW q \in Rings, Arduino!Undisturbed(q)' PROVE RingInv(q)'
  <2>1. RingInv(q)
    BY <1>0, <1>4 DEF BleInv, Arduino!Undisturbed
  <2>2. ~Arduino!Drains(q)'
    BY <1>0, LoopPlaces DEF Arduino!Drains
  <2>3. CASE q # p
    <3>1. ~Arduino!Drains(q)
      BY <1>0, <2>3, LoopPlaces DEF Arduino!Drains
    <3>2. tail'[q] = tail[q]
      BY <1>0, <1>1, <2>3 DEF BleType
    <3> QED
      BY <1>0, <2>1, <2>2, <3>1, <3>2, RingSame
  <2>4. CASE q = p
    <3> DEFINE n == Len(btmp)
               l == Used(head[q], tail[q])
               d == Contents(q)'
    <3>1. /\ Contents(q) \in Seq(Nat) /\ Len(Contents(q)) = l /\ l \in 0..N-1
          /\ \A i \in 1..l : Contents(q)[i] = buf[q][Nth(tail[q], i - 1)]
          /\ buf[q] \in [Slots -> Nat]
      BY <1>1, RingParts
    <3>2. n \in 0..l /\ n \in 0..N /\ l \in Nat
      <4>1. Begins(btmp, Contents(q))
        BY <1>0, <2>1, <2>4 DEF RingInv, Arduino!Drains
      <4> QED
        BY <1>1, <3>1, <4>1, RingSize DEF Begins
    <3>3. tail'[q] = Nth(tail[q], n)
      <4>1. Arduino!After(tail[q], n) = Nth(tail[q], n)
        BY <1>1, <2>4, <3>2, AfterNth
      <4> QED
        BY <1>0, <1>1, <2>4, <4>1 DEF BleType
    <3>4. /\ Nth(tail[q], n) \in Slots /\ Used(head[q], Nth(tail[q], n)) = l - n
          /\ \A k \in 0..l-n : Nth(Nth(tail[q], n), k) = Nth(tail[q], n + k)
      BY <1>1, <2>4, <3>2, TailMoves
    <3>5. /\ d \in Seq(Nat) /\ Len(d) = l - n
          /\ \A i \in 1..(l - n) : d[i] = buf[q][Nth(Nth(tail[q], n), i - 1)]
      <4>1. Contents(q)' = Between(buf[q], head[q], Nth(tail[q], n))
        BY <1>0, <3>3 DEF Contents
      <4> HIDE DEF d, l, n
      <4>2. PICK t \in Slots : t = Nth(tail[q], n)
        BY <3>4
      <4>3. PICK c : c = Between(buf[q], head[q], t)
        OBVIOUS
      <4>4. /\ c \in Seq(Nat) /\ Len(c) = Used(head[q], t)
            /\ \A i \in 1..Used(head[q], t) : c[i] = buf[q][Nth(t, i - 1)]
        <5>1. PICK b \in [Slots -> Nat], h \in Slots : b = buf[q] /\ h = head[q]
          BY <1>1, <2>4, <3>1
        <5>2. /\ Between(b, h, t) \in Seq(Nat) /\ Len(Between(b, h, t)) = Used(h, t)
              /\ \A i \in 1..Used(h, t) : Between(b, h, t)[i] = b[Nth(t, i - 1)]
          BY RingHolds
        <5> QED
          BY <4>3, <5>1, <5>2
      <4>5. d = c
        BY <4>1, <4>2, <4>3 DEF d
      <4> QED
        BY <3>4, <4>2, <4>4, <4>5
    <3> HIDE DEF d, l, n
    <3>6. \A i \in 1..(l - n) : d[i] = Contents(q)[n + i]
      <4> TAKE i \in 1..(l - n)
      <4>1. PICK k \in 0..(l - n) : k = i - 1 /\ n + k = (n + i) - 1
        BY <3>2
      <4>2. d[i] = buf[q][Nth(tail[q], n + k)]
        BY <3>4, <3>5, <4>1
      <4>3. PICK j \in 1..l : j = n + i
        BY <3>2
      <4>4. Contents(q)[j] = buf[q][Nth(tail[q], j - 1)]
        BY <3>1
      <4> QED
        BY <4>1, <4>2, <4>3, <4>4
    <3>7. Unfreed(q) = n /\ Unfreed(q)' = 0
      BY <1>0, <2>4, LoopPlaces DEF Unfreed, n
    <3>8. Queue(bsent[q], d, 0, Settled(q), bgone[q])
      <4>1. Queue(bsent[q], Contents(q), n, Settled(q), bgone[q])
        BY <2>1, <3>7 DEF RingInv
      <4>2. /\ d \in Seq(Nat) /\ Len(d) = Len(Contents(q)) - n
            /\ \A i \in 1..Len(d) : d[i] = Contents(q)[n + i]
        BY <3>1, <3>5, <3>6
      <4> QED
        BY <4>1, <4>2, QueueTakes
    <3>9. /\ Settled(q)' = Settled(q)
          /\ \A t \in Tasks : Pushes(t, q)' <=> Pushes(t, q)
      BY <1>0 DEF Settled, Pushes
    <3>10. Queue(bsent[q], Contents(q), Unfreed(q), Settled(q), bgone[q])'
      BY <1>0, <3>7, <3>8, <3>9 DEF d
    <3>11. \A t \in Tasks : Pushes(t, q)' =>
             /\ push'[t].next = Nth(head'[q], 1) /\ push'[t].next # tail'[q]
             /\ buf'[q][head'[q]] = bmade'[q]
      <4> SUFFICES ASSUME NEW t \in Tasks, Pushes(t, q)
                   PROVE  /\ push'[t].next = Nth(head'[q], 1) /\ push'[t].next # tail'[q]
                          /\ buf'[q][head'[q]] = bmade'[q]
        BY <3>9
      <4>1. /\ push[t].next = Nth(head[q], 1) /\ Nth(head[q], 1) # tail[q]
            /\ buf[q][head[q]] = bmade[q]
        BY <2>1 DEF RingInv
      <4>2. l < N - 1
        BY <1>1, <2>4, <4>1, HeadMoves DEF l
      <4>3. l - n < N - 1
        BY <3>1, <3>2, <4>2, RingSize
      <4>4. Nth(head[q], 1) # Nth(tail[q], n)
        BY <1>1, <2>4, <3>4, <4>3, HeadMoves
      <4> QED
        BY <1>0, <3>3, <4>1, <4>4
    <3>12. \A t, u \in Tasks : Pushes(t, q)' /\ Pushes(u, q)' => t = u
      BY <2>1, <3>9 DEF RingInv
    <3> QED
      BY <2>2, <3>10, <3>11, <3>12 DEF RingInv
  <2> QED
    BY <2>3, <2>4
<1> QED
  BY <1>3, <1>4 DEF BleInv

\* Every step of the two tasks keeps the rings as they are meant to be.
LEMMA BleKeeps == BleInv /\ [Arduino!Next]_arduinoVars => BleInv'
<1> SUFFICES ASSUME BleInv, [Arduino!Next]_arduinoVars PROVE BleInv'
  OBVIOUS
<1> USE DEF Arduino!Rings, Rings
<1>0. btmp \in Seq(Nat)
  BY DEF BleInv, BleType
<1>1. CASE Arduino!Poll
  <2>1. Arduino!PushBegin("loop", "data")
    BY <1>1 DEF Arduino!Poll
  <2> QED
    BY <2>1, BlePushBegin DEF Tasks
<1>2. CASE Arduino!Answer \/ Arduino!Wait
  <2>1. Arduino!PushBegin("bt", "cmd") \/ Arduino!PushBegin("bt", "data")
    BY <1>2 DEF Arduino!Answer, Arduino!Wait
  <2> QED
    BY <2>1, BlePushBegin DEF Tasks
<1>3. CASE Arduino!PushEnd("loop") \/ Arduino!PushEnd("bt")
  BY <1>3, BlePushEnd DEF Tasks
<1>4. CASE Arduino!Reset
  BY <1>4, BleReset
<1>5. CASE \E p \in Rings : Arduino!DrainCopy(p) \/ Arduino!DrainNotify(p) \/ Arduino!DrainFree(p)
  BY <1>5, BleCopy, BleNotify, BleFree
<1>6. CASE \/ Arduino!EnterDrain("cmd", <<"poll">>)
           \/ Arduino!EnterDrain("data", <<"over", "cmd">>)
           \/ Arduino!LoopEnd
  <2>1. /\ UNCHANGED <<buf, head, tail, push, bmade, bsent, bgone, raced, shared, btmp>>
    BY <1>6 DEF Arduino!EnterDrain, Arduino!LoopEnd, Arduino!LoopSame
  <2>2. /\ \/ loop = <<"poll">> \/ \E p \in Rings : loop = <<"over", p>>
        /\ \/ loop' = <<"poll">>
           \/ \E p \in Rings : loop' = <<"over", p>> \/ loop' = <<"copy", p>>
    BY <1>6 DEF Arduino!EnterDrain, Arduino!LoopEnd
  <2>3. \A q \in Rings : ~Arduino!Drains(q) /\ ~Arduino!Drains(q)'
    BY <2>2, LoopPlaces DEF Arduino!Drains
  <2> QED
    BY <1>0, <2>1, <2>3, BleQuiet
<1>7. CASE \/ Arduino!OnConnect \/ Arduino!OnDisconnect \/ Arduino!Written
           \/ \E act \in {"answer", "macro"} : Arduino!OnWrite(act)
  <2>1. UNCHANGED <<buf, head, tail, push, bmade, bsent, bgone, raced, shared, loop, btmp>>
    BY <1>7 DEF Arduino!OnConnect, Arduino!OnDisconnect, Arduino!Written, Arduino!OnWrite,
                Arduino!BtSame
  <2> QED
    BY <1>0, <2>1, BleQuiet
<1>8. CASE UNCHANGED arduinoVars
  <2>1. UNCHANGED <<buf, head, tail, push, bmade, bsent, bgone, raced, shared, loop, btmp>>
    BY <1>8 DEF arduinoVars
  <2> QED
    BY <1>0, <2>1, BleQuiet
<1> QED
  BY <1>1, <1>2, <1>3, <1>4, <1>5, <1>6, <1>7, <1>8
  DEF Arduino!Next, Arduino!Drain, Arduino!Callback

\* Both rings begin empty.
LEMMA BleStarts == Arduino!Init => BleInv
<1> SUFFICES ASSUME Arduino!Init PROVE BleInv
  OBVIOUS
<1>1. 0 \in Slots /\ <<>> \in Seq(Nat) /\ Len(<<>>) = 0
  BY RingSize, EmptySeq
<1>2. /\ buf = [q \in Rings |-> [i \in Slots |-> 0]]
      /\ head = [q \in Rings |-> 0] /\ tail = [q \in Rings |-> 0]
      /\ push = [t \in Tasks |-> None] /\ btmp = <<>> /\ loop = <<"poll">>
      /\ bmade = [q \in Rings |-> 0] /\ bsent = [q \in Rings |-> <<>>]
      /\ bgone = [q \in Rings |-> {}]
  BY DEF Arduino!Init, Arduino!Rings, Rings, Arduino!Tasks, Tasks, Arduino!None, None, Slots
<1>3. BleType
  BY <1>1, <1>2 DEF BleType
<1>4. ASSUME NEW q \in Rings PROVE RingInv(q)
  <2>1. ~Arduino!Drains(q) /\ Unfreed(q) = 0
    BY <1>2, LoopPlaces DEF Arduino!Drains, Unfreed
  <2>2. \A t \in Tasks : ~Pushes(t, q)
    BY <1>2 DEF Pushes, None, Rings
  <2>3. Settled(q) = 0 /\ bsent[q] = <<>> /\ bgone[q] = {}
    BY <1>2, <2>2 DEF Settled
  <2>4. Contents(q) = <<>>
    <3>1. Used(head[q], tail[q]) = 0
      BY <1>1, <1>2, HeadMoves
    <3>2. Contents(q) \in Seq(Nat) /\ Len(Contents(q)) = 0
      BY <1>3, <3>1, RingParts
    <3> QED
      BY <3>2, EmptySeq
  <2>5. Queue(<<>>, <<>>, 0, 0, {})
    BY <1>1 DEF Queue, Rises, In
  <2>6. Queue(bsent[q], Contents(q), Unfreed(q), Settled(q), bgone[q])
    BY <2>1, <2>3, <2>4, <2>5, Zenon
  <2> QED
    BY <2>1, <2>2, <2>6 DEF RingInv
<1> QED
  BY <1>3, <1>4 DEF BleInv

\* As long as no reset comes into the middle of a drain and no two tasks push to one
\* ring, the rings of duta_ble.h need no lock: the central gets each byte once and in
\* order.
LEMMA BleExact == LinkSpec => []Arduino!NotifiedOnce
<1>1. LinkInit => BleInv
  BY BleStarts DEF LinkInit
<1>2. BleInv /\ [LinkNext]_linkVars => BleInv'
  <2>1. [LinkNext]_linkVars => [Arduino!Next]_arduinoVars
    BY DEF LinkNext, OnZephyr, OnArduino, linkVars
  <2> QED
    BY <2>1, BleKeeps
<1>3. BleInv => Arduino!NotifiedOnce
  <2> SUFFICES ASSUME BleInv, NEW q \in Rings, Arduino!Undisturbed(q)
               PROVE  /\ \A i, j \in DOMAIN bsent[q] : i < j => bsent[q][i] < bsent[q][j]
                      /\ bsent[q] # <<>> => \A n \in 1..bsent[q][Len(bsent[q])] :
                           n \in bgone[q] \/ \E i \in DOMAIN bsent[q] : bsent[q][i] = n
    BY DEF Arduino!NotifiedOnce, Arduino!Rings, Rings
  <2>1. Queue(bsent[q], Contents(q), Unfreed(q), Settled(q), bgone[q])
    BY DEF BleInv, RingInv
  <2> QED
    BY <2>1, QueueOrder
<1> QED
  BY <1>1, <1>2, <1>3, PTL DEF LinkSpec

\* Whichever of the two transports a device has, what the core writes leaves it as it
\* was written.
THEOREM LinksExact == LinkSpec => []OutputExact
<1>1. FramesWhole /\ NotifiedOnce /\ Arduino!NotifiedOnce => OutputExact
  BY DEF OutputExact
<1> QED
  BY <1>1, ZephyrExact, BleExact, PTL
=============================================================================
