--------------------------- MODULE Sniffers_proofs ----------------------------
(***************************************************************************)
(* Theorems about the sniffers: that the ring of the ESP32 hands every     *)
(* frame over once without a lock, whatever its size, that a pinned        *)
(* channel is the tuned one, and that the unified radio of the nRF52 has   *)
(* one owner and is told to sniff exactly when it does.                    *)
(***************************************************************************)
EXTENDS MCSniffers, SequenceTheorems, TLAPS

-----------------------------------------------------------------------------
(* The indices of the ring                                                 *)

\* How many slots lie between tail and head, and the k-th slot from the tail.
Used(h, t) == IF h >= t THEN h - t ELSE h + Ring - t
Nth(t, k)  == IF t + k < Ring THEN t + k ELSE t + k - Ring

\* The remainder in r_head and r_tail is a wrap at the end of the ring.
LEMMA AfterNext ==
  ASSUME NEW i \in Slots
  PROVE  After(i) = (IF i = Ring - 1 THEN 0 ELSE i + 1)
<1> USE SnifferAssumption DEF Slots, After
<1>1. CASE i = Ring - 1
  <2>1. i + 1 = Ring
    BY <1>1
  <2>2. Ring % Ring = 0
    OBVIOUS
  <2> QED
    BY <1>1, <2>1, <2>2
<1>2. CASE i # Ring - 1
  <2>1. i + 1 \in Nat /\ i + 1 < Ring
    BY <1>2
  <2>2. (i + 1) % Ring = i + 1
    BY <2>1
  <2> QED
    BY <1>2, <2>2
<1> QED
  BY <1>1, <1>2

\* Moving the head takes a slot into use when there is room for one more, and
\* that slot is none of those in use.
LEMMA HeadMoves ==
  ASSUME NEW h \in Slots, NEW t \in Slots
  PROVE  /\ After(h) \in Slots
         /\ Used(h, t) \in 0..Ring-1
         /\ Nth(t, Used(h, t)) = h
         /\ \A k \in 0..Used(h, t)-1 : Nth(t, k) \in Slots /\ Nth(t, k) # h
         /\ After(h) # t => Used(After(h), t) = Used(h, t) + 1
         /\ After(h) = t <=> Used(h, t) = Ring - 1
<1> USE SnifferAssumption DEF Slots, Used, Nth
<1>1. After(h) = (IF h = Ring - 1 THEN 0 ELSE h + 1)
  BY AfterNext
<1> QED
  BY <1>1

\* Moving the tail gives the first slot back and renumbers the others.
LEMMA TailMoves ==
  ASSUME NEW h \in Slots, NEW t \in Slots, t # h
  PROVE  /\ After(t) \in Slots
         /\ Used(h, t) >= 1
         /\ Used(h, After(t)) = Used(h, t) - 1
         /\ Nth(t, 0) = t
         /\ \A k \in 0..Ring-2 : Nth(After(t), k) = Nth(t, k + 1)
<1> USE SnifferAssumption DEF Slots, Used, Nth
<1>1. After(t) = (IF t = Ring - 1 THEN 0 ELSE t + 1)
  BY AfterNext
<1> QED
  BY <1>1

\* Head and tail meet when the ring is empty.
LEMMA EmptyRing ==
  ASSUME NEW h \in Slots, NEW t \in Slots
  PROVE  Used(h, t) = 0 <=> h = t
  BY SnifferAssumption DEF Slots, Used

-----------------------------------------------------------------------------
(* The ring of the ESP32 sniffers                                          *)

Places == {"wait", "free", "feed", "hop", "arm"}

RingType ==
  /\ backend \in {"154", "ble"} /\ filling \in BOOLEAN
  /\ slot \in [Slots -> Nat] /\ head \in Slots /\ tail \in Slots
  /\ consumer \in [at : Places, rec : Nat]
  /\ heard \in Nat /\ kept \in Seq(Nat) /\ given \in Seq(Nat)
  /\ backend = "ble" => ~filling

\* The frames whose slots were given back, and those that r_head has passed.
Freed     == Len(given) + (IF consumer.at = "feed" THEN 1 ELSE 0)
Published == Len(kept) - (IF filling THEN 1 ELSE 0)

\* The slots between tail and head hold, in order, the frames that were kept and
\* not given back; so does the one being filled, for which there is room.  What
\* the consumer copied is the next frame to give.
RingInv ==
  /\ Published = Freed + Used(head, tail)
  /\ filling => After(head) # tail
  /\ \A k \in 0..Len(kept)-Freed-1 : slot[Nth(tail, k)] = kept[Freed + 1 + k]
  /\ consumer.at \in {"free", "feed"} =>
       Len(given) < Len(kept) /\ consumer.rec = kept[Len(given) + 1]
  /\ consumer.at = "free" => tail # head
  /\ \A i \in 1..Len(given) : given[i] = kept[i]

\* The ring begins empty.
LEMMA InitRing == Init => RingType /\ RingInv
<1> SUFFICES ASSUME Init PROVE RingType /\ RingInv
  OBVIOUS
<1> USE SnifferAssumption
<1>1. head \in Slots /\ tail \in Slots /\ slot \in [Slots -> Nat]
  BY DEF Init, Slots
<1>5. consumer \in [at : Places, rec : Nat]
  BY DEF Init, Places
<1>6. kept \in Seq(Nat) /\ given \in Seq(Nat)
  BY DEF Init
<1>4. RingType
  BY <1>1, <1>5, <1>6 DEF Init, RingType
<1>2. Len(kept) = 0 /\ Len(given) = 0 /\ Freed = 0 /\ Published = 0 /\ Used(head, tail) = 0
  BY DEF Init, Freed, Published, Used
<1>3. ~filling /\ consumer.at = "wait"
  BY DEF Init
<1> QED
  BY <1>2, <1>3, <1>4 DEF RingInv

\* Numbers and places of a ring in a state of the right type.
LEMMA RingFacts ==
  ASSUME RingType
  PROVE  /\ Len(given) \in Nat /\ Len(kept) \in Nat
         /\ Freed \in Nat /\ Freed \in {Len(given), Len(given) + 1}
         /\ Used(head, tail) \in 0..Ring-1
         /\ head \in Slots /\ tail \in Slots
<1>1. /\ given \in Seq(Nat) /\ kept \in Seq(Nat) /\ head \in Slots /\ tail \in Slots
  BY DEF RingType
<1>2. Len(given) \in Nat /\ Len(kept) \in Nat
  BY <1>1
<1>3. Used(head, tail) \in 0..Ring-1
  BY <1>1, HeadMoves
<1> QED
  BY <1>1, <1>2, <1>3 DEF Freed

\* The driver stores a frame in the slot at the head; the slots in use, the
\* frames given and the consumer's copy stay as they are.
LEMMA StoreKeeps ==
  ASSUME RingType, RingInv, ~filling, Room,
         slot' = [slot EXCEPT ![head] = heard + 1], kept' = Append(kept, heard + 1),
         tail' = tail, consumer' = consumer, given' = given
  PROVE  /\ slot' \in [Slots -> Nat] /\ kept' \in Seq(Nat)
         /\ Len(kept') = Len(kept) + 1
         /\ Freed' = Freed
         /\ \A i \in 1..Len(kept) : kept'[i] = kept[i]
         /\ \A k \in 0..Len(kept')-Freed-1 : slot'[Nth(tail, k)] = kept'[Freed + 1 + k]
<1> USE SnifferAssumption
<1>1. heard + 1 \in Nat /\ head \in Slots /\ tail \in Slots /\ kept \in Seq(Nat)
      /\ slot \in [Slots -> Nat] /\ Len(kept) \in Nat /\ Len(given) \in Nat
  BY DEF RingType
<1>2. slot' \in [Slots -> Nat] /\ kept' \in Seq(Nat) /\ Len(kept') = Len(kept) + 1
      /\ kept'[Len(kept) + 1] = heard + 1 /\ \A i \in 1..Len(kept) : kept'[i] = kept[i]
  BY <1>1
<1>3. Freed' = Freed /\ Freed \in Nat
  BY RingFacts DEF Freed
<1>0. Used(head, tail) \in 0..Ring-1
  BY RingFacts
<1>4. Len(kept) - Freed = Used(head, tail)
  BY <1>0, <1>1, <1>3 DEF RingInv, Published
<1>5. Used(head, tail) \in 0..Ring-1 /\ Nth(tail, Used(head, tail)) = head
      /\ \A k \in 0..Used(head, tail)-1 : Nth(tail, k) \in Slots /\ Nth(tail, k) # head
  BY <1>1, HeadMoves
<1>6. ASSUME NEW k \in 0..Len(kept')-Freed-1
      PROVE  slot'[Nth(tail, k)] = kept'[Freed + 1 + k]
  <2>1. k = Used(head, tail) \/ k \in 0..Used(head, tail)-1
    BY <1>2, <1>3, <1>4, <1>0
  <2>2. CASE k = Used(head, tail)
    <3>1. slot'[head] = heard + 1
      BY <1>1
    <3> QED
      BY <2>2, <3>1, <1>2, <1>3, <1>4, <1>5
  <2>3. CASE k \in 0..Used(head, tail)-1
    <3>1. slot'[Nth(tail, k)] = slot[Nth(tail, k)]
      BY <1>1, <1>5, <2>3
    <3>2. slot[Nth(tail, k)] = kept[Freed + 1 + k]
      BY <1>4, <2>3 DEF RingInv
    <3>3. Freed + 1 + k \in 1..Len(kept)
      BY <1>3, <1>4, <1>5, <2>3
    <3> QED
      BY <3>1, <3>2, <3>3, <1>2
  <2> QED
    BY <2>1, <2>2, <2>3
<1> QED
  BY <1>2, <1>3, <1>6

\* A step that neither stores, publishes, takes nor gives leaves the ring as it
\* is; the consumer may begin or end a hop meanwhile.
LEMMA RingUntouched ==
  ASSUME RingType, RingInv,
         UNCHANGED <<backend, slot, head, tail, filling, kept, given>>, heard' \in Nat,
         \/ consumer' = consumer
         \/ /\ consumer.at \in {"wait", "hop", "arm"} /\ consumer' \in [at : Places, rec : Nat]
            /\ consumer'.at \in {"wait", "hop", "arm"}
  PROVE  RingType' /\ RingInv'
<1>1. RingType'
  BY DEF RingType
<1>2. Freed' = Freed /\ Published' = Published /\ Used(head, tail)' = Used(head, tail)
  BY DEF Freed, Published, Used
<1>3. After(head)' = After(head)
  BY DEF After
<1>4. \A k : Nth(tail, k)' = Nth(tail, k)
  BY DEF Nth
<1>5. (consumer.at \in {"free", "feed"})' =>
         consumer.at \in {"free", "feed"} /\ consumer' = consumer
  OBVIOUS
<1> QED
  BY <1>1, <1>2, <1>3, <1>4, <1>5 DEF RingInv

\* The callback of the 802.15.4 driver fills a slot that is not published yet.
LEMMA CaptureKeeps ==
  ASSUME RingType, RingInv, Capture
  PROVE  RingType' /\ RingInv'
<1>1. CASE ~Room
  <2>1. UNCHANGED <<backend, slot, head, tail, filling, kept, given, consumer>> /\ heard' = heard + 1
    BY <1>1 DEF Capture
  <2>2. heard' \in Nat
    BY <2>1 DEF RingType
  <2> QED
    BY <2>1, <2>2, RingUntouched
<1>2. CASE Room
  <2>0. Room /\ ~filling /\ filling' = TRUE /\ backend = "154" /\ backend' = backend
        /\ slot' = [slot EXCEPT ![head] = heard + 1] /\ kept' = Append(kept, heard + 1)
        /\ heard' = heard + 1 /\ head' = head /\ tail' = tail /\ consumer' = consumer
        /\ given' = given
    BY <1>2 DEF Capture
  <2>1. /\ slot' \in [Slots -> Nat] /\ kept' \in Seq(Nat) /\ Len(kept') = Len(kept) + 1
        /\ Freed' = Freed /\ \A i \in 1..Len(kept) : kept'[i] = kept[i]
        /\ \A k \in 0..Len(kept')-Freed-1 : slot'[Nth(tail, k)] = kept'[Freed + 1 + k]
    BY <2>0, StoreKeeps
  <2>2. Published' = Published /\ Used(head, tail)' = Used(head, tail)
    BY <2>0, <2>1 DEF Published, Used, RingType
  <2>3. After(head') # tail'
    BY <2>0 DEF Room
  <2>4. \A k \in 0..Len(kept')-Freed'-1 : slot'[Nth(tail', k)] = kept'[Freed' + 1 + k]
    BY <2>0, <2>1
  <2>5. RingType'
    BY <2>0, <2>1 DEF RingType
  <2>6. Len(given) <= Len(kept)
    BY <2>0, RingFacts DEF RingInv, Published
  <2>7. \A i \in 1..Len(given') : given'[i] = kept'[i]
    BY <2>0, <2>1, <2>6, RingFacts DEF RingInv
  <2>8. consumer'.at \in {"free", "feed"} =>
           Len(given') < Len(kept') /\ consumer'.rec = kept'[Len(given') + 1]
    BY <2>0, <2>1, RingFacts DEF RingInv
  <2>9. Published' = Freed' + Used(head, tail)' /\ (consumer'.at = "free" => tail' # head')
    BY <2>0, <2>1, <2>2 DEF RingInv
  <2> QED
    BY <2>3, <2>4, <2>5, <2>7, <2>8, <2>9 DEF RingInv
<1> QED
  BY <1>1, <1>2

\* The callback ends by moving r_head over the slot.
LEMMA PublishKeeps ==
  ASSUME RingType, RingInv, Publish
  PROVE  RingType' /\ RingInv'
<1>0. /\ filling /\ filling' = FALSE /\ head' = After(head)
      /\ UNCHANGED <<backend, slot, tail, kept, consumer, heard, given>>
  BY DEF Publish
<1>1. /\ After(head) \in Slots /\ After(head) # tail
      /\ Used(After(head), tail) = Used(head, tail) + 1
  BY <1>0, HeadMoves, RingFacts DEF RingInv
<1>2. RingType'
  BY <1>0, <1>1 DEF RingType
<1>3. Freed' = Freed /\ Published' = Published + 1 /\ Used(head, tail)' = Used(head, tail) + 1
  BY <1>0, <1>1, RingFacts DEF Freed, Published, Used
<1>4. Published' = Freed' + Used(head, tail)'
  BY <1>3, RingFacts DEF RingInv
<1>5. \A k \in 0..Len(kept')-Freed'-1 : slot'[Nth(tail', k)] = kept'[Freed' + 1 + k]
  BY <1>0, <1>3 DEF RingInv
<1> QED
  BY <1>0, <1>1, <1>2, <1>4, <1>5 DEF RingInv

\* A BLE report stores and publishes at once.
LEMMA ReportKeeps ==
  ASSUME RingType, RingInv, Report
  PROVE  RingType' /\ RingInv'
<1>1. CASE ~Room
  <2>1. UNCHANGED <<backend, slot, head, tail, filling, kept, given, consumer>> /\ heard' = heard + 1
    BY <1>1 DEF Report
  <2>2. heard' \in Nat
    BY <2>1 DEF RingType
  <2> QED
    BY <2>1, <2>2, RingUntouched
<1>2. CASE Room
  <2>0. Room /\ ~filling /\ filling' = filling /\ backend = "ble" /\ backend' = backend
        /\ slot' = [slot EXCEPT ![head] = heard + 1] /\ kept' = Append(kept, heard + 1)
        /\ heard' = heard + 1 /\ head' = After(head) /\ tail' = tail /\ consumer' = consumer
        /\ given' = given
    BY <1>2 DEF Report, RingType
  <2>1. /\ slot' \in [Slots -> Nat] /\ kept' \in Seq(Nat) /\ Len(kept') = Len(kept) + 1
        /\ Freed' = Freed /\ \A i \in 1..Len(kept) : kept'[i] = kept[i]
        /\ \A k \in 0..Len(kept')-Freed-1 : slot'[Nth(tail, k)] = kept'[Freed + 1 + k]
    BY <2>0, StoreKeeps
  <2>2. After(head) \in Slots /\ Used(After(head), tail) = Used(head, tail) + 1
    BY <2>0, HeadMoves, RingFacts DEF Room
  <2>3. Published' = Published + 1 /\ Used(head, tail)' = Used(head, tail) + 1
    BY <2>0, <2>1, <2>2, RingFacts DEF Published, Used
  <2>4. \A k \in 0..Len(kept')-Freed'-1 : slot'[Nth(tail', k)] = kept'[Freed' + 1 + k]
    BY <2>0, <2>1
  <2>5. RingType'
    BY <2>0, <2>1, <2>2 DEF RingType
  <2>6. Len(given) <= Len(kept)
    BY <2>0, RingFacts DEF RingInv, Published
  <2>7. \A i \in 1..Len(given') : given'[i] = kept'[i]
    BY <2>0, <2>1, <2>6, RingFacts DEF RingInv
  <2>8. consumer'.at \in {"free", "feed"} =>
           Len(given') < Len(kept') /\ consumer'.rec = kept'[Len(given') + 1]
    BY <2>0, <2>1, RingFacts DEF RingInv
  <2>9. Published' = Freed' + Used(head, tail)'
    BY <2>0, <2>1, <2>3, RingFacts DEF RingInv
  <2>10. consumer'.at # "free" \/ tail' # head'
    BY <2>2, <2>3, <2>0, RingFacts, EmptyRing
  <2> QED
    BY <2>0, <2>4, <2>5, <2>7, <2>8, <2>9, <2>10 DEF RingInv
<1> QED
  BY <1>1, <1>2

\* When the tail moves, the slots still in use are those of the frames after the
\* one given back.
LEMMA FreeKeeps ==
  ASSUME RingType, RingInv, tail # head, tail' = After(tail), head' = head,
         slot' = slot, kept' = kept, filling' = filling, Freed' = Freed + 1
  PROVE  /\ tail' \in Slots
         /\ Published' = Freed' + Used(head, tail)'
         /\ filling => After(head') # tail'
         /\ \A k \in 0..Len(kept')-Freed'-1 : slot'[Nth(tail', k)] = kept'[Freed' + 1 + k]
<1> USE SnifferAssumption
<1>1. /\ After(tail) \in Slots /\ Used(head, tail) >= 1
      /\ Used(head, After(tail)) = Used(head, tail) - 1
      /\ \A k \in 0..Ring-2 : Nth(After(tail), k) = Nth(tail, k + 1)
  BY TailMoves, RingFacts
<1>2. Used(head, tail)' = Used(head, tail) - 1
  BY <1>1 DEF Used
<1>3. Published' = Published
  BY DEF Published
<1>4. Published' = Freed' + Used(head, tail)'
  BY <1>2, <1>3, RingFacts DEF RingInv
<1>5. After(head) # After(tail)
  <2>1. /\ After(head) = (IF head = Ring - 1 THEN 0 ELSE head + 1)
        /\ After(tail) = (IF tail = Ring - 1 THEN 0 ELSE tail + 1)
    BY AfterNext, RingFacts
  <2> QED
    BY <2>1, RingFacts DEF Slots
<1>6. Len(kept) - Freed \in 0..Ring-1
  <2>1. Len(kept) = Freed + Used(head, tail) + (IF filling THEN 1 ELSE 0)
    BY RingFacts DEF RingInv, Published
  <2>2. filling => Used(head, tail) # Ring - 1
    BY HeadMoves, RingFacts DEF RingInv
  <2> QED
    BY <2>1, <2>2, RingFacts
<1>7. ASSUME NEW k \in 0..Len(kept')-Freed'-1
      PROVE  slot'[Nth(tail', k)] = kept'[Freed' + 1 + k]
  <2>1. k \in 0..Ring-2 /\ k + 1 \in 0..Len(kept)-Freed-1
    BY <1>6, RingFacts
  <2>2. slot[Nth(tail, k + 1)] = kept[Freed + 1 + (k + 1)]
    BY <2>1 DEF RingInv
  <2>3. Nth(tail', k) = Nth(tail, k + 1)
    BY <1>1, <2>1
  <2>4. Freed + 1 + (k + 1) = Freed' + 1 + k
    BY <2>1, RingFacts
  <2> QED
    BY <2>2, <2>3, <2>4
<1> QED
  BY <1>1, <1>4, <1>5, <1>7

\* The frame that the consumer copies is the next one to give.
LEMMA CopyKeeps ==
  ASSUME RingType, RingInv, TakeCopy
  PROVE  RingType' /\ RingInv'
<1> USE SnifferAssumption
<1>0. /\ consumer.at = "wait" /\ tail # head
      /\ UNCHANGED <<backend, slot, head, filling, kept, heard, given>>
  BY DEF TakeCopy, Same
<1>1. Freed = Len(given)
  BY <1>0, RingFacts DEF Freed
<1>2. Used(head, tail) # 0
  BY <1>0, EmptyRing, RingFacts
<1>3. Len(given) < Len(kept)
  BY <1>1, <1>2, RingFacts DEF RingInv, Published
<1>4. Nth(tail, 0) = tail
  BY RingFacts DEF Nth, Slots
<1>5. slot[Nth(tail, 0)] = kept[Freed + 1 + 0]
  BY <1>1, <1>3, RingFacts DEF RingInv
<1>6. slot[tail] = kept[Len(given) + 1]
  BY <1>1, <1>4, <1>5, RingFacts
<1>7. slot[tail] \in Nat
  BY RingFacts DEF RingType
<1>8. CASE backend = "154"
  <2>1. consumer' = [at |-> "free", rec |-> slot[tail]] /\ tail' = tail
    BY <1>8 DEF TakeCopy
  <2>2. RingType'
    BY <1>0, <1>7, <2>1 DEF RingType, Places
  <2>3. /\ Freed' = Freed /\ Published' = Published /\ Used(head, tail)' = Used(head, tail)
        /\ After(head)' = After(head)
    BY <1>0, <2>1 DEF Freed, Published, Used, After
  <2>4. \A k \in 0..Len(kept')-Freed'-1 : slot'[Nth(tail', k)] = kept'[Freed' + 1 + k]
    BY <1>0, <2>1, <2>3 DEF RingInv
  <2> QED
    BY <1>0, <1>3, <1>6, <2>1, <2>2, <2>3, <2>4 DEF RingInv
<1>9. CASE backend = "ble"
  <2>1. consumer' = [at |-> "feed", rec |-> slot[tail]] /\ tail' = After(tail) /\ ~filling
    BY <1>9 DEF TakeCopy, RingType
  <2>2. Freed' = Freed + 1
    BY <1>0, <1>1, <2>1, RingFacts DEF Freed
  <2>3. /\ tail' \in Slots
        /\ Published' = Freed' + Used(head, tail)'
        /\ \A k \in 0..Len(kept')-Freed'-1 : slot'[Nth(tail', k)] = kept'[Freed' + 1 + k]
    BY <1>0, <2>1, <2>2, FreeKeeps
  <2>4. RingType'
    BY <1>0, <1>7, <2>1, <2>3 DEF RingType, Places
  <2> QED
    BY <1>0, <1>3, <1>6, <2>1, <2>3, <2>4 DEF RingInv
<1> QED
  BY <1>8, <1>9 DEF RingType

\* sniff_task gives the slot back after it copied the frame.
LEMMA FreeStepKeeps ==
  ASSUME RingType, RingInv, TakeFree
  PROVE  RingType' /\ RingInv'
<1>0. /\ consumer.at = "free" /\ tail' = After(tail)
      /\ consumer' = [consumer EXCEPT !.at = "feed"]
      /\ UNCHANGED <<backend, slot, head, filling, kept, heard, given>>
  BY DEF TakeFree, Same, Goes
<1>1. consumer'.at = "feed" /\ consumer'.rec = consumer.rec /\ consumer' \in [at : Places, rec : Nat]
  BY <1>0 DEF RingType, Places
<1>2. Freed' = Freed + 1
  BY <1>0, <1>1, RingFacts DEF Freed
<1>3. tail # head /\ Len(given) < Len(kept) /\ consumer.rec = kept[Len(given) + 1]
  BY <1>0 DEF RingInv
<1>4. /\ tail' \in Slots
      /\ Published' = Freed' + Used(head, tail)'
      /\ filling => After(head') # tail'
      /\ \A k \in 0..Len(kept')-Freed'-1 : slot'[Nth(tail', k)] = kept'[Freed' + 1 + k]
  BY <1>0, <1>2, <1>3, FreeKeeps
<1>5. RingType'
  BY <1>0, <1>1, <1>4 DEF RingType
<1> QED
  BY <1>0, <1>1, <1>3, <1>4, <1>5 DEF RingInv

\* The record given to the core is the next frame of those kept.
LEMMA FeedKeeps ==
  ASSUME RingType, RingInv, Feed
  PROVE  RingType' /\ RingInv'
<1>0. /\ consumer.at = "feed" /\ given' = Append(given, consumer.rec)
      /\ consumer' = [consumer EXCEPT !.at = "wait"]
      /\ UNCHANGED <<backend, slot, head, tail, filling, kept, heard>>
  BY DEF Feed, Same, Goes
<1>1. consumer'.at = "wait" /\ consumer.rec \in Nat /\ consumer' \in [at : Places, rec : Nat]
  BY <1>0 DEF RingType, Places
<1>2. /\ given' \in Seq(Nat) /\ Len(given') = Len(given) + 1
      /\ given'[Len(given) + 1] = consumer.rec
      /\ \A i \in 1..Len(given) : given'[i] = given[i]
  BY <1>0, <1>1 DEF RingType
<1>3. Freed' = Freed
  BY <1>0, <1>1, <1>2, RingFacts DEF Freed
<1>4. Published' = Published /\ Used(head, tail)' = Used(head, tail)
  BY <1>0 DEF Published, Used
<1>5. Len(given) < Len(kept) /\ consumer.rec = kept[Len(given) + 1]
      /\ \A i \in 1..Len(given) : given[i] = kept[i]
  BY <1>0 DEF RingInv
<1>6. \A i \in 1..Len(given') : given'[i] = kept'[i]
  <2>1. \A i \in 1..Len(given') : i \in 1..Len(given) \/ i = Len(given) + 1
    BY <1>2, RingFacts
  <2> QED
    BY <1>0, <1>2, <1>5, <2>1
<1>7. After(head') # tail' <=> After(head) # tail
  BY <1>0
<1>8. \A k \in 0..Len(kept')-Freed'-1 : slot'[Nth(tail', k)] = kept'[Freed' + 1 + k]
  BY <1>0, <1>3 DEF RingInv
<1>9. RingType'
  BY <1>0, <1>1, <1>2 DEF RingType
<1> QED
  BY <1>0, <1>1, <1>3, <1>4, <1>6, <1>7, <1>8, <1>9 DEF RingInv

\* Every step of the firmware keeps the ring.
LEMMA RingStep == RingType /\ RingInv /\ [Next]_vars => RingType' /\ RingInv'
<1> SUFFICES ASSUME RingType, RingInv, [Next]_vars PROVE RingType' /\ RingInv'
  OBVIOUS
<1>0. heard \in Nat
  BY DEF RingType
<1>1. CASE Capture
  BY <1>1, CaptureKeeps
<1>2. CASE Publish
  BY <1>2, PublishKeeps
<1>3. CASE Report
  BY <1>3, ReportKeeps
<1>4. CASE Take
  BY <1>4, CopyKeeps, FreeStepKeeps DEF Take
<1>5. CASE Feed
  BY <1>5, FeedKeeps
<1>6. CASE Hop
  <2>1. UNCHANGED <<backend, slot, head, tail, filling, kept, given, heard>>
    BY <1>6 DEF Hop, HopBegin, HopStep, HopArm, Same, RxArm, Receive
  <2>2. \E at \in {"wait", "hop", "arm"} : consumer' = [consumer EXCEPT !.at = at]
    BY <1>6 DEF Hop, HopBegin, HopStep, HopArm, Goes
  <2>3. consumer.at \in {"wait", "hop", "arm"}
    BY <1>6 DEF Hop, HopBegin, HopStep, HopArm
  <2>4. consumer' \in [at : Places, rec : Nat] /\ consumer'.at \in {"wait", "hop", "arm"}
    BY <2>2 DEF RingType, Places
  <2> QED
    BY <1>0, <2>1, <2>3, <2>4, RingUntouched
<1>7. CASE \/ ScanBegins \/ SetChan \/ SetArm \/ Inject \/ Transmit \/ TransmitDone
           \/ UNCHANGED vars \/ \E ch \in Channels \union {0} : SetFixed(ch)
  <2>1. UNCHANGED <<backend, slot, head, tail, filling, kept, given, heard, consumer>>
    BY <1>7 DEF ScanBegins, SetChan, SetArm, Inject, Transmit, TransmitDone, SetFixed,
                UsbSame, ringVars, vars
  <2> QED
    BY <1>0, <2>1, RingUntouched
<1> QED
  BY <1>1, <1>2, <1>3, <1>4, <1>5, <1>6, <1>7 DEF Next

\* However the driver and the consumer interleave and whatever the size of the
\* ring, the host gets the frames that found room, once each and in order
\* (r_head and r_tail of duta_154_sniff_esp.c, without a lock).
THEOREM RingIsExact == Spec => []RecordsExact
<1>1. RingType /\ RingInv => RecordsExact
  <2> SUFFICES ASSUME RingType, RingInv PROVE RecordsExact
    OBVIOUS
  <2>1. Len(given) <= Len(kept)
    BY RingFacts DEF RingInv, Published
  <2>2. DOMAIN given = 1..Len(given)
    BY DEF RingType
  <2> QED
    BY <2>1, <2>2 DEF RecordsExact, RingInv
<1> QED
  BY <1>1, InitRing, RingStep, PTL DEF Spec

-----------------------------------------------------------------------------
(* The pinned channel of the ESP32                                         *)

\* Unless the pin raced a hop, no hop is under way on a pinned channel, and
\* rx_arm, when PROTO_SET comes to it, finds the pinned channel in chan.
PinInv ==
  /\ usb \in [at : {"idle", "chan", "arm"}, ch : Channels \union {0}]
  /\ fixed # 0 /\ ~raced => consumer.at \notin {"hop", "arm"}
  /\ fixed # 0 /\ ~raced /\ usb.at = "arm" => chan = fixed
  /\ PinnedIsTuned

\* The steps outside the channel's own leave the pin alone.
LEMMA PinUntouched ==
  ASSUME PinInv, UNCHANGED <<chanVars, usb>>,
         consumer' = consumer \/ consumer'.at \in {"wait", "free", "feed"}
  PROVE  PinInv'
BY DEF PinInv, PinnedIsTuned, chanVars

\* A hop that began before the pin is the only one to move a pinned channel.
LEMMA PinHop == ASSUME PinInv, Hop PROVE PinInv'
<1>1. CASE HopBegin
  BY <1>1 DEF HopBegin, PinInv, PinnedIsTuned, chanVars, Same
<1>2. CASE HopStep
  <2>1. fixed = 0 \/ raced
    BY <1>2 DEF HopStep, PinInv
  <2> QED
    BY <1>2, <2>1 DEF HopStep, PinInv, PinnedIsTuned, Same
<1>3. CASE HopArm
  <2>1. fixed = 0 \/ raced
    BY <1>3 DEF HopArm, PinInv
  <2> QED
    BY <1>3, <2>1 DEF HopArm, PinInv, PinnedIsTuned, Same
<1> QED
  BY <1>1, <1>2, <1>3 DEF Hop

\* PROTO_SET in its three steps.
LEMMA PinSet ==
  ASSUME PinInv, (\E ch \in Channels \union {0} : SetFixed(ch)) \/ SetChan \/ SetArm
  PROVE  PinInv'
<1>1. ASSUME NEW ch \in Channels \union {0}, SetFixed(ch) PROVE PinInv'
  <2>1. /\ usb'.at = "chan" /\ consumer' = consumer
        /\ usb' \in [at : {"idle", "chan", "arm"}, ch : Channels \union {0}]
    BY <1>1 DEF SetFixed, UsbSame
  <2>2. raced' = (consumer.at \in {"hop", "arm"})
    BY <1>1 DEF SetFixed
  <2>3. ~raced' => consumer.at \notin {"hop", "arm"}
    BY <2>2, Zenon
  <2> QED
    BY <2>1, <2>3 DEF PinInv, PinnedIsTuned
<1>2. CASE SetChan
  <2>1. /\ usb'.at = "arm" /\ chan' = (IF fixed # 0 THEN fixed ELSE ChMin)
        /\ usb' \in [at : {"idle", "chan", "arm"}, ch : Channels \union {0}]
        /\ consumer' = consumer /\ fixed' = fixed /\ raced' = raced
    BY <1>2 DEF SetChan, UsbSame, PinInv
  <2> QED
    BY <2>1 DEF PinInv, PinnedIsTuned
<1>3. CASE SetArm
  <2>1. /\ usb.at = "arm" /\ usb'.at = "idle" /\ tuned' = chan
        /\ usb' \in [at : {"idle", "chan", "arm"}, ch : Channels \union {0}]
        /\ UNCHANGED <<consumer, chan, fixed, raced>>
    BY <1>3 DEF SetArm, UsbSame, RxArm, PinInv
  <2> QED
    BY <2>1 DEF PinInv, PinnedIsTuned
<1> QED
  BY <1>1, <1>2, <1>3

\* Outside a PROTO_SET, a pinned sniffer is on the channel it was pinned to,
\* unless a hop was under way (set_channel against sniff_task).
THEOREM PinHolds == Spec => []PinnedIsTuned
<1>1. Init => PinInv
  <2> SUFFICES ASSUME Init PROVE PinInv
    OBVIOUS
  <2>1. fixed = 0 /\ raced = FALSE /\ usb = [at |-> "idle", ch |-> 0]
    BY DEF Init
  <2> QED
    BY <2>1 DEF PinInv, PinnedIsTuned
<1>2. RingType /\ PinInv /\ [Next]_vars => PinInv'
  <2> SUFFICES ASSUME RingType, PinInv, [Next]_vars PROVE PinInv'
    OBVIOUS
  <2>1. CASE Hop
    BY <2>1, PinHop
  <2>2. CASE (\E ch \in Channels \union {0} : SetFixed(ch)) \/ SetChan \/ SetArm
    BY <2>2, PinSet
  <2>3. CASE Take \/ Feed
    <3>1. UNCHANGED <<chanVars, usb>>
      BY <2>3 DEF Take, TakeCopy, TakeFree, Feed, Same
    <3>2. consumer'.at \in {"wait", "free", "feed"}
      BY <2>3 DEF Take, TakeCopy, TakeFree, Feed, Goes, RingType
    <3> QED
      BY <3>1, <3>2, PinUntouched
  <2>4. CASE Capture \/ Publish \/ Report \/ ScanBegins \/ Inject \/ Transmit \/ TransmitDone
             \/ UNCHANGED vars
    <3>1. UNCHANGED <<chanVars, usb, consumer>>
      BY <2>4 DEF Capture, Publish, Report, ScanBegins, Inject, Transmit, TransmitDone,
                  UsbSame, vars
    <3> QED
      BY <3>1, PinUntouched
  <2> QED
    BY <2>1, <2>2, <2>3, <2>4 DEF Next
<1>3. PinInv => PinnedIsTuned
  BY DEF PinInv
<1> QED
  BY <1>1, <1>2, <1>3, InitRing, RingStep, PTL DEF Spec

-----------------------------------------------------------------------------
(* The unified radio of the nRF52                                          *)

\* What OneBackend asks of a radio, beyond its type.
Sound(r) ==
  /\ r \in Nrf!Radios
  /\ \A p \in Nrf!Phys : r.on[p] => p = r.active
  /\ r.tuned = r.active
  /\ Nrf!IsOn(r) \/ ~(r.rx \/ r.ended)

\* A radio that captures has its receiver running, or a frame for take().
Hears(r) == Nrf!IsOn(r) => r.rx \/ r.ended

\* Start and stop.
LEMMA StartStop ==
  ASSUME NEW r \in Nrf!Radios, \A p \in Nrf!Phys : r.on[p] => p = r.active
  PROVE  /\ Nrf!Start(r) \in Nrf!Radios /\ Nrf!Stop(r) \in Nrf!Radios
         /\ Nrf!Start(r).active = r.active /\ Nrf!Stop(r).active = r.active
         /\ Nrf!Start(r).tuned = r.tuned /\ Nrf!Stop(r).tuned = r.tuned
         /\ Nrf!IsOn(Nrf!Start(r)) /\ \A p \in Nrf!Phys : ~Nrf!Stop(r).on[p]
         /\ \A p \in Nrf!Phys : Nrf!Start(r).on[p] => p = r.active
         /\ Hears(r) => Hears(Nrf!Start(r))
         /\ Nrf!IsOn(r) \/ ~(r.rx \/ r.ended) => ~(Nrf!Stop(r).rx \/ Nrf!Stop(r).ended)
<1>1. /\ r.active \in Nrf!Phys /\ r.on \in [Nrf!Phys -> BOOLEAN] /\ r.tuned \in Nrf!Phys
      /\ r.rx \in BOOLEAN /\ r.ended \in BOOLEAN
  BY DEF Nrf!Radios
<1>2. CASE r.on[r.active]
  BY <1>1, <1>2 DEF Nrf!Start, Nrf!Stop, Nrf!IsOn, Nrf!Quiet, Hears, Nrf!Radios
<1>3. CASE ~r.on[r.active]
  BY <1>1, <1>3 DEF Nrf!Start, Nrf!Stop, Nrf!IsOn, Nrf!Arm, Hears, Nrf!Radios
<1> QED
  BY <1>2, <1>3

\* The operators of the vtable keep the radio sound, a switch too, though the
\* backend it leaves must be stopped and the registers programmed anew.
LEMMA RadioOps ==
  ASSUME NEW r, Sound(r), NEW p \in Nrf!Phys
  PROVE  /\ Sound(Nrf!Start(r)) /\ Sound(Nrf!Stop(r))
         /\ Sound(Nrf!SwitchTo(r, p)) /\ Nrf!SwitchTo(r, p).active = p
         /\ Sound(Nrf!InitPhy(r))
         /\ Nrf!IsOn(r) => Sound(Nrf!Arm(r))
         /\ ~Nrf!IsOn(r) => Sound(Nrf!Quiet(r))
         /\ Hears(r) => Hears(Nrf!Start(r)) /\ Hears(Nrf!SwitchTo(r, p))
         /\ Hears(Nrf!Stop(r)) /\ Hears(Nrf!Arm(r))
         /\ Nrf!Start(r).active = r.active /\ Nrf!Stop(r).active = r.active
         /\ Nrf!Arm(r).active = r.active /\ Nrf!Quiet(r).active = r.active
<1>0. /\ r \in Nrf!Radios /\ \A q \in Nrf!Phys : r.on[q] => q = r.active
      /\ Nrf!IsOn(r) \/ ~(r.rx \/ r.ended)
      /\ r.active \in Nrf!Phys /\ r.on \in [Nrf!Phys -> BOOLEAN] /\ r.tuned = r.active
      /\ r.rx \in BOOLEAN /\ r.ended \in BOOLEAN
  BY DEF Sound, Nrf!Radios
<1>1. Sound(Nrf!Start(r)) /\ Nrf!Start(r).active = r.active /\ (Hears(r) => Hears(Nrf!Start(r)))
  BY <1>0, StartStop DEF Sound
<1>2. Sound(Nrf!Stop(r)) /\ Nrf!Stop(r).active = r.active /\ Hears(Nrf!Stop(r))
  BY <1>0, StartStop DEF Sound, Hears, Nrf!IsOn
<1>3. Nrf!IsOn(r) => Sound(Nrf!Arm(r))
  BY <1>0 DEF Sound, Nrf!Arm, Nrf!IsOn, Nrf!Radios
<1>4. ~Nrf!IsOn(r) => Sound(Nrf!Quiet(r))
  BY <1>0 DEF Sound, Nrf!Quiet, Nrf!IsOn, Nrf!Radios
<1>5. Sound(Nrf!InitPhy(r))
  BY <1>0 DEF Sound, Nrf!InitPhy, Nrf!Quiet, Nrf!IsOn, Nrf!Radios
<1>6. Hears(Nrf!Arm(r)) /\ Nrf!Arm(r).active = r.active /\ Nrf!Quiet(r).active = r.active
  BY <1>0 DEF Hears, Nrf!Arm, Nrf!Quiet, Nrf!Radios
<1>7. Sound(Nrf!SwitchTo(r, p)) /\ Nrf!SwitchTo(r, p).active = p /\ Hears(Nrf!SwitchTo(r, p))
  <2> DEFINE off   == Nrf!Stop(r)
             fresh == Nrf!InitPhy([off EXCEPT !.active = p])
  <2>1. /\ off \in Nrf!Radios /\ \A q \in Nrf!Phys : ~off.on[q]
        /\ ~(off.rx \/ off.ended)
    BY <1>0, StartStop
  <2>2. /\ fresh \in Nrf!Radios /\ \A q \in Nrf!Phys : ~fresh.on[q]
        /\ fresh.active = p /\ fresh.tuned = p /\ ~(fresh.rx \/ fresh.ended)
    <3> HIDE DEF off
    <3> QED
      BY <2>1 DEF Nrf!InitPhy, Nrf!Quiet, Nrf!Radios
  <2>3. Sound(fresh) /\ Hears(fresh)
    <3> HIDE DEF fresh
    <3>1. ~Nrf!IsOn(fresh)
      BY <2>2 DEF Nrf!IsOn
    <3> QED
      BY <2>2, <3>1 DEF Sound, Hears
  <2>4. /\ Sound(Nrf!Start(fresh)) /\ Hears(Nrf!Start(fresh))
        /\ Nrf!Start(fresh).active = p
    <3> HIDE DEF fresh
    <3> QED
      BY <2>2, <2>3, StartStop DEF Sound
  <2>5. Nrf!SwitchTo(r, p) = IF Nrf!IsOn(r) THEN Nrf!Start(fresh) ELSE fresh
    BY DEF Nrf!SwitchTo
  <2> HIDE DEF fresh
  <2> QED
    BY <2>2, <2>3, <2>4, <2>5
<1> QED
  BY <1>1, <1>2, <1>3, <1>4, <1>5, <1>6, <1>7

\* Until CFG_SET is used, the radio hears when it captures, it is the one that
\* the Radio control chose, and so is the kind that is announced.
NrfInv ==
  /\ Sound(nrfRadio) /\ Nrf!TypeOK
  /\ \/ byCfg
     \/ /\ Hears(nrfRadio)
        /\ dataKind = Nrf!OptKind(radioOpt) /\ Nrf!OptPhy(radioOpt) = nrfRadio.active

\* The options of the Radio control name a PHY and a kind of that PHY.
LEMMA OptionsAgree ==
  ASSUME NEW o \in Nrf!Options
  PROVE  /\ Nrf!OptPhy(o) \in Nrf!Phys /\ Nrf!OptKind(o) \in Nrf!Kinds
         /\ Nrf!KindPhy(Nrf!OptKind(o)) = Nrf!OptPhy(o)
<1>1. o = 0 \/ o = 1 \/ o = 2
  BY DEF Nrf!Options
<1> QED
  BY <1>1 DEF Nrf!OptPhy, Nrf!OptKind, Nrf!KindPhy, Nrf!Phys, Nrf!Kinds

\* Every command, and every step of the air and of sniff_thread, keeps it.
LEMMA NrfStep == NrfInv /\ [Nrf!Next]_nrfVars => NrfInv'
<1> SUFFICES ASSUME NrfInv, [Nrf!Next]_nrfVars PROVE NrfInv'
  OBVIOUS
<1>0. Sound(nrfRadio) /\ Nrf!TypeOK /\ nrfRadio \in Nrf!Radios /\ nrfRadio.active \in Nrf!Phys
  BY DEF NrfInv, Sound, Nrf!Radios
<1>1. ASSUME NEW o \in Nrf!Options, Nrf!RadioSelect(o) PROVE NrfInv'
  <2>1. /\ Sound(nrfRadio') /\ nrfRadio'.active = Nrf!OptPhy(o)
        /\ byCfg \/ Hears(nrfRadio')
    BY <1>0, <1>1, RadioOps, OptionsAgree DEF Nrf!RadioSelect, Nrf!Select, NrfInv
  <2>2. Nrf!TypeOK'
    BY <1>0, <1>1, <2>1, OptionsAgree DEF Nrf!RadioSelect, Nrf!TypeOK, Sound, Nrf!Controls
  <2> QED
    BY <1>1, <2>1, <2>2 DEF Nrf!RadioSelect, NrfInv
<1>2. ASSUME NEW v \in BOOLEAN, Nrf!Sniffing(v) PROVE NrfInv'
  <2>1. /\ Sound(nrfRadio') /\ nrfRadio'.active = nrfRadio.active
        /\ byCfg \/ Hears(nrfRadio')
    BY <1>0, <1>2, RadioOps DEF Nrf!Sniffing, NrfInv
  <2>2. Nrf!TypeOK'
    BY <1>0, <1>2, <2>1 DEF Nrf!Sniffing, Nrf!TypeOK, Sound, Nrf!Controls
  <2> QED
    BY <1>2, <2>1, <2>2 DEF Nrf!Sniffing, NrfInv
<1>3. ASSUME NEW v \in BOOLEAN, Nrf!UartBridge(v) PROVE NrfInv'
  BY <1>0, <1>3 DEF Nrf!UartBridge, NrfInv, Nrf!TypeOK, Nrf!Controls
<1>4. ASSUME NEW v \in BOOLEAN, Nrf!SetChannel(v) PROVE NrfInv'
  <2>1. /\ Sound(nrfRadio') /\ nrfRadio'.active = nrfRadio.active
        /\ byCfg \/ Hears(nrfRadio')
        /\ nrfFixed' \in BOOLEAN
    BY <1>0, <1>4, RadioOps DEF Nrf!SetChannel, NrfInv, Nrf!TypeOK
  <2>2. Nrf!TypeOK'
    BY <1>0, <1>4, <2>1 DEF Nrf!SetChannel, Nrf!TypeOK, Sound, Nrf!Controls
  <2> QED
    BY <1>4, <2>1, <2>2 DEF Nrf!SetChannel, NrfInv
<1>5. CASE Nrf!ModeUart
  <2>1. Sound(nrfRadio')
    BY <1>0, <1>5, RadioOps DEF Nrf!ModeUart
  <2> QED
    BY <1>0, <1>5, <2>1 DEF Nrf!ModeUart, NrfInv, Nrf!TypeOK, Sound, Nrf!Controls, Nrf!Kinds
<1>6. ASSUME NEW p \in Nrf!Phys, Nrf!ModePhy(p) PROVE NrfInv'
  <2>1. Sound(nrfRadio')
    BY <1>0, <1>6, RadioOps DEF Nrf!ModePhy, Nrf!FromUart
  <2> QED
    BY <1>0, <1>6, <2>1
       DEF Nrf!ModePhy, NrfInv, Nrf!TypeOK, Sound, Nrf!Controls, Nrf!Kinds, Nrf!Phys
<1>7. CASE Nrf!Tx
  <2>1. /\ Sound(nrfRadio') /\ nrfRadio'.active = nrfRadio.active
        /\ byCfg \/ Hears(nrfRadio')
    <3>1. CASE Nrf!IsOn(nrfRadio)
      BY <1>0, <1>7, <3>1, RadioOps DEF Nrf!Tx
    <3>2. CASE ~Nrf!IsOn(nrfRadio)
      <4>1. nrfRadio' = Nrf!Quiet(nrfRadio) /\ Sound(Nrf!Quiet(nrfRadio))
        BY <1>0, <1>7, <3>2, RadioOps DEF Nrf!Tx
      <4>2. ~Nrf!IsOn(Nrf!Quiet(nrfRadio))
        BY <1>0, <3>2 DEF Nrf!Quiet, Nrf!IsOn, Nrf!Radios
      <4> QED
        BY <1>0, <4>1, <4>2, RadioOps DEF Hears
    <3> QED
      BY <3>1, <3>2
  <2>2. Nrf!TypeOK'
    BY <1>0, <1>7, <2>1 DEF Nrf!Tx, Nrf!TypeOK, Sound, Nrf!Controls
  <2> QED
    BY <1>7, <2>1, <2>2 DEF Nrf!Tx, NrfInv
<1>8. CASE Nrf!FrameEnds
  <2>1. /\ Sound(nrfRadio') /\ nrfRadio'.active = nrfRadio.active /\ Hears(nrfRadio')
    BY <1>0, <1>8 DEF Nrf!FrameEnds, Sound, Hears, Nrf!IsOn, Nrf!Radios
  <2> QED
    BY <1>0, <1>8, <2>1 DEF Nrf!FrameEnds, Nrf!Unchanged, NrfInv, Nrf!TypeOK, Sound
<1>9. CASE Nrf!TakeFrame \/ Nrf!Hop
  <2>1. /\ Sound(nrfRadio') /\ nrfRadio'.active = nrfRadio.active /\ Hears(nrfRadio')
    BY <1>0, <1>9, RadioOps DEF Nrf!TakeFrame, Nrf!Hop
  <2> QED
    BY <1>0, <1>9, <2>1
       DEF Nrf!TakeFrame, Nrf!Hop, Nrf!Unchanged, NrfInv, Nrf!TypeOK, Sound
<1>10. CASE UNCHANGED nrfVars
  BY <1>10 DEF nrfVars, NrfInv, Nrf!TypeOK
<1> QED
  BY <1>1, <1>2, <1>3, <1>4, <1>5, <1>6, <1>7, <1>8, <1>9, <1>10 DEF Nrf!Next

\* The radio begins parked, on BLE.
LEMMA NrfInit == Nrf!Init => NrfInv
<1> SUFFICES ASSUME Nrf!Init PROVE NrfInv
  OBVIOUS
<1>1. nrfRadio = [active |-> "ble", on |-> [p \in Nrf!Phys |-> FALSE],
                  tuned |-> "ble", rx |-> FALSE, ended |-> FALSE]
  BY DEF Nrf!Init
<1>2. nrfRadio \in Nrf!Radios /\ nrfRadio.active = "ble" /\ ~Nrf!IsOn(nrfRadio)
  BY <1>1 DEF Nrf!Radios, Nrf!Phys, Nrf!IsOn
<1>3. Sound(nrfRadio) /\ Hears(nrfRadio)
  BY <1>1, <1>2 DEF Sound, Hears
<1>4. nrfFixed = FALSE /\ uartFwd = FALSE /\ byCfg = FALSE /\ dataKind = "ble"
      /\ radioOpt = 0 /\ last = "none"
  BY DEF Nrf!Init
<1>5. Nrf!TypeOK
  <2>1. nrfFixed \in BOOLEAN /\ uartFwd \in BOOLEAN /\ byCfg \in BOOLEAN
    BY <1>4
  <2>2. dataKind \in Nrf!Kinds /\ last \in Nrf!Controls
    BY <1>4 DEF Nrf!Controls, Nrf!Kinds
  <2>3. radioOpt \in Nrf!Options
    BY <1>4 DEF Nrf!Options
  <2> QED
    BY <1>2, <2>1, <2>2, <2>3 DEF Nrf!TypeOK
<1>6. Nrf!OptKind(radioOpt) = "ble" /\ Nrf!OptPhy(radioOpt) = "ble"
  BY <1>4 DEF Nrf!OptKind, Nrf!OptPhy
<1> QED
  BY <1>2, <1>3, <1>4, <1>5, <1>6 DEF NrfInv

\* Only one of the two modules moves in a step.
LEMMA ChipParts ==
  ASSUME [ChipNext]_chipVars
  PROVE  [Next]_vars /\ [Nrf!Next]_nrfVars
BY DEF ChipNext, chipVars, OnEsp, OnNrf, nrfVars

\* However commands, frames and take() follow each other, one backend at a time
\* has the radio, with its own registers programmed, and a radio that is off is
\* parked (duta_sniffer_select, _start, _stop and CFG_SET 0x14).
THEOREM BackendsTakeTurns == ChipSpec => []OneBackend
<1>1. NrfInv => OneBackend
  BY DEF NrfInv, Sound, OneBackend, Nrf!OneBackend
<1>2. ChipInit => NrfInv
  BY NrfInit DEF ChipInit
<1>3. NrfInv /\ [ChipNext]_chipVars => NrfInv'
  BY ChipParts, NrfStep
<1> QED
  BY <1>1, <1>2, <1>3, PTL DEF ChipSpec

\* In every order of the virtual outputs, a radio whose Sniffing control reads on
\* will capture, and announces what it captures as the PHY that it is on.
THEOREM SniffingHolds == ChipSpec => []SniffingIsTrue
<1>1. NrfInv => SniffingIsTrue
  <2> SUFFICES ASSUME NrfInv PROVE SniffingIsTrue
    OBVIOUS
  <2>1. Nrf!KindPhy(Nrf!OptKind(radioOpt)) = Nrf!OptPhy(radioOpt)
    BY OptionsAgree DEF NrfInv, Nrf!TypeOK
  <2> QED
    BY <2>1 DEF NrfInv, Hears, SniffingIsTrue, Nrf!SniffingIsTrue
<1>2. ChipInit => NrfInv
  BY NrfInit DEF ChipInit
<1>3. NrfInv /\ [ChipNext]_chipVars => NrfInv'
  BY ChipParts, NrfStep
<1> QED
  BY <1>1, <1>2, <1>3, PTL DEF ChipSpec

\* What is proved of the ESP32 module holds of the composition that is run.
THEOREM EspPart == ChipSpec => [](RecordsExact /\ PinnedIsTuned)
<1>1. ChipInit => Init
  BY DEF ChipInit
<1>2. [ChipNext]_chipVars => [Next]_vars
  BY ChipParts
<1>3. ChipSpec => Spec
  BY <1>1, <1>2, PTL DEF ChipSpec, Spec
<1> QED
  BY <1>3, RingIsExact, PinHolds, PTL

=============================================================================
