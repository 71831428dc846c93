---------------------------- MODULE Flipper_proofs ----------------------------
(***************************************************************************)
(* Theorems about the Flipper application: the UART's rate and the LED     *)
(* follow the view, and between the bridge, the core and a macro no byte   *)
(* of the host or the target is lost, doubled or out of order.             *)
(***************************************************************************)
EXTENDS Flipper, SequenceTheorems, TLAPS

\* What the host's bytes are.
HostByte == {Z} \cup {Text(k, n) : k \in Kinds, n \in Nat}

FlipperType ==
  /\ usbRx \in Seq(HostByte) /\ buf \in Seq(HostByte) /\ rx \in Seq(HostByte)
  /\ handled \in Seq(HostByte) /\ sending \in Seq(HostByte)
  /\ uartRx \in Seq(Nat) /\ told \in Seq(Nat)
  /\ frames \in Nat /\ heard \in Nat /\ running \in BOOLEAN
  /\ mode \in {"idle", "frame"} /\ back \in {"top", "rx"}
  /\ at \in {"top", "rx", "input", "macro"}

\* The core's reader is on the stack: at work, or below a program it started.
Reads == at = "rx" \/ (at = "macro" /\ back = "rx")

\* Where the loop is: the core and the programs run outside the bridge, and bytes
\* are held back only while the core reads.
Places ==
  /\ at \in {"rx", "macro"} => view # "bridge"
  /\ ~Reads => buf = <<>>
  /\ mode = "idle" => rx = <<>>
  /\ \A i \in 1..Len(rx) : rx[i] # Z
  /\ ~running => at = "input"

\* A frame the core has begun, and all that the host has sent, in order.
Held == IF mode = "frame" THEN <<Z>> \o rx ELSE <<>>
Sent == (handled \o Held) \o (buf \o (usbRx \o sending))

IsStream(s) == \A i \in 1..Len(s) : IsByte(s[i], i)

HostSide ==
  (~lost /\ ~split) =>
    /\ view = "bridge" => mode = "idle"
    /\ view # "bridge" => Len(handled) % 3 = 0
    /\ running => IsStream(Sent) /\ Len(Sent) = 3 * frames
    /\ IsStream(handled)

\* The target's bytes are counted.
IsCount(s) == \A i \in 1..Len(s) : s[i] = i
TargetSide ==
  (~lost /\ ~muted) =>
    /\ forward /\ IsCount(told)
    /\ running => IsCount(told \o uartRx) /\ Len(told \o uartRx) = heard

FlipperInv == FlipperType /\ Places /\ BaudAndLamp /\ HostSide /\ TargetSide

-----------------------------------------------------------------------------
(* Queues                                                                  *)

\* The start of a queue and the rest of it.
LEMMA CutInTwo ==
  ASSUME NEW S, NEW q \in Seq(S), NEW n \in 0..Len(q)
  PROVE  /\ SubSeq(q, 1, n) \in Seq(S) /\ SubSeq(q, n + 1, Len(q)) \in Seq(S)
         /\ Len(SubSeq(q, 1, n)) = n
         /\ q = SubSeq(q, 1, n) \o SubSeq(q, n + 1, Len(q))
<1>0. Len(q) \in Nat
  BY LenProperties
<1>1. PICK a, b : a = SubSeq(q, 1, n) /\ b = SubSeq(q, n + 1, Len(q))
  OBVIOUS
<1>2. a \in Seq(S) /\ Len(a) = n /\ \A k \in 1..n : a[k] = q[k]
  BY <1>0, <1>1, SubSeqProperties
<1>3. b \in Seq(S) /\ Len(b) = Len(q) - n /\ \A k \in 1..(Len(q) - n) : b[k] = q[n + k]
  BY <1>0, <1>1, SubSeqProperties
<1>4. PICK c : c = a \o b
  OBVIOUS
<1>5. /\ c \in Seq(S) /\ Len(c) = Len(a) + Len(b)
      /\ \A k \in 1..(Len(a) + Len(b)) : c[k] = IF k <= Len(a) THEN a[k] ELSE b[k - Len(a)]
  BY <1>2, <1>3, <1>4, ConcatProperties
<1>6. Len(c) = Len(q)
  BY <1>0, <1>2, <1>3, <1>5
<1>7. ASSUME NEW k \in 1..Len(q) PROVE c[k] = q[k]
  <2>0. k \in 1..(Len(a) + Len(b))
    BY <1>0, <1>2, <1>3
  <2>1. CASE k <= n
    <3>1. k \in 1..n
      BY <2>1
    <3> QED
      BY <1>2, <1>5, <2>0, <2>1, <3>1
  <2>2. CASE ~(k <= n)
    <3>1. k - n \in 1..(Len(q) - n) /\ n + (k - n) = k
      BY <1>0, <2>2
    <3>2. c[k] = b[k - n]
      BY <1>2, <1>5, <2>0, <2>2
    <3> QED
      BY <1>3, <3>1, <3>2
  <2> QED
    BY <2>1, <2>2
<1>8. c = q
  BY <1>5, <1>6, <1>7, SeqEqual
<1> QED
  BY <1>1, <1>2, <1>3, <1>4, <1>8

\* What is taken of a queue and what is left make it up.
LEMMA TakenLeft ==
  ASSUME NEW S, NEW q \in Seq(S)
  PROVE  Taken(q) \in Seq(S) /\ Left(q) \in Seq(S) /\ q = Taken(q) \o Left(q)
<1>1. PICK n : n = Least(Batch, Len(q))
  OBVIOUS
<1>2. n \in 0..Len(q)
  BY <1>1, LenProperties, FlipperAssumption DEF Least
<1>3. Len(SubSeq(q, 1, n)) = n
  BY <1>2, CutInTwo
<1>4. Taken(q) = SubSeq(q, 1, n) /\ Left(q) = SubSeq(q, n + 1, Len(q))
  BY <1>1, <1>3 DEF Taken, Left
<1>5. /\ SubSeq(q, 1, n) \in Seq(S) /\ SubSeq(q, n + 1, Len(q)) \in Seq(S)
      /\ q = SubSeq(q, 1, n) \o SubSeq(q, n + 1, Len(q))
  BY <1>2, CutInTwo
<1> QED
  BY <1>4, <1>5, Zenon

\* A queue that does not overflow takes all of what comes.
LEMMA Fitting ==
  ASSUME NEW S, NEW q \in Seq(S), NEW s \in Seq(S)
  PROVE  /\ Fit(q, s) \in Seq(S)
         /\ Len(q) + Len(s) <= RingCap => Fit(q, s) = q \o s
<1>1. PICK c : c = q \o s
  OBVIOUS
<1>2. c \in Seq(S) /\ Len(c) = Len(q) + Len(s) /\ Len(c) \in Nat
  BY <1>1, ConcatProperties, LenProperties
<1>3. PICK n : n = Least(RingCap, Len(c))
  OBVIOUS
<1>4. n \in 0..Len(c) /\ (Len(c) <= RingCap => n = Len(c))
  BY <1>2, <1>3, FlipperAssumption DEF Least
<1>5. Fit(q, s) = SubSeq(c, 1, n)
  BY <1>1, <1>3 DEF Fit
<1>6. SubSeq(c, 1, n) \in Seq(S)
  BY <1>2, <1>4, CutInTwo
<1>7. SubSeq(c, 1, Len(c)) = c
  BY <1>2
<1> QED
  BY <1>1, <1>2, <1>4, <1>5, <1>6, <1>7

\* The bytes of a frame are the host's.
LEMMA FrameParts ==
  ASSUME NEW k \in Kinds, NEW n \in Nat
  PROVE  /\ Z \in HostByte /\ Text(k, n) \in HostByte
         /\ Text(k, n) # Z /\ Text(k, n).id = n
         /\ Frame(k, n) \in Seq(HostByte) /\ Len(Frame(k, n)) = 3
         /\ Frame(k, n)[1] = Z /\ Frame(k, n)[2] = Text(k, n) /\ Frame(k, n)[3] = Z
<1>1. Z \in HostByte /\ Text(k, n) \in HostByte
  BY DEF HostByte
<1>2. Text(k, n).op # Z.op
  BY FlipperAssumption DEF Text, Z
<1>3. Text(k, n).id = n
  BY DEF Text
<1>4. PICK t \in HostByte : t = Text(k, n)
  BY <1>1
<1>5. PICK f : f = <<Z, t, Z>>
  OBVIOUS
<1>6. f \in Seq(HostByte) /\ Len(f) = 3 /\ f[1] = Z /\ f[2] = t /\ f[3] = Z
  BY <1>1, <1>5
<1> QED
  BY <1>1, <1>2, <1>3, <1>4, <1>5, <1>6 DEF Frame

\* The program starts idle, with nothing in its queues.
LEMMA FlipperInit ==
  ASSUME Init
  PROVE  FlipperInv
<1>1. <<>> \in Seq(HostByte) /\ <<>> \in Seq(Nat)
  BY EmptySeq
<1>2. FlipperType
  BY <1>1 DEF Init, FlipperType
<1>3. Places
  BY DEF Init, Places, Reads
<1>4. BaudAndLamp
  BY DEF Init, BaudAndLamp
<1>5. Sent = <<>> /\ Len(<<>>) = 0
  <2>1. Held = <<>>
    BY DEF Init, Held
  <2>2. <<>> \o <<>> = <<>>
    OBVIOUS
  <2> QED
    BY <2>1, <2>2 DEF Init, Sent
<1>6. Len(<<>>) = 0 /\ 0 % 3 = 0 /\ 3 * 0 = 0
  OBVIOUS
<1>7. IsStream(<<>>) /\ IsCount(<<>>)
  BY DEF IsStream, IsCount
<1>8. HostSide
  BY <1>5, <1>6, <1>7 DEF Init, HostSide
<1>9. TargetSide
  <2>1. <<>> \o <<>> = <<>>
    OBVIOUS
  <2> QED
    BY <1>6, <1>7, <2>1 DEF Init, TargetSide
<1> QED
  BY <1>2, <1>3, <1>4, <1>8, <1>9 DEF FlipperInv

\* A byte is taken from what the core was given.
LEMMA ByteTaken ==
  ASSUME FlipperType, buf # <<>>
  PROVE  Head(buf) \in HostByte /\ Tail(buf) \in Seq(HostByte)
BY HeadTailProperties DEF FlipperType

\* The host sends the first byte of a frame, or all of what is left of it.
LEMMA SendParts ==
  ASSUME FlipperType, HostSend
  PROVE  \E f \in Seq(HostByte) : \E n \in 1..Len(f) :
           /\ sending' = SubSeq(f, n + 1, Len(f))
           /\ usbRx' = Fit(usbRx, SubSeq(f, 1, n))
           /\ lost' = (lost \/ Len(usbRx) + n > RingCap)
           /\ \/ f = sending /\ frames' = frames
              \/ /\ sending = <<>> /\ frames' = frames + 1
                 /\ \E k \in Kinds : f = Frame(k, frames + 1)
<1>1. \A k \in Kinds : Frame(k, frames + 1) \in Seq(HostByte) /\ Len(Frame(k, frames + 1)) = 3
  <2>1. PICK m \in Nat : m = frames + 1
    BY DEF FlipperType
  <2>2. \A k \in Kinds : Frame(k, m) \in Seq(HostByte) /\ Len(Frame(k, m)) = 3
    BY FrameParts
  <2> QED
    BY <2>1, <2>2
<1>2. PICK f \in IF sending # <<>> THEN {sending} ELSE {Frame(k, frames + 1) : k \in Kinds} :
        \E n \in {1, Len(f)} :
          /\ sending' = SubSeq(f, n + 1, Len(f))
          /\ usbRx' = Fit(usbRx, SubSeq(f, 1, n))
          /\ lost' = (lost \/ Len(usbRx) + n > RingCap)
  BY DEF HostSend
<1>3. PICK n \in {1, Len(f)} :
        /\ sending' = SubSeq(f, n + 1, Len(f))
        /\ usbRx' = Fit(usbRx, SubSeq(f, 1, n))
        /\ lost' = (lost \/ Len(usbRx) + n > RingCap)
  BY <1>2
<1>4. frames' = IF sending = <<>> THEN frames + 1 ELSE frames
  BY DEF HostSend
<1>5. CASE sending # <<>>
  <2>1. f = sending /\ f \in Seq(HostByte) /\ Len(f) \in Nat /\ Len(f) >= 1
    BY <1>2, <1>5, LenProperties, EmptySeq DEF FlipperType
  <2>2. n \in 1..Len(f)
    BY <2>1
  <2> QED
    BY <1>3, <1>4, <1>5, <2>1, <2>2
<1>6. CASE sending = <<>>
  <2>1. PICK k \in Kinds : f = Frame(k, frames + 1)
    BY <1>2, <1>6
  <2>2. f \in Seq(HostByte) /\ n \in 1..Len(f)
    <3>1. f \in Seq(HostByte) /\ Len(f) = 3
      BY <1>1, <2>1
    <3>2. n = 1 \/ n = 3
      BY <1>3, <3>1
    <3> QED
      BY <3>1, <3>2
  <2> QED
    BY <1>3, <1>4, <1>6, <2>1, <2>2
<1> QED
  BY <1>5, <1>6

\* The types of the queues, of the core and of the loop.
LEMMA TypeNext ==
  ASSUME FlipperType, [Next]_vars
  PROVE  FlipperType'
<1>1. CASE HostSend
  <2>1. PICK f \in Seq(HostByte) : \E n \in 1..Len(f) :
          /\ sending' = SubSeq(f, n + 1, Len(f))
          /\ usbRx' = Fit(usbRx, SubSeq(f, 1, n))
    BY <1>1, SendParts
  <2>2. PICK n \in 1..Len(f) :
          /\ sending' = SubSeq(f, n + 1, Len(f))
          /\ usbRx' = Fit(usbRx, SubSeq(f, 1, n))
    BY <2>1
  <2>4. n \in 0..Len(f)
    BY <2>2, LenProperties
  <2>5. sending' \in Seq(HostByte) /\ usbRx' \in Seq(HostByte)
    BY <2>2, <2>4, CutInTwo, Fitting DEF FlipperType
  <2>6. frames' \in Nat
    BY <1>1 DEF HostSend, FlipperType
  <2> QED
    BY <1>1, <2>5, <2>6 DEF HostSend, FlipperType, LoopSame, coreVars, outVars
<1>2. CASE TargetSends
  <2>1. heard' \in Nat /\ <<heard + 1>> \in Seq(Nat)
    BY <1>2 DEF TargetSends, FlipperType
  <2>2. uartRx' \in Seq(Nat)
    BY <1>2, <2>1, Fitting DEF TargetSends, FlipperType
  <2> QED
    BY <1>2, <2>1, <2>2 DEF TargetSends, FlipperType, LoopSame, coreVars, outVars
<1>3. ASSUME NEW k \in Keys, Press(k) PROVE FlipperType'
  BY <1>3 DEF Press, FlipperType, LoopSame, coreVars, outVars
<1>4. CASE Bridge
  <2>1. /\ usbRx' \in Seq(HostByte) /\ handled' \in Seq(HostByte)
        /\ uartRx' \in Seq(Nat) /\ told' \in Seq(Nat)
    BY <1>4, TakenLeft, ConcatProperties DEF Bridge, FlipperType
  <2> QED
    BY <1>4, <2>1 DEF Bridge, FlipperType, coreVars, envVars
<1>5. CASE TakeUsb
  <2>1. usbRx' \in Seq(HostByte) /\ buf' \in Seq(HostByte)
    BY <1>5, TakenLeft DEF TakeUsb, FlipperType
  <2> QED
    BY <1>5, <2>1 DEF TakeUsb, FlipperType, coreVars, envVars, outVars
<1>6. CASE RxByte
  <2>1. Head(buf) \in HostByte /\ buf' \in Seq(HostByte) /\ Z \in HostByte /\ at = "rx"
    BY <1>6, ByteTaken DEF RxByte, HostByte
  <2>2. /\ UNCHANGED <<running, usbRx, uartRx, sending, frames, heard>>
        /\ mode' \in {"idle", "frame"} /\ (rx' = rx \/ rx' = <<>> \/ rx' = Append(rx, Head(buf)))
        /\ Ignore \/ Obey(rx)
    <3>1. UNCHANGED uartRx
      BY <1>6 DEF RxByte
    <3> QED
      BY <1>6, <3>1 DEF RxByte, envVars, FlipperType
  <2>3. rx' \in Seq(HostByte)
    <3>1. rx \in Seq(HostByte) /\ <<>> \in Seq(HostByte)
      BY EmptySeq DEF FlipperType
    <3>2. Append(rx, Head(buf)) \in Seq(HostByte)
      BY <2>1, <3>1, AppendProperties
    <3> QED
      BY <2>2, <3>1, <3>2
  <2>4. CASE Ignore
    BY <2>1, <2>2, <2>3, <2>4 DEF Ignore, NoRun, outVars, FlipperType
  <2>5. CASE Obey(rx)
    <3>1. handled' = handled \/ handled' = handled \o <<Z>> \o rx \o <<Z>>
      BY <2>5 DEF Obey, outVars
    <3>2. handled' \in Seq(HostByte)
      <4>1. <<Z>> \in Seq(HostByte)
        BY <2>1
      <4>2. handled \in Seq(HostByte) /\ rx \in Seq(HostByte)
        BY DEF FlipperType
      <4>3. handled \o <<Z>> \in Seq(HostByte)
        BY <4>1, <4>2, ConcatProperties
      <4>4. handled \o <<Z>> \o rx \in Seq(HostByte)
        BY <4>2, <4>3, ConcatProperties
      <4>5. handled \o <<Z>> \o rx \o <<Z>> \in Seq(HostByte)
        BY <4>1, <4>4, ConcatProperties
      <4> QED
        BY <3>1, <4>2, <4>5
    <3>3. told' = told
      BY <2>5 DEF Obey, outVars
    <3>4. (at' = at /\ back' = back) \/ (at' = "macro" /\ back' = "rx")
      BY <2>5 DEF Obey, NoRun, Run
    <3> QED
      BY <2>1, <2>2, <2>3, <3>2, <3>3, <3>4 DEF FlipperType
  <2> QED
    BY <2>2, <2>4, <2>5
<1>7. ASSUME Poll PROVE uartRx' \in Seq(Nat) /\ told' \in Seq(Nat)
  BY <1>7, TakenLeft, ConcatProperties DEF Poll, FlipperType
<1>8. CASE RxEnd
  BY <1>7, <1>8 DEF RxEnd, FlipperType, coreVars, envVars
<1>9. CASE MacroStep \/ MacroGoesOn \/ MacroEnd
  BY <1>9 DEF MacroStep, MacroGoesOn, MacroEnd, MacroSame, FlipperType, coreVars, envVars
<1>10. CASE MacroPoll
  BY <1>7, <1>10 DEF MacroPoll, MacroSame, FlipperType, coreVars, envVars
<1>11. CASE Key
  <2>1. at' \in {"top", "macro"} /\ back' \in {"top", "rx"}
    BY <1>11 DEF Key, Acts, OtherKey, OpenMacros, Enter, Select, RunMacro, CloseMacros,
                 BridgeBaud, Leave, Goto, Run, FlipperType
  <2> QED
    BY <1>11, <2>1 DEF Key, KeySame, FlipperType, coreVars, envVars, outVars
<1>12. CASE NoKey
  BY <1>12 DEF NoKey, FlipperType, coreVars, envVars, outVars
<1>13. CASE Quit
  BY <1>13, EmptySeq DEF Quit, FlipperType, coreVars, envVars, outVars
<1>14. CASE UNCHANGED vars
  BY <1>14 DEF vars, FlipperType, coreVars, envVars, outVars
<1> QED
  BY <1>1, <1>2, <1>3, <1>4, <1>5, <1>6, <1>8, <1>9, <1>10, <1>11, <1>12, <1>13, <1>14
  DEF Next, Loop

\* The core and the programs run outside the bridge, and the core gives way only
\* when it has no byte left.
LEMMA PlacesNext ==
  ASSUME FlipperType, Places, [Next]_vars
  PROVE  Places'
<1>1. CASE HostSend \/ TargetSends
  BY <1>1 DEF HostSend, TargetSends, LoopSame, coreVars, Places, Reads
<1>2. ASSUME NEW k \in Keys, Press(k) PROVE Places'
  BY <1>2 DEF Press, LoopSame, coreVars, Places, Reads
<1>3. CASE Bridge
  BY <1>3 DEF Bridge, coreVars, Places, Reads
<1>4. CASE TakeUsb
  BY <1>4 DEF TakeUsb, coreVars, Places, Reads
<1>5. CASE RxByte
  <2>1. PICK b : b = Head(buf)
    OBVIOUS
  <2>2. /\ at = "rx" /\ view # "bridge" /\ running /\ rx \in Seq(HostByte)
        /\ UNCHANGED <<view, running>>
    BY <1>5 DEF RxByte, Places, FlipperType
  <2>3. (at' = at /\ back' = back) \/ (at' = "macro" /\ back' = "rx")
    BY <1>5 DEF RxByte, Ignore, Obey, NoRun, Run
  <2>4. \/ mode' = mode /\ b # Z /\ rx' = IF mode = "idle" THEN rx ELSE Append(rx, b)
        \/ rx' = <<>>
    BY <1>5, <2>1 DEF RxByte
  <2>5. mode' = "idle" => rx' = <<>>
    BY <2>4 DEF Places
  <2>6. \A i \in 1..Len(rx') : rx'[i] # Z
    BY <2>2, <2>4, AppendProperties, LenProperties DEF Places
  <2> QED
    BY <2>2, <2>3, <2>5, <2>6 DEF Places, Reads
<1>6. CASE RxEnd
  BY <1>6 DEF RxEnd, coreVars, Places, Reads
<1>7. CASE MacroStep \/ MacroGoesOn \/ MacroPoll
  BY <1>7 DEF MacroStep, MacroGoesOn, MacroPoll, MacroSame, coreVars, Places, Reads
<1>8. CASE MacroEnd
  BY <1>8 DEF MacroEnd, MacroSame, coreVars, Places, Reads, FlipperType
<1>9. CASE Key
  <2>1. /\ at = "input" /\ running' /\ buf = <<>> /\ UNCHANGED <<mode, rx, buf>>
    BY <1>9 DEF Key, KeySame, coreVars, Places, Reads
  <2>2. at' = "top" \/ (at' = "macro" /\ back' = "top" /\ view' # "bridge")
    BY <1>9 DEF Key, Acts, OtherKey, OpenMacros, Enter, Select, RunMacro, CloseMacros,
                BridgeBaud, Leave, Goto, Run
  <2> QED
    BY <2>1, <2>2 DEF Places, Reads
<1>10. CASE NoKey
  BY <1>10 DEF NoKey, coreVars, Places, Reads
<1>11. CASE Quit
  BY <1>11 DEF Quit, coreVars, Places, Reads
<1>12. CASE UNCHANGED vars
  BY <1>12 DEF vars, coreVars, Places, Reads
<1> QED
  BY <1>1, <1>2, <1>3, <1>4, <1>5, <1>6, <1>7, <1>8, <1>9, <1>10, <1>11, <1>12
  DEF Next, Loop

\* The rate and the lamp change together with the view.
LEMMA LampNext ==
  ASSUME FlipperType, Places, BaudAndLamp, [Next]_vars
  PROVE  BaudAndLamp'
<1>1. CASE HostSend \/ TargetSends
  BY <1>1 DEF HostSend, TargetSends, LoopSame, baudVars, ledVars, BaudAndLamp
<1>2. ASSUME NEW k \in Keys, Press(k) PROVE BaudAndLamp'
  BY <1>2 DEF Press, LoopSame, baudVars, ledVars, BaudAndLamp
<1>3. CASE Bridge
  BY <1>3 DEF Bridge, baudVars, ledVars, BaudAndLamp
<1>4. CASE TakeUsb \/ RxEnd
  BY <1>4 DEF TakeUsb, RxEnd, baudVars, ledVars, BaudAndLamp
<1>5. CASE RxByte
  <2>1. at = "rx" /\ running /\ view # "bridge" /\ view' = view /\ uartBaud = baud /\ led = rgb
    BY <1>5 DEF RxByte, Places, BaudAndLamp
  <2>2. uartBaud' = baud'
    <3>1. UNCHANGED baudVars \/ (\E v : SetProto(v))
      BY <1>5 DEF RxByte, Ignore, Obey, NoProto
    <3> QED
      BY <2>1, <3>1 DEF SetProto, baudVars
  <2>3. led' = rgb'
    <3>1. UNCHANGED ledVars \/ (\E v : SetRgb(v))
      BY <1>5 DEF RxByte, Ignore, Obey, SetLed
    <3> QED
      BY <2>1, <3>1 DEF SetRgb, ledVars
  <2> QED
    BY <2>1, <2>2, <2>3 DEF BaudAndLamp
<1>6. CASE MacroStep
  <2>1. /\ at = "macro" /\ view # "bridge" /\ UNCHANGED <<view, running, baud, uartBaud>>
        /\ running
    BY <1>6 DEF MacroStep, MacroSame, Places, baudVars
  <2>2. UNCHANGED ledVars \/ (\E v : SetRgb(v))
    BY <1>6 DEF MacroStep, SetLed
  <2> QED
    BY <2>1, <2>2 DEF BaudAndLamp, SetRgb, ledVars
<1>7. CASE MacroGoesOn \/ MacroPoll \/ MacroEnd
  BY <1>7 DEF MacroGoesOn, MacroPoll, MacroEnd, MacroSame, baudVars, ledVars, BaudAndLamp
<1>8. CASE Key
  <2>1. running /\ running' = running
    BY <1>8 DEF Key, KeySame
  <2>2. CASE Acts
    BY <2>1, <2>2 DEF Acts, OpenMacros, Enter, Select, RunMacro, CloseMacros, BridgeBaud,
                      Leave, Goto, baudVars, ledVars, BaudAndLamp
  <2>3. CASE OtherKey
    BY <2>1, <2>3 DEF OtherKey, baudVars, ledVars, BaudAndLamp
  <2> QED
    BY <1>8, <2>2, <2>3 DEF Key
<1>9. CASE NoKey
  BY <1>9 DEF NoKey, baudVars, ledVars, BaudAndLamp
<1>10. CASE Quit
  BY <1>10 DEF Quit, BaudAndLamp
<1>11. CASE UNCHANGED vars
  BY <1>11 DEF vars, baudVars, ledVars, BaudAndLamp
<1> QED
  BY <1>1, <1>2, <1>3, <1>4, <1>5, <1>6, <1>7, <1>8, <1>9, <1>10, <1>11 DEF Next, Loop

-----------------------------------------------------------------------------
(* The target's bytes                                                      *)

\* A longer count.
LEMMA CountOn ==
  ASSUME NEW s \in Seq(Nat), IsCount(s), NEW n, n = Len(s) + 1
  PROVE  IsCount(s \o <<n>>) /\ Len(s \o <<n>>) = n
<1>1. Len(s) \in Nat /\ n \in Nat
  BY LenProperties
<1>2. <<n>> \in Seq(Nat) /\ Len(<<n>>) = 1 /\ <<n>>[1] = n
  BY <1>1
<1>3. PICK t : t = s \o <<n>>
  OBVIOUS
<1>4. /\ Len(t) = Len(s) + 1
      /\ \A k \in 1..(Len(s) + 1) : t[k] = IF k <= Len(s) THEN s[k] ELSE <<n>>[k - Len(s)]
  BY <1>2, <1>3, ConcatProperties
<1>5. ASSUME NEW k \in 1..Len(t) PROVE t[k] = k
  <2>0. k \in 1..(Len(s) + 1)
    BY <1>4
  <2>1. CASE k <= Len(s)
    <3>1. k \in 1..Len(s) /\ t[k] = s[k]
      BY <1>1, <1>4, <2>0, <2>1
    <3> QED
      BY <3>1 DEF IsCount
  <2>2. CASE ~(k <= Len(s))
    <3>1. k = n /\ k - Len(s) = 1
      BY <1>1, <2>0, <2>2
    <3> QED
      BY <1>2, <1>4, <2>0, <2>2, <3>1
  <2> QED
    BY <2>1, <2>2
<1> QED
  BY <1>1, <1>3, <1>4, <1>5 DEF IsCount

\* The start of a count is one.
LEMMA CountStart ==
  ASSUME NEW s \in Seq(Nat), NEW t \in Seq(Nat), IsCount(s \o t)
  PROVE  IsCount(s)
<1>1. PICK u : u = s \o t
  OBVIOUS
<1>2. /\ Len(s) \in Nat /\ Len(t) \in Nat /\ Len(u) = Len(s) + Len(t)
      /\ \A k \in 1..(Len(s) + Len(t)) : u[k] = IF k <= Len(s) THEN s[k] ELSE t[k - Len(s)]
  BY <1>1, LenProperties, ConcatProperties
<1>3. ASSUME NEW k \in 1..Len(s) PROVE s[k] = k
  <2>1. k \in 1..(Len(s) + Len(t)) /\ k <= Len(s) /\ k \in 1..Len(u)
    BY <1>2
  <2>2. u[k] = s[k]
    BY <1>2, <2>1
  <2> QED
    BY <1>1, <2>1, <2>2 DEF IsCount
<1> QED
  BY <1>3 DEF IsCount

\* The bytes of two places move from one to the other, over what is between.
Grouped(a, b, c) == (a \o b) \o c = a \o (b \o c)

\* The target's bytes.
LEMMA RegroupNat ==
  ASSUME NEW a \in Seq(Nat), NEW b \in Seq(Nat), NEW c \in Seq(Nat)
  PROVE  Grouped(a, b, c)
BY ConcatAssociative DEF Grouped

\* And the host's.
LEMMA Regroup ==
  ASSUME NEW a \in Seq(HostByte), NEW b \in Seq(HostByte), NEW c \in Seq(HostByte)
  PROVE  Grouped(a, b, c)
BY ConcatAssociative DEF Grouped

\* Taking some of the target's bytes moves them, in order, to what is told.
LEMMA Telling ==
  ASSUME FlipperType, uartRx' = Left(uartRx), told' = told \o Taken(uartRx)
  PROVE  told' \o uartRx' = told \o uartRx /\ told' \in Seq(Nat) /\ uartRx' \in Seq(Nat)
<1>1. PICK a \in Seq(Nat), b \in Seq(Nat) :
        a = Taken(uartRx) /\ b = Left(uartRx) /\ uartRx = a \o b
  BY TakenLeft DEF FlipperType
<1>2. told \in Seq(Nat)
  BY DEF FlipperType
<1>3. (told \o a) \o b = told \o (a \o b)
  <2>1. a \in Seq(Nat) /\ b \in Seq(Nat) /\ told \in Seq(Nat)
    BY <1>1, <1>2
  <2>2. Grouped(told, a, b)
    BY <2>1, RegroupNat
  <2> QED
    BY <2>2 DEF Grouped
<1>4. told \o a \in Seq(Nat)
  BY <1>1, <1>2, ConcatProperties
<1> QED
  BY <1>1, <1>3, <1>4

\* Through the bridge, the console tee and a waiting program every byte is told.
LEMMA TargetNext ==
  ASSUME FlipperType, Places, TargetSide, [Next]_vars
  PROVE  TargetSide'
<1>0. told \in Seq(Nat) /\ uartRx \in Seq(Nat) /\ heard \in Nat
  BY DEF FlipperType
<1>1. CASE HostSend
  <2>1. lost => lost'
    BY <1>1, SendParts
  <2>2. UNCHANGED <<told, uartRx, heard, muted, forward, running>>
    BY <1>1 DEF HostSend, LoopSame, coreVars, outVars
  <2> QED
    BY <2>1, <2>2 DEF TargetSide
<1>2. CASE TargetSends
  <2>1. UNCHANGED <<told, muted, forward, running>> /\ running
    BY <1>2 DEF TargetSends, LoopSame, coreVars, outVars
  <2>2. SUFFICES ASSUME ~lost', ~muted PROVE TargetSide'
    BY <2>1 DEF TargetSide
  <2>3. /\ ~lost /\ ~(Len(uartRx) + 1 > RingCap) /\ heard' = heard + 1
        /\ uartRx' = Fit(uartRx, <<heard + 1>>)
    BY <1>2, <2>2 DEF TargetSends
  <2>4. forward /\ IsCount(told) /\ IsCount(told \o uartRx) /\ Len(told \o uartRx) = heard
    BY <2>1, <2>2, <2>3 DEF TargetSide
  <2>5. PICK n \in Nat : n = heard + 1
    BY <1>0
  <2>6. <<n>> \in Seq(Nat) /\ Len(<<n>>) = 1
    OBVIOUS
  <2>7. uartRx' = uartRx \o <<n>>
    <3>1. Len(uartRx) + Len(<<n>>) <= RingCap
      BY <1>0, <2>3, <2>6, LenProperties, FlipperAssumption
    <3> QED
      BY <1>0, <2>3, <2>5, <2>6, <3>1, Fitting
  <2>8. told \o uartRx' = (told \o uartRx) \o <<n>>
    <3>1. told \in Seq(Nat) /\ uartRx \in Seq(Nat) /\ <<n>> \in Seq(Nat)
      BY <1>0, <2>6
    <3>2. Grouped(told, uartRx, <<n>>)
      BY <3>1, RegroupNat
    <3> QED
      BY <2>7, <3>2 DEF Grouped
  <2>9. told \o uartRx \in Seq(Nat)
    BY <1>0, ConcatProperties
  <2>10. IsCount(told \o uartRx') /\ Len(told \o uartRx') = n
    BY <2>4, <2>5, <2>8, <2>9, CountOn
  <2> QED
    BY <2>1, <2>3, <2>4, <2>5, <2>10 DEF TargetSide
<1>3. ASSUME NEW k \in Keys, Press(k) PROVE TargetSide'
  BY <1>3 DEF Press, LoopSame, coreVars, outVars, TargetSide
<1>4. ASSUME running, running' = running, forward => told' = told \o Taken(uartRx),
             uartRx' = Left(uartRx), UNCHANGED <<heard, lost, muted, forward>>
      PROVE  TargetSide'
  <2>1. SUFFICES ASSUME ~lost, ~muted PROVE TargetSide'
    BY <1>4 DEF TargetSide
  <2>2. forward /\ IsCount(told \o uartRx) /\ Len(told \o uartRx) = heard
    BY <1>4, <2>1 DEF TargetSide
  <2>3. /\ told' \o uartRx' = told \o uartRx /\ told' \in Seq(Nat) /\ uartRx' \in Seq(Nat)
    BY <1>4, <2>2, Telling
  <2>4. IsCount(told')
    BY <2>2, <2>3, CountStart
  <2> QED
    BY <1>4, <2>2, <2>3, <2>4 DEF TargetSide
<1>5. CASE Bridge
  BY <1>4, <1>5 DEF Bridge, coreVars, envVars
<1>6. CASE TakeUsb
  BY <1>6 DEF TakeUsb, coreVars, outVars, envVars, TargetSide
<1>7. CASE RxByte
  <2>1. UNCHANGED <<running, uartRx, told, heard, lost>>
    BY <1>7 DEF RxByte, Ignore, Obey, outVars, envVars
  <2>2. UNCHANGED <<forward, muted>> \/ \E v : SetProto(v)
    BY <1>7 DEF RxByte, Ignore, Obey, NoProto
  <2>3. CASE UNCHANGED <<forward, muted>>
    BY <2>1, <2>3 DEF TargetSide
  <2>4. ASSUME NEW v, SetProto(v) PROVE TargetSide'
    <3>1. SUFFICES ASSUME ~lost, ~muted' PROVE TargetSide'
      BY <2>1 DEF TargetSide
    <3>2. ~muted /\ forward'
      BY <2>4, <3>1 DEF SetProto
    <3> QED
      BY <2>1, <3>1, <3>2 DEF TargetSide
  <2> QED
    BY <2>2, <2>3, <2>4
<1>8. CASE RxEnd
  BY <1>4, <1>8 DEF RxEnd, Poll, coreVars, envVars, Places
<1>9. CASE MacroPoll
  BY <1>4, <1>9 DEF MacroPoll, Poll, MacroSame, coreVars, envVars, Places
<1>10. CASE MacroStep \/ MacroGoesOn \/ MacroEnd
  BY <1>10 DEF MacroStep, MacroGoesOn, MacroEnd, MacroSame, coreVars, envVars, TargetSide
<1>11. CASE Key
  BY <1>11 DEF Key, KeySame, coreVars, outVars, envVars, TargetSide
<1>12. CASE NoKey
  BY <1>12 DEF NoKey, coreVars, outVars, envVars, TargetSide
<1>13. CASE Quit
  BY <1>13 DEF Quit, coreVars, outVars, envVars, TargetSide
<1>14. CASE UNCHANGED vars
  BY <1>14 DEF vars, coreVars, outVars, envVars, TargetSide
<1> QED
  BY <1>1, <1>2, <1>3, <1>5, <1>6, <1>7, <1>8, <1>9, <1>10, <1>11, <1>12, <1>13, <1>14
  DEF Next, Loop

-----------------------------------------------------------------------------
(* The host's bytes                                                        *)

\* The places in a stream of frames.
LEMMA Thirds ==
  ASSUME NEW n \in Nat
  PROVE  /\ (3 * n) % 3 = 0 /\ (3 * n + 1) % 3 = 1 /\ (3 * n + 2) % 3 = 2
         /\ (3 * n + 3) % 3 = 0 /\ (3 * n + 3) \div 3 = n + 1
         /\ n % 3 = 0 => \E q \in Nat : n = 3 * q
<1>1. /\ (3 * n) % 3 = 0 /\ (3 * n + 1) % 3 = 1 /\ (3 * n + 2) % 3 = 2
      /\ (3 * n + 3) % 3 = 0 /\ (3 * n + 3) \div 3 = n + 1
  OBVIOUS
<1>2. n % 3 = 0 => n = 3 * (n \div 3) /\ n \div 3 \in Nat
  OBVIOUS
<1> QED
  BY <1>1, <1>2

\* Which byte may stand at the three places of a frame.
LEMMA BytePlaces ==
  ASSUME NEW b, NEW q \in Nat
  PROVE  /\ IsByte(b, 3 * q + 1) <=> b = Z
         /\ IsByte(b, 3 * q + 2) <=> b # Z /\ b.id = q + 1
         /\ IsByte(b, 3 * q + 3) <=> b = Z
<1>1. (3 * q + 2) + 1 = 3 * q + 3
  OBVIOUS
<1> QED
  BY <1>1, Thirds DEF IsByte

\* The places of what is put together of two.
LEMMA Joined ==
  ASSUME NEW S, NEW s \in Seq(S), NEW t \in Seq(S), NEW u, u = s \o t
  PROVE  /\ u \in Seq(S) /\ Len(s) \in Nat /\ Len(t) \in Nat /\ Len(u) = Len(s) + Len(t)
         /\ \A k \in 1..Len(s) : u[k] = s[k]
         /\ \A k \in 1..Len(t) : u[Len(s) + k] = t[k]
<1>1. /\ u \in Seq(S) /\ Len(s) \in Nat /\ Len(t) \in Nat /\ Len(u) = Len(s) + Len(t)
      /\ \A k \in 1..(Len(s) + Len(t)) : u[k] = IF k <= Len(s) THEN s[k] ELSE t[k - Len(s)]
  BY LenProperties, ConcatProperties
<1>2. ASSUME NEW k \in 1..Len(s) PROVE u[k] = s[k]
  <2>1. k \in 1..(Len(s) + Len(t)) /\ k <= Len(s)
    BY <1>1
  <2> QED
    BY <1>1, <2>1
<1>3. ASSUME NEW k \in 1..Len(t) PROVE u[Len(s) + k] = t[k]
  <2>1. /\ Len(s) + k \in 1..(Len(s) + Len(t)) /\ ~(Len(s) + k <= Len(s))
        /\ (Len(s) + k) - Len(s) = k
    BY <1>1
  <2> QED
    BY <1>1, <2>1
<1> QED
  BY <1>1, <1>2, <1>3

\* The start of the stream is a stream, and what follows it stands where it should.
LEMMA StreamParts ==
  ASSUME NEW s \in Seq(HostByte), NEW t \in Seq(HostByte), IsStream(s \o t)
  PROVE  IsStream(s) /\ \A k \in 1..Len(t) : IsByte(t[k], Len(s) + k)
<1>1. PICK u : u = s \o t
  OBVIOUS
<1>2. /\ Len(s) \in Nat /\ Len(t) \in Nat /\ Len(u) = Len(s) + Len(t)
      /\ \A k \in 1..Len(s) : u[k] = s[k]
      /\ \A k \in 1..Len(t) : u[Len(s) + k] = t[k]
  BY <1>1, Joined
<1>3. ASSUME NEW k \in 1..Len(s) PROVE IsByte(s[k], k)
  <2>1. k \in 1..Len(u)
    BY <1>2
  <2> QED
    BY <1>1, <1>2, <2>1 DEF IsStream
<1>4. ASSUME NEW k \in 1..Len(t) PROVE IsByte(t[k], Len(s) + k)
  <2>1. Len(s) + k \in 1..Len(u)
    BY <1>2
  <2> QED
    BY <1>1, <1>2, <2>1 DEF IsStream
<1> QED
  BY <1>3, <1>4 DEF IsStream

\* A frame more.
LEMMA StreamOn ==
  ASSUME NEW s \in Seq(HostByte), IsStream(s), NEW n \in Nat, Len(s) = 3 * n, NEW k \in Kinds
  PROVE  IsStream(s \o Frame(k, n + 1)) /\ Len(s \o Frame(k, n + 1)) = 3 * (n + 1)
<1>0. PICK m \in Nat : m = n + 1
  OBVIOUS
<1>1. PICK f : f = Frame(k, m)
  OBVIOUS
<1>2. /\ f \in Seq(HostByte) /\ Len(f) = 3 /\ f[1] = Z /\ f[2] # Z /\ f[2].id = n + 1
      /\ f[3] = Z
  BY <1>0, <1>1, FrameParts
<1>3. PICK u : u = s \o f
  OBVIOUS
<1>4. /\ Len(u) = Len(s) + Len(f)
      /\ \A i \in 1..Len(s) : u[i] = s[i]
      /\ \A i \in 1..Len(f) : u[Len(s) + i] = f[i]
  <2>1. s \in Seq(HostByte) /\ f \in Seq(HostByte)
    BY <1>2
  <2>2. Len(u) = Len(s) + Len(f)
    <3>1. Len(s \o f) = Len(s) + Len(f)
      BY <2>1, ConcatProperties
    <3> QED
      BY <1>3, <3>1
  <2>3. \A i \in 1..Len(s) : u[i] = s[i]
    BY <1>3, <2>1, Joined
  <2>4. \A i \in 1..Len(f) : u[Len(s) + i] = f[i]
    BY <1>3, <2>1, Joined
  <2> QED
    BY <2>2, <2>3, <2>4
<1>5. /\ u[3 * n + 1] = f[1] /\ u[3 * n + 2] = f[2] /\ u[3 * n + 3] = f[3]
      /\ Len(u) = 3 * n + 3
  BY <1>2, <1>4
<1>6. ASSUME NEW i \in 1..Len(u) PROVE IsByte(u[i], i)
  <2>1. i \in 1..Len(s) \/ i = 3 * n + 1 \/ i = 3 * n + 2 \/ i = 3 * n + 3
    BY <1>5
  <2>2. CASE i \in 1..Len(s)
    BY <1>4, <2>2 DEF IsStream
  <2>3. CASE i = 3 * n + 1
    BY <1>2, <1>5, <2>3, BytePlaces
  <2>4. CASE i = 3 * n + 2
    BY <1>2, <1>5, <2>4, BytePlaces
  <2>5. CASE i = 3 * n + 3
    BY <1>2, <1>5, <2>5, BytePlaces
  <2> QED
    BY <2>1, <2>2, <2>3, <2>4, <2>5
<1>7. Len(u) = 3 * (n + 1)
  BY <1>5
<1> QED
  BY <1>0, <1>1, <1>3, <1>6, <1>7 DEF IsStream

\* What is held, and all that was sent, are the host's bytes.
LEMMA SentType ==
  ASSUME FlipperType
  PROVE  /\ Held \in Seq(HostByte) /\ handled \o Held \in Seq(HostByte)
         /\ usbRx \o sending \in Seq(HostByte)
         /\ buf \o (usbRx \o sending) \in Seq(HostByte) /\ Sent \in Seq(HostByte)
<1>0. /\ usbRx \in Seq(HostByte) /\ sending \in Seq(HostByte) /\ buf \in Seq(HostByte)
      /\ handled \in Seq(HostByte) /\ rx \in Seq(HostByte)
  BY DEF FlipperType
<1>1. Held \in Seq(HostByte)
  <2>1. <<>> \in Seq(HostByte) /\ <<Z>> \in Seq(HostByte)
    BY EmptySeq DEF HostByte
  <2>2. <<Z>> \o rx \in Seq(HostByte)
    BY <1>0, <2>1, ConcatProperties
  <2> QED
    BY <2>1, <2>2 DEF Held
<1>2. handled \o Held \in Seq(HostByte)
  BY <1>0, <1>1, ConcatProperties
<1>3. usbRx \o sending \in Seq(HostByte)
  BY <1>0, ConcatProperties
<1>4. buf \o (usbRx \o sending) \in Seq(HostByte)
  BY <1>0, <1>3, ConcatProperties
<1>5. Sent \in Seq(HostByte)
  BY <1>2, <1>4, ConcatProperties DEF Sent
<1> QED
  BY <1>1, <1>2, <1>3, <1>4, <1>5

\* What was handled is the start of what was sent.
LEMMA StartIsStream ==
  ASSUME NEW h \in Seq(HostByte), NEW g \in Seq(HostByte), NEW r \in Seq(HostByte),
         IsStream((h \o g) \o r)
  PROVE  IsStream(h)
<1>1. h \o g \in Seq(HostByte)
  BY ConcatProperties
<1>2. IsStream(h \o g)
  BY <1>1, StreamParts
<1> QED
  BY <1>2, StreamParts

\* After a step, too.
LEMMA HandledStream ==
  ASSUME FlipperType', IsStream(Sent')
  PROVE  IsStream(handled')
<1>1. PICK h, x, r : /\ h = handled'
                     /\ x = Held' /\ r = buf' \o (usbRx' \o sending')
  OBVIOUS
<1>2. /\ usbRx' \in Seq(HostByte) /\ sending' \in Seq(HostByte)
      /\ buf' \in Seq(HostByte) /\ handled' \in Seq(HostByte) /\ rx' \in Seq(HostByte)
  BY DEF FlipperType
<1>3. x \in Seq(HostByte)
  <2>1. <<>> \in Seq(HostByte) /\ <<Z>> \in Seq(HostByte)
    BY EmptySeq DEF HostByte
  <2>2. <<Z>> \o rx' \in Seq(HostByte)
    BY <1>2, <2>1, ConcatProperties
  <2> QED
    BY <1>1, <2>1, <2>2 DEF Held
<1>4. r \in Seq(HostByte)
  BY <1>1, <1>2, ConcatProperties
<1>5. h \in Seq(HostByte)
  BY <1>1, <1>2
<1>6. IsStream((h \o x) \o r)
  BY <1>1 DEF Sent
<1> QED
  BY <1>1, <1>3, <1>4, <1>5, <1>6, StartIsStream

\* A step that takes no byte from the stream: they pass from hand to hand in order.
LEMMA StreamKept ==
  ASSUME FlipperType, FlipperType', HostSide, running, Sent' = Sent, frames' = frames,
         lost => lost', split => split',
         ~lost' /\ ~split' =>
           /\ view' = "bridge" => mode' = "idle"
           /\ view' # "bridge" => Len(handled') % 3 = 0
  PROVE  HostSide'
<1>1. SUFFICES ASSUME ~lost', ~split' PROVE HostSide'
  BY DEF HostSide
<1>2. IsStream(Sent) /\ Len(Sent) = 3 * frames
  BY <1>1 DEF HostSide
<1>3. IsStream(Sent')
  BY <1>2
<1>4. IsStream(handled')
  BY <1>3, HandledStream
<1>5. Len(Sent') = 3 * frames'
  BY <1>2
<1> QED
  BY <1>1, <1>3, <1>4, <1>5 DEF HostSide, IsStream

\* The host sends more of a frame, or a new one.
LEMMA HostSendStep ==
  ASSUME FlipperType, FlipperType', HostSide, HostSend
  PROVE  HostSide'
<1>0. /\ running /\ running' = running /\ UNCHANGED <<view, mode, rx, handled, buf, split>>
      /\ usbRx \in Seq(HostByte) /\ sending \in Seq(HostByte) /\ frames \in Nat
  BY DEF HostSend, LoopSame, coreVars, outVars, FlipperType
<1>1. PICK f \in Seq(HostByte), n \in Nat :
        /\ n \in 1..Len(f)
        /\ sending' = SubSeq(f, n + 1, Len(f))
        /\ usbRx' = Fit(usbRx, SubSeq(f, 1, n))
        /\ lost' = (lost \/ Len(usbRx) + n > RingCap)
        /\ \/ f = sending /\ frames' = frames
           \/ /\ sending = <<>> /\ frames' = frames + 1
              /\ \E k \in Kinds : f = Frame(k, frames + 1)
  BY SendParts
<1>2. SUFFICES ASSUME ~lost', ~split PROVE HostSide'
  BY <1>0 DEF HostSide
<1>3. ~lost /\ ~(Len(usbRx) + n > RingCap)
  BY <1>1, <1>2
<1>4. PICK a, b : a = SubSeq(f, 1, n) /\ b = SubSeq(f, n + 1, Len(f))
  OBVIOUS
<1>5. a \in Seq(HostByte) /\ b \in Seq(HostByte) /\ Len(a) = n /\ f = a \o b
  <2>1. n \in 0..Len(f)
    BY <1>1
  <2> QED
    BY <1>4, <2>1, CutInTwo
<1>6. usbRx' = usbRx \o a /\ sending' = b
  <2>1. Len(usbRx) + Len(a) <= RingCap
    BY <1>0, <1>1, <1>3, <1>5, LenProperties, FlipperAssumption
  <2> QED
    BY <1>0, <1>1, <1>4, <1>5, <2>1, Fitting
<1>7. usbRx' \o sending' = usbRx \o f
  <2>1. Grouped(usbRx, a, b)
    BY <1>0, <1>5, Regroup
  <2> QED
    BY <1>5, <1>6, <2>1 DEF Grouped
<1>8. Held' = Held
  BY <1>0 DEF Held
<1>9. /\ IsStream(Sent) /\ Len(Sent) = 3 * frames
      /\ view = "bridge" => mode = "idle"
      /\ view # "bridge" => Len(handled) % 3 = 0
  BY <1>0, <1>2, <1>3 DEF HostSide
<1>10. CASE f = sending /\ frames' = frames
  <2>1. Sent' = Sent
    BY <1>0, <1>7, <1>8, <1>10 DEF Sent
  <2> QED
    BY <1>0, <1>2, <1>3, <1>9, <1>10, <2>1, StreamKept
<1>11. ASSUME sending = <<>>, frames' = frames + 1, NEW k \in Kinds, f = Frame(k, frames + 1)
       PROVE  HostSide'
  <2>1. usbRx \o sending = usbRx
    BY <1>0, <1>11, ConcatEmptySeq
  <2>2. PICK h \in Seq(HostByte), u \in Seq(HostByte), c \in Seq(HostByte) :
          h = handled \o Held /\ u = usbRx /\ c = buf
    BY <1>0, SentType DEF FlipperType
  <2>3. Sent = h \o (c \o u)
    BY <2>1, <2>2 DEF Sent
  <2>4. Sent' = h \o (c \o (u \o f))
    BY <1>0, <1>7, <1>8, <2>2 DEF Sent
  <2>5. c \o u \in Seq(HostByte)
    BY <2>2, ConcatProperties
  <2>51. /\ c \in Seq(HostByte) /\ u \in Seq(HostByte) /\ h \in Seq(HostByte)
         /\ f \in Seq(HostByte)
    BY <1>1, <2>2
  <2>6. (c \o u) \o f = c \o (u \o f)
    <3>1. Grouped(c, u, f)
      BY <2>51, Regroup
    <3> QED
      BY <3>1 DEF Grouped
  <2>7. (h \o (c \o u)) \o f = h \o ((c \o u) \o f)
    <3>1. Grouped(h, c \o u, f)
      BY <2>5, <2>51, Regroup
    <3> QED
      BY <3>1 DEF Grouped
  <2>8. Sent' = Sent \o f
    BY <2>3, <2>4, <2>6, <2>7
  <2>9. IsStream(Sent \o f) /\ Len(Sent \o f) = 3 * (frames + 1)
    BY <1>0, <1>9, <1>11, SentType, StreamOn
  <2>10. IsStream(Sent') /\ Len(Sent') = 3 * frames'
    BY <1>11, <2>8, <2>9
  <2>11. IsStream(handled')
    BY <2>10, HandledStream
  <2> QED
    BY <1>0, <1>9, <2>10, <2>11 DEF HostSide, IsStream
<1> QED
  BY <1>1, <1>10, <1>11

\* A byte goes to the core.
LEMMA RxByteStep ==
  ASSUME FlipperType, FlipperType', Places, HostSide, RxByte
  PROVE  HostSide'
<1>0. /\ at = "rx" /\ view # "bridge" /\ running /\ buf # <<>> /\ buf' = Tail(buf)
      /\ UNCHANGED <<running, view, usbRx, sending, frames, lost, split>>
  BY DEF RxByte, Places, envVars
<1>1. PICK b \in HostByte : b = Head(buf)
  BY <1>0, ByteTaken
<1>2. SUFFICES ASSUME ~lost, ~split PROVE HostSide'
  BY <1>0 DEF HostSide
<1>3. IsStream(Sent) /\ Len(handled) % 3 = 0
  BY <1>0, <1>2 DEF HostSide
<1>4. PICK q \in Nat : Len(handled) = 3 * q
  <2>1. Len(handled) \in Nat
    BY LenProperties DEF FlipperType
  <2> QED
    BY <1>3, <2>1, Thirds
<1>5. PICK h \in Seq(HostByte), u \in Seq(HostByte), t \in Seq(HostByte) :
        h = handled \o Held /\ u = Tail(buf) /\ t = usbRx \o sending
  BY <1>0, ByteTaken, SentType
<1>6. <<b>> \in Seq(HostByte) /\ Len(<<b>>) = 1 /\ <<b>>[1] = b
  BY <1>1
<1>7. buf = <<b>> \o u
  <2>1. buf \in Seq(HostByte)
    BY DEF FlipperType
  <2>2. PICK n \in Nat : n = Len(buf) /\ n >= 1
    BY <1>0, <2>1, LenProperties, EmptySeq
  <2>3. /\ u \in Seq(HostByte) /\ Len(u) = n - 1 /\ b = buf[1]
        /\ \A k \in 1..(n - 1) : u[k] = buf[k + 1]
    BY <1>0, <1>1, <1>5, <2>1, <2>2, HeadTailProperties
  <2>4. PICK v : v = <<b>> \o u
    OBVIOUS
  <2>5. /\ v \in Seq(HostByte) /\ Len(v) = 1 + (n - 1) /\ v[1] = b
        /\ \A k \in 1..(n - 1) : v[1 + k] = u[k]
    BY <1>6, <2>3, <2>4, Joined
  <2>6. Len(v) = Len(buf)
    BY <2>2, <2>5
  <2>7. ASSUME NEW k \in 1..Len(v) PROVE v[k] = buf[k]
    <3>1. k \in 1..n
      BY <2>2, <2>6
    <3>2. CASE k = 1
      BY <2>3, <2>5, <3>2
    <3>3. CASE k # 1
      <4>1. PICK j \in 1..(n - 1) : k = j + 1 /\ k = 1 + j
        BY <3>1, <3>3
      <4> QED
        BY <2>3, <2>5, <4>1
    <3> QED
      BY <3>2, <3>3
  <2> QED
    BY <2>1, <2>4, <2>5, <2>6, <2>7, SeqEqual
<1>8. Sent = (h \o <<b>>) \o (u \o t)
  <2>1. PICK o \in Seq(HostByte) : o = <<b>>
    BY <1>6
  <2>2. h \o ((o \o u) \o t) = (h \o o) \o (u \o t)
    <3>1. /\ h \in Seq(HostByte) /\ o \in Seq(HostByte) /\ u \in Seq(HostByte)
          /\ t \in Seq(HostByte)
      BY <1>5, <2>1
    <3>2. PICK v \in Seq(HostByte) : v = u \o t
      BY <3>1, ConcatProperties
    <3>3. (o \o u) \o t = o \o v
      <4>1. Grouped(o, u, t)
        BY <3>1, Regroup
      <4> QED
        BY <3>2, <4>1 DEF Grouped
    <3>4. v \in Seq(HostByte)
      BY <3>2
    <3>5. (h \o o) \o v = h \o (o \o v)
      <4>1. h \in Seq(HostByte) /\ o \in Seq(HostByte) /\ v \in Seq(HostByte)
        BY <3>1, <3>4
      <4>2. Grouped(h, o, v)
        BY <4>1, Regroup
      <4> QED
        BY <4>2 DEF Grouped
    <3> QED
      BY <3>2, <3>3, <3>5
  <2>3. Sent = h \o ((o \o u) \o t)
    BY <1>5, <1>7, <2>1 DEF Sent
  <2> QED
    BY <2>1, <2>2, <2>3
<1>9. IsByte(b, Len(h) + 1) /\ IsStream(h)
  <2>1. h \o <<b>> \in Seq(HostByte) /\ u \o t \in Seq(HostByte)
    BY <1>5, <1>6, ConcatProperties
  <2>2. IsStream(h \o <<b>>)
    BY <1>3, <1>8, <2>1, StreamParts
  <2>3. IsStream(h) /\ \A k \in 1..Len(<<b>>) : IsByte(<<b>>[k], Len(h) + k)
    BY <1>5, <1>6, <2>2, StreamParts
  <2> QED
    BY <1>6, <2>3
<1>10. /\ handled \in Seq(HostByte) /\ rx \in Seq(HostByte) /\ mode \in {"idle", "frame"}
       /\ <<Z>> \in Seq(HostByte) /\ <<>> \in Seq(HostByte) /\ <<Z>> \o rx \in Seq(HostByte)
  <2>1. <<Z>> \in Seq(HostByte) /\ rx \in Seq(HostByte)
    BY DEF HostByte, FlipperType
  <2> QED
    BY <2>1, EmptySeq, ConcatProperties DEF FlipperType
<1>11. ASSUME handled' \o Held' = h \o <<b>>, Len(handled') % 3 = 0
       PROVE  HostSide'
  <2>1. Sent' = Sent
    BY <1>0, <1>5, <1>8, <1>11 DEF Sent
  <2> QED
    BY <1>0, <1>2, <1>11, <2>1, StreamKept
<1>12. CASE mode = "idle"
  <2>1. Held = <<>> /\ h = handled
    BY <1>5, <1>10, <1>12, ConcatEmptySeq DEF Held
  <2>2. b = Z
    BY <1>4, <1>9, <2>1, BytePlaces
  <2>3. mode' = "frame" /\ rx' = <<>> /\ handled' = handled
    BY <1>1, <1>12, <2>2 DEF RxByte, Ignore, outVars
  <2>4. Held' = <<Z>>
    BY <1>10, <2>3, ConcatEmptySeq DEF Held
  <2> QED
    BY <1>3, <1>11, <2>1, <2>2, <2>3, <2>4
<1>13. CASE mode = "frame"
  <2>1. Held = <<Z>> \o rx /\ h = handled \o (<<Z>> \o rx)
    BY <1>5, <1>13 DEF Held
  <2>2. PICK r : r = <<Z>> \o rx
    OBVIOUS
  <2>3. PICK l \in Nat : l = Len(rx)
    BY <1>10, LenProperties
  <2>4. Len(r) = l + 1 /\ \A k \in 1..l : r[1 + k] = rx[k]
    <3>1. Len(<<Z>>) = 1
      OBVIOUS
    <3>2. /\ Len(r) = Len(<<Z>>) + Len(rx)
          /\ \A k \in 1..Len(rx) : r[Len(<<Z>>) + k] = rx[k]
      BY <1>10, <2>2, Joined
    <3> QED
      BY <2>3, <3>1, <3>2
  <2>5. Len(h) = 3 * q + l + 1 /\ \A k \in 1..(l + 1) : IsByte(r[k], 3 * q + k)
    <3>1. h = handled \o r /\ r \in Seq(HostByte)
      BY <1>10, <2>1, <2>2
    <3>2. Len(h) = Len(handled) + Len(r)
      BY <1>10, <3>1, Joined
    <3>3. \A k \in 1..Len(r) : IsByte(r[k], Len(handled) + k)
      BY <1>9, <1>10, <3>1, StreamParts
    <3> QED
      BY <1>4, <2>4, <3>2, <3>3
  <2>6. l < 2
    <3>1. SUFFICES ASSUME l >= 2 PROVE FALSE
      BY <2>3
    <3>2. r[3] = rx[2] /\ 3 \in 1..(l + 1) /\ 2 \in 1..Len(rx)
      BY <2>3, <2>4, <3>1
    <3>3. IsByte(r[3], 3 * q + 3)
      BY <2>5, <3>2
    <3>4. rx[2] = Z
      BY <3>2, <3>3, BytePlaces
    <3> QED
      BY <3>2, <3>4 DEF Places
  <2>7. CASE l = 0
    <3>1. IsByte(b, 3 * q + 2)
      BY <1>9, <2>5, <2>7
    <3>2. b # Z
      BY <3>1, BytePlaces
    <3>3. mode' = "frame" /\ rx' = Append(rx, b) /\ handled' = handled
      BY <1>1, <1>13, <3>2 DEF RxByte, Ignore, outVars
    <3>4. Append(rx, b) = rx \o <<b>>
      BY <1>1, <1>10
    <3>5. Held' = <<Z>> \o (rx \o <<b>>)
      BY <3>3, <3>4 DEF Held
    <3>6. <<Z>> \o (rx \o <<b>>) = (<<Z>> \o rx) \o <<b>>
      <4>1. <<b>> \in Seq(HostByte) /\ <<Z>> \in Seq(HostByte) /\ rx \in Seq(HostByte)
        BY <1>6, <1>10
      <4>2. Grouped(<<Z>>, rx, <<b>>)
        BY <4>1, Regroup
      <4> QED
        BY <4>2 DEF Grouped
    <3>7. handled \o ((<<Z>> \o rx) \o <<b>>) = (handled \o (<<Z>> \o rx)) \o <<b>>
      <4>1. /\ <<b>> \in Seq(HostByte) /\ <<Z>> \o rx \in Seq(HostByte)
            /\ handled \in Seq(HostByte)
        BY <1>6, <1>10
      <4>2. Grouped(handled, <<Z>> \o rx, <<b>>)
        BY <4>1, Regroup
      <4> QED
        BY <4>2 DEF Grouped
    <3> QED
      BY <1>3, <1>11, <2>1, <3>3, <3>5, <3>6, <3>7
  <2>8. CASE l = 1
    <3>1. IsByte(b, 3 * q + 3)
      <4>1. Len(h) + 1 = 3 * q + 3
        BY <2>5, <2>8
      <4> QED
        BY <1>9, <4>1
    <3>2. b = Z
      BY <3>1, BytePlaces
    <3>3. rx # <<>> /\ ~(Len(rx) > 1)
      <4>1. Len(rx) = 1
        BY <2>3, <2>8
      <4>2. rx # <<>>
        <5>1. Len(<<>>) = 0
          OBVIOUS
        <5>2. SUFFICES ASSUME rx = <<>> PROVE FALSE
          OBVIOUS
        <5>3. Len(rx) = 0
          BY <5>1, <5>2
        <5> QED
          BY <4>1, <5>3
      <4>3. ~(Len(rx) > 1)
        BY <4>1
      <4> QED
        BY <4>2, <4>3
    <3>4. mode' = "idle" /\ rx' = <<>> /\ Obey(rx)
      BY <1>1, <1>13, <3>2, <3>3 DEF RxByte
    <3>5. handled' = handled \o <<Z>> \o rx \o <<Z>>
      BY <3>3, <3>4 DEF Obey
    <3>6. PICK g : g = handled \o <<Z>> \o rx \o <<Z>>
      OBVIOUS
    <3>7. (handled \o <<Z>>) \o rx = h
      <4>1. handled \in Seq(HostByte) /\ <<Z>> \in Seq(HostByte) /\ rx \in Seq(HostByte)
        BY <1>10
      <4>2. Grouped(handled, <<Z>>, rx)
        BY <4>1, Regroup
      <4> QED
        BY <2>1, <4>2 DEF Grouped
    <3>8. g = h \o <<b>> /\ g \in Seq(HostByte) /\ Len(g) = Len(h) + 1
      <4>1. g = h \o <<b>>
        BY <3>2, <3>6, <3>7
      <4> QED
        BY <1>5, <1>6, <4>1, Joined
    <3>9. Len(g) = 3 * q + 3
      BY <2>5, <2>8, <3>8
    <3>10. Held' = <<>> /\ handled' = g
      BY <3>4, <3>5, <3>6 DEF Held
    <3>11. handled' \o Held' = h \o <<b>>
      BY <3>8, <3>10, ConcatEmptySeq
    <3>12. Len(handled') % 3 = 0
      BY <3>9, <3>10, Thirds
    <3> QED
      BY <1>11, <3>11, <3>12
  <2> QED
    BY <2>6, <2>7, <2>8
<1> QED
  BY <1>10, <1>12, <1>13

\* A turn of the bridge passes bytes on.
LEMMA BridgeStep ==
  ASSUME FlipperType, FlipperType', Places, HostSide, Bridge
  PROVE  HostSide'
<1>0. /\ running /\ view = "bridge" /\ buf = <<>>
      /\ UNCHANGED <<running, view, buf, mode, rx, sending, frames, lost, split>>
      /\ usbRx' = Left(usbRx) /\ handled' = handled \o Taken(usbRx)
  BY DEF Bridge, Places, Reads, coreVars, envVars
<1>1. SUFFICES ASSUME ~lost, ~split PROVE HostSide'
  BY <1>0 DEF HostSide
<1>2. Held = <<>> /\ Held' = <<>> /\ mode = "idle"
  BY <1>0, <1>1 DEF HostSide, Held
<1>3. PICK a \in Seq(HostByte), b \in Seq(HostByte) :
        a = Taken(usbRx) /\ b = Left(usbRx) /\ usbRx = a \o b
  <2>1. usbRx \in Seq(HostByte)
    BY DEF FlipperType
  <2>2. /\ Taken(usbRx) \in Seq(HostByte) /\ Left(usbRx) \in Seq(HostByte)
        /\ usbRx = Taken(usbRx) \o Left(usbRx)
    BY <2>1, TakenLeft
  <2> QED
    BY <2>2
<1>4. /\ handled \in Seq(HostByte) /\ sending \in Seq(HostByte)
      /\ a \in Seq(HostByte) /\ b \in Seq(HostByte)
  BY <1>3 DEF FlipperType
<1>5. PICK v \in Seq(HostByte) : v = b \o sending
  BY <1>4, ConcatProperties
<1>6. PICK g \in Seq(HostByte) : g = handled \o a
  BY <1>4, ConcatProperties
<1>7. v \in Seq(HostByte) /\ g \in Seq(HostByte)
  BY <1>5, <1>6
<1>8. (a \o b) \o sending = a \o v
  <2>1. Grouped(a, b, sending)
    BY <1>4, Regroup
  <2> QED
    BY <1>5, <2>1 DEF Grouped
<1>9. g \o v = handled \o (a \o v)
  <2>1. Grouped(handled, a, v)
    BY <1>4, <1>7, Regroup
  <2> QED
    BY <1>6, <2>1 DEF Grouped
<1>10. Sent = handled \o (a \o v)
  <2>1. handled \o <<>> = handled
    BY <1>4, ConcatEmptySeq
  <2>2. <<>> \o (a \o v) = a \o v
    <3>1. a \o v \in Seq(HostByte)
      BY <1>4, <1>7, ConcatProperties
    <3> QED
      BY <3>1, ConcatEmptySeq
  <2> QED
    BY <1>0, <1>2, <1>3, <1>8, <2>1, <2>2 DEF Sent
<1>11. Sent' = g \o v
  <2>1. g \o <<>> = g
    BY <1>7, ConcatEmptySeq
  <2>2. <<>> \o v = v
    BY <1>7, ConcatEmptySeq
  <2> QED
    BY <1>0, <1>2, <1>3, <1>5, <1>6, <2>1, <2>2 DEF Sent
<1>12. Sent' = Sent
  BY <1>9, <1>10, <1>11
<1> QED
  BY <1>0, <1>2, <1>12, StreamKept

\* The core is given bytes.
LEMMA TakeUsbStep ==
  ASSUME FlipperType, FlipperType', Places, HostSide, TakeUsb
  PROVE  HostSide'
<1>0. /\ running /\ view # "bridge" /\ buf = <<>>
      /\ UNCHANGED <<running, view, handled, mode, rx, sending, frames, lost, split>>
      /\ usbRx' = Left(usbRx) /\ buf' = Taken(usbRx)
  BY DEF TakeUsb, Places, Reads, coreVars, outVars, envVars
<1>1. Held' = Held
  BY <1>0 DEF Held
<1>2. PICK a \in Seq(HostByte), b \in Seq(HostByte) :
        a = Taken(usbRx) /\ b = Left(usbRx) /\ usbRx = a \o b
  <2>1. usbRx \in Seq(HostByte)
    BY DEF FlipperType
  <2>2. /\ Taken(usbRx) \in Seq(HostByte) /\ Left(usbRx) \in Seq(HostByte)
        /\ usbRx = Taken(usbRx) \o Left(usbRx)
    BY <2>1, TakenLeft
  <2> QED
    BY <2>2
<1>3. sending \in Seq(HostByte) /\ a \in Seq(HostByte) /\ b \in Seq(HostByte)
  BY <1>2 DEF FlipperType
<1>4. <<>> \o (usbRx \o sending) = usbRx \o sending
  BY SentType, ConcatEmptySeq
<1>5. (a \o b) \o sending = a \o (b \o sending)
  <2>1. Grouped(a, b, sending)
    BY <1>3, Regroup
  <2> QED
    BY <2>1 DEF Grouped
<1>6. buf' \o (usbRx' \o sending') = buf \o (usbRx \o sending)
  BY <1>0, <1>2, <1>4, <1>5
<1>7. Sent' = Sent
  BY <1>0, <1>1, <1>6 DEF Sent
<1>8. ~lost' /\ ~split' =>
        /\ view' = "bridge" => mode' = "idle"
        /\ view' # "bridge" => Len(handled') % 3 = 0
  BY <1>0 DEF HostSide
<1> QED
  BY <1>0, <1>7, <1>8, StreamKept

\* The view may change when no frame is in the middle: the key says if one is.
LEMMA KeyStep ==
  ASSUME FlipperType, HostSide, Key
  PROVE  HostSide'
<1>1. UNCHANGED <<running, usbRx, buf, mode, rx, handled, sending, frames, lost>>
  BY DEF Key, KeySame, coreVars, outVars, envVars
<1>2. Sent' = Sent
  BY <1>1 DEF Sent, Held
<1>3. \/ split' = split /\ (view' = "bridge" <=> view = "bridge")
      \/ Splits
  BY DEF Key, Acts, OtherKey, OpenMacros, Enter, Select, RunMacro, CloseMacros, BridgeBaud,
         Leave, Goto, NoSplit
<1>4. CASE split' = split /\ (view' = "bridge" <=> view = "bridge")
  BY <1>1, <1>2, <1>4 DEF HostSide, IsStream
<1>5. CASE Splits
  <2>1. SUFFICES ASSUME ~lost, ~split' PROVE HostSide'
    BY <1>1 DEF HostSide
  <2>2. ~split /\ mode # "frame" /\ ~(Len(handled) % 3 # 0)
    BY <1>5, <2>1 DEF Splits
  <2>3. Len(handled) % 3 = 0 /\ mode = "idle"
    BY <2>2 DEF FlipperType
  <2> QED
    BY <1>1, <1>2, <2>1, <2>2, <2>3 DEF HostSide, IsStream
<1> QED
  BY <1>3, <1>4, <1>5

\* Every byte of the host is where it should be, whatever step comes.
LEMMA HostNext ==
  ASSUME FlipperType, FlipperType', Places, HostSide, [Next]_vars
  PROVE  HostSide'
<1>1. ASSUME UNCHANGED <<running, view, usbRx, buf, mode, rx, handled, sending, frames, split>>,
             lost => lost'
      PROVE  HostSide'
  <2>1. Sent' = Sent
    BY <1>1 DEF Sent, Held
  <2> QED
    BY <1>1, <2>1 DEF HostSide, IsStream
<1>2. CASE TargetSends
  BY <1>1, <1>2 DEF TargetSends, LoopSame, coreVars, outVars
<1>3. ASSUME NEW k \in Keys, Press(k) PROVE HostSide'
  BY <1>1, <1>3 DEF Press, LoopSame, coreVars, outVars
<1>4. CASE RxEnd
  BY <1>1, <1>4 DEF RxEnd, coreVars, envVars
<1>5. CASE MacroStep \/ MacroGoesOn \/ MacroPoll \/ MacroEnd
  BY <1>1, <1>5 DEF MacroStep, MacroGoesOn, MacroPoll, MacroEnd, MacroSame, coreVars, envVars
<1>6. CASE NoKey
  BY <1>1, <1>6 DEF NoKey, coreVars, outVars, envVars
<1>7. CASE Quit
  <2>1. UNCHANGED <<view, mode, handled, lost, split>> /\ ~running'
    BY <1>7 DEF Quit, coreVars, outVars, envVars
  <2> QED
    BY <2>1 DEF HostSide, IsStream
<1>8. CASE UNCHANGED vars
  BY <1>1, <1>8 DEF vars, coreVars, outVars, envVars
<1> QED
  BY <1>2, <1>3, <1>4, <1>5, <1>6, <1>7, <1>8, HostSendStep, RxByteStep, BridgeStep,
     TakeUsbStep, KeyStep DEF Next, Loop

-----------------------------------------------------------------------------
(* The theorems                                                            *)

\* Every step keeps the whole invariant.
LEMMA FlipperNext ==
  ASSUME FlipperInv, [Next]_vars
  PROVE  FlipperInv'
<1>1. FlipperType /\ Places /\ BaudAndLamp /\ HostSide /\ TargetSide
  BY DEF FlipperInv
<1>2. FlipperType'
  BY <1>1, TypeNext
<1> QED
  BY <1>1, <1>2, PlacesNext, LampNext, HostNext, TargetNext DEF FlipperInv

\* When the queues are empty nothing is held back: the core has no part of a frame.
LEMMA NothingHeld ==
  ASSUME FlipperType, Places, HostSide, running, ~lost, ~split, sending = <<>>, usbRx = <<>>,
         buf = <<>>
  PROVE  Len(handled) = 3 * frames
<1>0. /\ handled \in Seq(HostByte) /\ rx \in Seq(HostByte) /\ frames \in Nat
      /\ <<Z>> \in Seq(HostByte) /\ mode \in {"idle", "frame"}
  BY DEF FlipperType, HostByte
<1>1. /\ IsStream(Sent) /\ Len(Sent) = 3 * frames
      /\ view = "bridge" => mode = "idle"
      /\ view # "bridge" => Len(handled) % 3 = 0
  BY DEF HostSide
<1>2. Sent = handled \o Held
  <2>1. <<>> \o <<>> = <<>>
    OBVIOUS
  <2>2. handled \o Held \in Seq(HostByte)
    BY SentType
  <2>3. (handled \o Held) \o <<>> = handled \o Held
    BY <2>2, ConcatEmptySeq
  <2> QED
    BY <2>1, <2>3 DEF Sent
<1>3. CASE mode = "idle"
  <2>1. handled \o <<>> = handled
    BY <1>0, ConcatEmptySeq
  <2>2. Held = <<>>
    BY <1>3 DEF Held
  <2> QED
    BY <1>1, <1>2, <2>1, <2>2
<1>4. CASE mode = "frame"
  <2>0. view # "bridge" /\ Len(handled) % 3 = 0
    BY <1>1, <1>4
  <2>1. PICK r : r = <<Z>> \o rx
    OBVIOUS
  <2>2. PICK l \in Nat : l = Len(rx)
    BY <1>0, LenProperties
  <2>3. r \in Seq(HostByte) /\ Len(r) = l + 1 /\ \A k \in 1..l : r[1 + k] = rx[k]
    <3>1. Len(<<Z>>) = 1
      OBVIOUS
    <3>2. /\ r \in Seq(HostByte) /\ Len(r) = Len(<<Z>>) + Len(rx)
          /\ \A k \in 1..Len(rx) : r[Len(<<Z>>) + k] = rx[k]
      BY <1>0, <2>1, Joined
    <3> QED
      BY <2>2, <3>1, <3>2
  <2>4. Len(handled) \in Nat
    BY <1>0, LenProperties
  <2>5. PICK q \in Nat : Len(handled) = 3 * q
    BY <2>0, <2>4, Thirds
  <2>6. Sent = handled \o r
    BY <1>2, <1>4, <2>1 DEF Held
  <2>7. Len(Sent) = 3 * q + (l + 1)
    <3>1. Len(handled \o r) = Len(handled) + Len(r)
      BY <1>0, <2>3, ConcatProperties
    <3> QED
      BY <2>3, <2>5, <2>6, <3>1
  <2>8. \A k \in 1..Len(r) : IsByte(r[k], Len(handled) + k)
    BY <1>0, <1>1, <2>3, <2>6, StreamParts
  <2>9. l >= 2
    BY <1>0, <1>1, <2>2, <2>5, <2>7
  <2>10. r[3] = rx[2] /\ 3 \in 1..Len(r) /\ 2 \in 1..Len(rx)
    BY <2>2, <2>3, <2>9
  <2>11. IsByte(r[3], 3 * q + 3)
    BY <2>5, <2>8, <2>10
  <2>12. rx[2] = Z
    BY <2>5, <2>10, <2>11, BytePlaces
  <2> QED
    BY <2>10, <2>12 DEF Places
<1> QED
  BY <1>0, <1>3, <1>4

\* The invariant says what each side has had.
LEMMA InvBothWays ==
  ASSUME FlipperInv
  PROVE  BothWaysExact
<1>0. FlipperType /\ Places /\ HostSide /\ TargetSide
  BY DEF FlipperInv
<1>1. /\ handled \in Seq(HostByte) /\ told \in Seq(Nat) /\ uartRx \in Seq(Nat)
      /\ usbRx \in Seq(HostByte) /\ sending \in Seq(HostByte) /\ buf \in Seq(HostByte)
  BY <1>0 DEF FlipperType
<1>2. DOMAIN handled = 1..Len(handled) /\ DOMAIN told = 1..Len(told)
  BY <1>1, LenProperties
<1>3. ASSUME ~lost, ~split
      PROVE  /\ \A i \in DOMAIN handled : IsByte(handled[i], i)
             /\ running /\ sending \o usbRx \o buf = <<>> => Len(handled) = 3 * frames
  <2>1. \A i \in DOMAIN handled : IsByte(handled[i], i)
    BY <1>0, <1>2, <1>3 DEF HostSide, IsStream
  <2>2. ASSUME running, sending \o usbRx \o buf = <<>> PROVE Len(handled) = 3 * frames
    <3>1. PICK c \in Seq(HostByte) : c = sending \o usbRx
      BY <1>1, ConcatProperties
    <3>2. c \in Seq(HostByte) /\ c \o buf = <<>>
      BY <2>2, <3>1
    <3>3. c = <<>> /\ buf = <<>>
      BY <1>1, <3>2, ConcatEmptySeq
    <3>4. sending = <<>> /\ usbRx = <<>>
      <4>1. sending \o usbRx = <<>>
        BY <3>1, <3>3
      <4> QED
        BY <1>1, <4>1, ConcatEmptySeq
    <3> QED
      BY <1>0, <1>3, <2>2, <3>3, <3>4, NothingHeld
  <2> QED
    BY <2>1, <2>2
<1>4. ASSUME ~lost, ~muted
      PROVE  /\ \A i \in DOMAIN told : told[i] = i
             /\ running /\ uartRx = <<>> => Len(told) = heard
  <2>1. \A i \in DOMAIN told : told[i] = i
    BY <1>0, <1>2, <1>4 DEF TargetSide, IsCount
  <2>2. ASSUME running, uartRx = <<>> PROVE Len(told) = heard
    <3>1. Len(told \o uartRx) = heard
      BY <1>0, <1>4, <2>2 DEF TargetSide
    <3>2. told \o <<>> = told
      BY <1>1, ConcatEmptySeq
    <3> QED
      BY <2>2, <3>1, <3>2
  <2> QED
    BY <2>1, <2>2
<1> QED
  BY <1>3, <1>4 DEF BothWaysExact

\* The invariant holds.
LEMMA FlipperInvariant == Spec => []FlipperInv
<1>1. Init => FlipperInv
  BY FlipperInit
<1>2. FlipperInv /\ [Next]_vars => FlipperInv'
  BY FlipperNext
<1> QED
  BY <1>1, <1>2, PTL DEF Spec

\* Outside the bridge the UART has the host's rate and the LED the host's colour, in
\* it the bridge's rate and blue, for all rates, programs and keys (the key handling of
\* duta_app, with duta_bridge_set_baud and hal_proto_set).
THEOREM RateAndLampFollow == Spec => []BaudAndLamp
<1>1. FlipperInv => BaudAndLamp
  BY DEF FlipperInv
<1> QED
  BY <1>1, FlipperInvariant, PTL

\* With rings and buffers of any size, every byte of the host is obeyed or passed on
\* and every byte of the target told, once and in order, whatever the user opens
\* (the loop of duta_app, skrit_dev_rx, skrit_dev_poll).
THEOREM BridgeIsExact == Spec => []BothWaysExact
<1>1. FlipperInv => BothWaysExact
  BY InvBothWays
<1> QED
  BY <1>1, FlipperInvariant, PTL
=============================================================================
