----------------------------- MODULE Ch55x_proofs -----------------------------
(***************************************************************************)
(* Theorems about the CH552 firmware: on both ports and the control        *)
(* endpoint the bytes are exact, and the CMD receiver is in phase with the *)
(* host.                                                                   *)
(***************************************************************************)
EXTENDS Ch55x, SequenceTheorems, TLAPS

\* What the firmware says on its ports.
Said == {"target", "ok", "badargs", "badcrc", "err", Zero, Eol}
          \cup {Meaning[x].t : x \in DOMAIN Meaning}

\* The two directions of a port, the call of the loop and the histories.
PortType == [count : Nat, point : Nat, out : Seq(Bytes), rx : {"ack", "nak"}, tog : {0, 1},
             in : Seq(Said), wp : Nat, tlen : Nat, tx : {"ack", "nak"},
             busy : BOOLEAN, dtr : BOOLEAN]
CallType == [at : {"idle"}] \cup [at : {"arming"}, p : Ports]
              \cup [at : {"fetched"}, p : Ports, d : Bytes \cup {Garbage}, pt : Nat]
              \cup [at : {"loaded"}, p : Ports, d : Bytes \cup {Garbage}, c : Nat]
UsbType ==
    /\ ep \in [Ports -> PortType] /\ op \in CallType
    /\ due \in [Ports -> Seq(Bytes)] /\ owed \in [Ports -> Seq(Said)]
    /\ torn \in [Ports -> SUBSET {"out", "in"}]

\* The place in the packet of the byte that the loop reads next, or is reading.
Place(p) == IF op.at = "loaded" /\ op.p = p THEN ep[p].point ELSE ep[p].point + 1

\* A packet lies unread behind the place, and the count is what is left of it; while
\* bytes are left the endpoint takes no other.
OutInv(p) ==
    /\ Len(ep[p].out) <= Pkt
    /\ "out" \notin torn[p] =>
        /\ ep[p].count = 0 => due[p] = <<>> /\ ~Reading(p)
        /\ ep[p].count > 0 =>
             /\ ep[p].rx = "nak" /\ Place(p) >= 1
             /\ Place(p) + ep[p].count = Len(ep[p].out) + 1
             /\ due[p] = SubSeq(ep[p].out, Place(p), Len(ep[p].out))
        /\ Reading(p) => op.d = ep[p].out[Place(p)]
        /\ op.at = "fetched" /\ op.p = p => op.pt = ep[p].point
        /\ op.at = "loaded" /\ op.p = p => op.c = ep[p].count

\* The buffer holds what is owed: before the write pointer, or in the packet on its way.
InInv(p) ==
    /\ ep[p].wp <= Len(ep[p].in) /\ ep[p].tlen <= Len(ep[p].in)
    /\ ep[p].busy => ep[p].wp = 0 /\ ~Arming(p)
    /\ ~ep[p].busy /\ ~Arming(p) => ep[p].tx = "nak" /\ owed[p] = SubSeq(ep[p].in, 1, ep[p].wp)
    /\ ep[p].tx = "ack" => owed[p] = SubSeq(ep[p].in, 1, ep[p].tlen)
    /\ ep[p].tx = "ack" /\ Arming(p) => ep[p].tlen = ep[p].wp
    /\ "in" \notin torn[p] /\ (ep[p].busy \/ Arming(p)) => ep[p].tx = "ack"

UsbInv == UsbType /\ \A p \in Ports : OutInv(p) /\ InInv(p)

\* The control endpoint and the transfer the host is in.
CtlType == [req : Requests \cup {NoTransfer}, left : Nat, tlen : Nat, rx : {"ack", "stall"},
            tx : {"ack", "nak", "stall"}, addr : {0, 1}, boot : BOOLEAN, line : [Ports -> Bauds]]
HostType == {NoTransfer} \cup [r : Requests, k : {"open", "in done"}, got : Nat]

\* A descriptor is cut into pieces that together are what was asked for.
CtlInv ==
    /\ ctl \in CtlType /\ host \in HostType
    /\ host.k = "open" => ctl.req = host.r
    /\ host.k = "open" /\ host.r.k = "desc" =>
         /\ host.got + ctl.tlen + ctl.left = Smaller(host.r.size, host.r.wlen)
         /\ ctl.tlen = Smaller(ctl.left + ctl.tlen, Ep0Size)
    /\ DescriptorExact

\* The packets that the device has not seen yet.
Coming == IF usb.tog["B"] = ep["B"].tog THEN usb.plan["B"] ELSE Tail(usb.plan["B"])

\* What is unread and what is to come leads to idle.
PhaseInv ==
    whole =>
      /\ "out" \notin torn["B"]
      /\ usb.tog["B"] # ep["B"].tog => usb.plan["B"] # <<>>
      /\ \E n \in Modes : Takes(cmd.mode, due["B"], n) /\ Completes(n, Coming)

\* The receiver of the CMD port, and the host: its packets fit the endpoint.
CmdType == [mode : Modes, buf : Seq(Bytes \cup {Garbage}), reply : Seq(Said), flush : BOOLEAN]
SideType == [plan : [Ports -> Seq(Seq(Bytes))], asks : SUBSET Requests, resets : Nat,
             tog : [Ports -> {0, 1}]]
LoopType ==
    /\ cmd \in CmdType /\ usb \in SideType /\ whole \in BOOLEAN
    /\ \A p \in Ports : \A i \in 1..Len(usb.plan[p]) : Len(usb.plan[p][i]) <= Pkt

FirmwareInv == UsbInv /\ CtlInv /\ LoopType /\ PhaseInv

-----------------------------------------------------------------------------
(* The ports                                                               *)

\* A cut of a sequence of the firmware's or the host's bytes is one.
LEMMA Cuts ==
  ASSUME NEW S, NEW s \in Seq(S), NEW m \in Nat, NEW n \in Nat, n <= Len(s)
  PROVE  /\ SubSeq(s, m + 1, n) \in Seq(S)
         /\ Len(SubSeq(s, m + 1, n)) = IF m < n THEN n - m ELSE 0
         /\ \A k \in 1..(n - m) : SubSeq(s, m + 1, n)[k] = s[m + k]
BY SubSeqProperties

\* A sequence with something in it is not empty.
LEMMA NotEmpty ==
  ASSUME NEW S, NEW u \in Seq(S), Len(u) > 0
  PROVE  u # <<>>
BY EmptySeq

\* The length after a byte is written at n over x.
LEMMA Reach ==
  ASSUME NEW n \in Nat, NEW x \in Nat, NEW y, NEW w,
         y = (IF n + 2 <= x THEN x - n - 1 ELSE 0), w = n + 1 + y
  PROVE  w \in Nat /\ n + 1 <= w /\ x <= w
OBVIOUS

\* A counter that stays below Wrap does not wrap.
LEMMA NoWrap ==
  ASSUME NEW w \in Nat, NEW x \in 0..(w - 1)
  PROVE  x % w = x /\ (x + w) % w = x
OBVIOUS

\* A place in a packet comes before the end of a counter.
LEMMA PlaceFits ==
  ASSUME NEW k \in Nat, NEW c \in Nat, NEW l \in Nat, c > 0, k + 1 + c = l + 1, l <= Pkt
  PROVE  k + 1 \in 0..(Wrap - 1)
BY EndpointAssumption

\* The ports of the other side do not change when neither they nor their histories do.
LEMMA PortSame ==
  ASSUME NEW q \in Ports, OutInv(q), InInv(q), ep'[q] = ep[q], due'[q] = due[q],
         owed'[q] = owed[q], torn'[q] = torn[q],
         \/ op' = op
         \/ ~Reading(q) /\ ~Reading(q)' /\ ~Arming(q) /\ ~Arming(q)'
  PROVE  OutInv(q)' /\ InInv(q)'
BY DEF OutInv, InInv, Reading, Arming, Place

\* A packet is received: the port had nothing unread.
LEMMA EpOutStep ==
  ASSUME UsbInv, NEW p \in Ports, NEW data \in Seq(Bytes), Len(data) <= Pkt, NEW tog,
         EpOut(p, data, tog)
  PROVE  UsbInv'
<1>0. UsbType /\ OutInv(p) /\ InInv(p) /\ \A q \in Ports : OutInv(q) /\ InInv(q)
  BY DEF UsbInv
<1>1. CASE ~TogOK(p, tog)
  <2>1. UNCHANGED usbVars
    BY <1>1 DEF EpOut, usbVars
  <2> QED
    BY <2>1 DEF usbVars, UsbInv, UsbType, OutInv, InInv, Reading, Arming, Place
<1>2. CASE TogOK(p, tog)
  <2>1. /\ ep'[p].count = Len(data) /\ ep'[p].point = 0 /\ ep'[p].out = data
        /\ ep'[p].rx = (IF data = <<>> THEN ep[p].rx ELSE "nak") /\ ep'[p].tog = 1 - ep[p].tog
        /\ ep'[p].in = ep[p].in /\ ep'[p].wp = ep[p].wp /\ ep'[p].tlen = ep[p].tlen
        /\ ep'[p].tx = ep[p].tx /\ ep'[p].busy = ep[p].busy /\ ep'[p].dtr = ep[p].dtr
        /\ \A q \in Ports : q # p => ep'[q] = ep[q]
    BY <1>0, <1>2 DEF UsbType, EpOut, PortType
  <2>2. /\ ep[p].rx = "ack" /\ op' = op /\ owed' = owed /\ torn' = torn
        /\ due'[p] = due[p] \o data /\ \A q \in Ports : q # p => due'[q] = due[q]
    BY <1>0, <1>2 DEF UsbType, EpOut, TogOK
  <2>3. UsbType'
    <3>1. ep' \in [Ports -> PortType]
      <4>0. PICK n, r, t : /\ n = Len(data) /\ r = (IF data = <<>> THEN ep[p].rx ELSE "nak")
                          /\ t = 1 - ep[p].tog
        OBVIOUS
      <4>1. ep'[p] = [ep[p] EXCEPT !.count = n, !.point = 0, !.out = data, !.rx = r, !.tog = t]
        BY <1>0, <1>2, <4>0 DEF UsbType, EpOut
      <4>2. n \in Nat /\ r \in {"ack", "nak"} /\ t \in {0, 1}
        <5>1. ep[p].rx \in {"ack", "nak"} /\ ep[p].tog \in {0, 1}
          BY <1>0 DEF UsbType, PortType
        <5>2. Len(data) \in Nat
          BY LenProperties
        <5> QED
          BY <4>0, <5>1, <5>2
      <4>3. ASSUME NEW e \in PortType
            PROVE  [e EXCEPT !.count = n, !.point = 0, !.out = data, !.rx = r, !.tog = t]
                     \in PortType
        BY <4>2 DEF PortType
      <4>4. ep'[p] \in PortType
        BY <1>0, <4>1, <4>3 DEF UsbType
      <4> QED
        BY <1>0, <1>2, <4>4 DEF UsbType, EpOut
    <3>2. due' \in [Ports -> Seq(Bytes)]
      <4>1. due'[p] \in Seq(Bytes)
        BY <1>0, <2>2, ConcatProperties DEF UsbType
      <4> QED
        BY <1>0, <1>2, <4>1 DEF UsbType, EpOut
    <3> QED
      BY <1>0, <2>2, <3>1, <3>2 DEF UsbType
  <2>4. Len(data) \in Nat /\ (data = <<>> <=> Len(data) = 0)
    BY LenProperties, EmptySeq
  <2>5. ASSUME "out" \notin torn[p]
        PROVE  ep[p].count = 0 /\ due[p] = <<>> /\ ~Reading(p)
    BY <1>0, <2>2, <2>5 DEF OutInv, UsbType, PortType
  <2>6. OutInv(p)'
    <3>1. CASE "out" \in torn[p]
      BY <2>1, <2>2, <3>1 DEF OutInv
    <3>2. CASE "out" \notin torn[p]
      <4>1. due'[p] = data /\ ~Reading(p)'
        BY <2>2, <2>5, <3>2 DEF Reading
      <4>2. SubSeq(data, 1, Len(data)) = data
        OBVIOUS
      <4>3. Place(p)' = 1 /\ ~(op.at = "loaded" /\ op.p = p) /\ ~(op.at = "fetched" /\ op.p = p)
        BY <2>1, <2>2, <2>5, <3>2 DEF Place, Reading
      <4> QED
        BY <2>1, <2>2, <2>4, <4>1, <4>2, <4>3 DEF OutInv
    <3> QED
      BY <3>1, <3>2
  <2>7. InInv(p)'
    BY <1>0, <2>1, <2>2 DEF InInv, Arming
  <2>8. ASSUME NEW q \in Ports, q # p PROVE OutInv(q)' /\ InInv(q)'
    BY <1>0, <2>1, <2>2, <2>8, PortSame
  <2> QED
    BY <2>3, <2>6, <2>7, <2>8 DEF UsbInv
<1> QED
  BY <1>1, <1>2

\* The host takes a packet: all that was owed.
LEMMA EpInStep ==
  ASSUME UsbInv, NEW p \in Ports, EpIn(p)
  PROVE  UsbInv'
<1>0. UsbType /\ OutInv(p) /\ InInv(p) /\ \A q \in Ports : OutInv(q) /\ InInv(q)
  BY DEF UsbInv
<1>1. /\ ep'[p].count = ep[p].count /\ ep'[p].point = ep[p].point /\ ep'[p].out = ep[p].out
      /\ ep'[p].rx = ep[p].rx
      /\ ep'[p].in = ep[p].in /\ ep'[p].wp = ep[p].wp /\ ep'[p].tlen = 0
      /\ ep'[p].tx = "nak" /\ ep'[p].busy = FALSE
      /\ \A q \in Ports : q # p => ep'[q] = ep[q]
  BY <1>0 DEF UsbType, EpIn, PortType
<1>2. /\ ep[p].tx = "ack" /\ op.at # "arming" /\ op' = op /\ due' = due /\ torn' = torn
      /\ owed'[p] = SubSeq(owed[p], Len(Sent(p)) + 1, Len(owed[p]))
      /\ \A q \in Ports : q # p => owed'[q] = owed[q]
  BY <1>0 DEF UsbType, EpIn, Transfers
<1>3. /\ ep[p].in \in Seq(Said) /\ ep[p].tlen \in Nat /\ ep[p].tlen <= Len(ep[p].in)
      /\ owed[p] \in Seq(Said) /\ ep[p].wp \in Nat /\ Len(ep[p].in) \in Nat
  BY <1>0, LenProperties DEF UsbType, PortType, InInv
<1>4. Sent(p) \in Seq(Said) /\ Len(Sent(p)) = ep[p].tlen
  BY <1>3, SubSeqProperties DEF Sent
<1>5. UsbType'
  <2>1. ep' \in [Ports -> PortType]
    <3>1. ep'[p] = [ep[p] EXCEPT !.tlen = 0, !.tx = "nak", !.busy = FALSE]
      BY <1>0 DEF UsbType, EpIn
    <3>2. ASSUME NEW e \in PortType
          PROVE  [e EXCEPT !.tlen = 0, !.tx = "nak", !.busy = FALSE] \in PortType
      BY DEF PortType
    <3>3. ep'[p] \in PortType
      BY <1>0, <3>1, <3>2 DEF UsbType
    <3> QED
      BY <1>0, <3>3 DEF UsbType, EpIn
  <2>2. owed'[p] \in Seq(Said)
    BY <1>2, <1>3, <1>4, SubSeqProperties
  <2>3. owed' \in [Ports -> Seq(Said)]
    BY <1>0, <1>2, <2>2 DEF UsbType, EpIn
  <2> QED
    BY <1>0, <1>2, <2>1, <2>3 DEF UsbType
<1>6. OutInv(p)'
  BY <1>0, <1>1, <1>2 DEF OutInv, Reading, Place
<1>7. InInv(p)'
  <2>1. ep[p].busy /\ owed[p] = Sent(p) /\ ep[p].wp = 0
    BY <1>0, <1>2 DEF InInv, Arming, Sent
  <2>2. owed'[p] = <<>>
    BY <1>2, <1>3, <1>4, <2>1, SubSeqProperties, EmptySeq
  <2>3. SubSeq(ep[p].in, 1, 0) = <<>>
    BY <1>3, SubSeqProperties, EmptySeq
  <2> QED
    BY <1>1, <1>2, <1>3, <2>1, <2>2, <2>3 DEF InInv, Arming
<1>8. ASSUME NEW q \in Ports, q # p PROVE OutInv(q)' /\ InInv(q)'
  BY <1>0, <1>1, <1>2, <1>8, PortSame
<1> QED
  BY <1>5, <1>6, <1>7, <1>8 DEF UsbInv

\* A bus reset: the packets are gone, the histories with them.
LEMMA BusResetStep ==
  ASSUME UsbInv, BusReset
  PROVE  UsbInv'
<1>0. UsbType /\ \A q \in Ports : OutInv(q) /\ InInv(q)
  BY DEF UsbInv
<1>1. op' = op
  BY DEF BusReset
<1>2. ASSUME NEW p \in Ports
      PROVE  /\ ep'[p] = AfterReset(ep[p])
             /\ due'[p] = <<>> /\ owed'[p] = (IF ep[p].busy THEN <<>> ELSE owed[p])
             /\ "out" \in torn'[p] <=> Reading(p)
             /\ "in" \in torn'[p] <=> Arming(p)
  BY DEF BusReset
<1>3. ASSUME NEW e \in PortType PROVE AfterReset(e) \in PortType
  BY DEF AfterReset, PortType
<1>4. ASSUME NEW p \in Ports
      PROVE  /\ ep'[p].count = 0 /\ ep'[p].point = ep[p].point /\ ep'[p].out = ep[p].out
             /\ ep'[p].in = ep[p].in /\ ep'[p].wp = ep[p].wp
             /\ ep'[p].tlen = ep[p].tlen /\ ep'[p].tx = "nak" /\ ep'[p].busy = FALSE
  <2>1. ASSUME NEW e \in PortType, NEW f, f = AfterReset(e)
        PROVE  /\ f.count = 0 /\ f.point = e.point /\ f.out = e.out
               /\ f.in = e.in /\ f.wp = e.wp
               /\ f.tlen = e.tlen /\ f.tx = "nak" /\ f.busy = FALSE
    BY <2>1 DEF AfterReset, PortType
  <2>2. ep[p] \in PortType /\ ep'[p] = AfterReset(ep[p])
    BY <1>0, <1>2, <1>4 DEF UsbType
  <2> QED
    BY <2>1, <2>2
<1>5. UsbType'
  <2>1. ep' \in [Ports -> PortType]
    BY <1>0, <1>2, <1>3 DEF UsbType, BusReset
  <2>2. due' \in [Ports -> Seq(Bytes)] /\ owed' \in [Ports -> Seq(Said)]
    BY <1>0, EmptySeq DEF UsbType, BusReset
  <2>3. torn' \in [Ports -> SUBSET {"out", "in"}]
    BY <1>0 DEF UsbType, BusReset
  <2> QED
    BY <1>0, <1>1, <2>1, <2>2, <2>3 DEF UsbType
<1>6. ASSUME NEW p \in Ports PROVE OutInv(p)'
  <2>1. Reading(p)' <=> Reading(p)
    BY <1>1 DEF Reading
  <2>2. (op.at = "fetched" /\ op.p = p) \/ (op.at = "loaded" /\ op.p = p) => Reading(p)
    BY DEF Reading
  <2>3. OutInv(p)
    BY <1>0
  <2>4. ep'[p].count = 0 /\ ep'[p].out = ep[p].out /\ due'[p] = <<>>
    BY <1>2, <1>4
  <2>5. "out" \in torn'[p] <=> Reading(p)
    BY <1>2
  <2> QED
    BY <1>1, <2>1, <2>2, <2>3, <2>4, <2>5 DEF OutInv
<1>7. ASSUME NEW p \in Ports PROVE InInv(p)'
  <2>0. InInv(p) /\ ep[p].busy \in BOOLEAN
    BY <1>0 DEF UsbType, PortType
  <2>1. Arming(p)' <=> Arming(p)
    BY <1>1 DEF Arming
  <2>2. "in" \in torn'[p] <=> Arming(p)
    BY <1>2
  <2>3. /\ ep'[p].in = ep[p].in /\ ep'[p].wp = ep[p].wp /\ ep'[p].tlen = ep[p].tlen
        /\ ep'[p].tx = "nak" /\ ep'[p].busy = FALSE
        /\ owed'[p] = (IF ep[p].busy THEN <<>> ELSE owed[p])
    BY <1>2, <1>4
  <2>4. SubSeq(ep[p].in, 1, 0) = <<>>
    BY <1>0, SubSeqProperties, EmptySeq DEF UsbType, PortType
  <2>5. CASE ep[p].busy
    BY <2>0, <2>1, <2>2, <2>3, <2>4, <2>5 DEF InInv
  <2>6. CASE ~ep[p].busy
    BY <2>0, <2>1, <2>2, <2>3, <2>6 DEF InInv
  <2> QED
    BY <2>5, <2>6
<1> QED
  BY <1>5, <1>6, <1>7 DEF UsbInv

\* A halt of the OUT direction is cleared: nothing was unread, or it is cut.
LEMMA ClearHaltOutStep ==
  ASSUME UsbInv, NEW p \in Ports, ClearHaltOut(p)
  PROVE  UsbInv'
<1>0. UsbType /\ OutInv(p) /\ InInv(p) /\ \A q \in Ports : OutInv(q) /\ InInv(q)
  BY DEF UsbInv
<1>1. /\ ep'[p].count = ep[p].count /\ ep'[p].point = ep[p].point /\ ep'[p].out = ep[p].out
      /\ ep'[p].in = ep[p].in /\ ep'[p].wp = ep[p].wp /\ ep'[p].tlen = ep[p].tlen
      /\ ep'[p].tx = ep[p].tx /\ ep'[p].busy = ep[p].busy
      /\ \A q \in Ports : q # p => ep'[q] = ep[q]
  BY <1>0 DEF UsbType, ClearHaltOut, PortType
<1>2. /\ op' = op /\ due' = due /\ owed' = owed
      /\ torn'[p] = torn[p] \cup (IF Reading(p) \/ ep[p].count > 0 THEN {"out"} ELSE {})
      /\ \A q \in Ports : q # p => torn'[q] = torn[q]
  BY <1>0 DEF UsbType, ClearHaltOut
<1>5. UsbType'
  <2>1. ep' \in [Ports -> PortType]
    <3>1. ep'[p] = [ep[p] EXCEPT !.rx = "ack", !.tog = 0]
      BY <1>0 DEF UsbType, ClearHaltOut
    <3>2. ASSUME NEW e \in PortType PROVE [e EXCEPT !.rx = "ack", !.tog = 0] \in PortType
      BY DEF PortType
    <3>3. ep'[p] \in PortType
      BY <1>0, <3>1, <3>2 DEF UsbType
    <3> QED
      BY <1>0, <3>3 DEF UsbType, ClearHaltOut
  <2>2. torn' \in [Ports -> SUBSET {"out", "in"}]
    BY <1>0 DEF UsbType, ClearHaltOut
  <2> QED
    BY <1>0, <1>2, <2>1, <2>2 DEF UsbType
<1>6. OutInv(p)'
  <2>1. ep[p].count \in Nat
    BY <1>0 DEF UsbType, PortType
  <2>2. (op.at = "fetched" /\ op.p = p) \/ (op.at = "loaded" /\ op.p = p) => Reading(p)
    BY DEF Reading
  <2>3. Reading(p)' <=> Reading(p)
    BY <1>2 DEF Reading
  <2> QED
    BY <1>0, <1>1, <1>2, <2>1, <2>2, <2>3 DEF OutInv
<1>7. InInv(p)'
  BY <1>0, <1>1, <1>2 DEF InInv, Arming
<1>8. ASSUME NEW q \in Ports, q # p PROVE OutInv(q)' /\ InInv(q)'
  BY <1>0, <1>1, <1>2, <1>8, PortSame
<1> QED
  BY <1>5, <1>6, <1>7, <1>8 DEF UsbInv

\* A halt of the IN direction is cleared: no packet was on its way, or it is cut.
LEMMA ClearHaltInStep ==
  ASSUME UsbInv, NEW p \in Ports, ClearHaltIn(p), Transfers
  PROVE  UsbInv'
<1>0. UsbType /\ OutInv(p) /\ InInv(p) /\ \A q \in Ports : OutInv(q) /\ InInv(q)
  BY DEF UsbInv
<1>1. /\ ep'[p].count = ep[p].count /\ ep'[p].point = ep[p].point /\ ep'[p].out = ep[p].out
      /\ ep'[p].in = ep[p].in /\ ep'[p].wp = ep[p].wp /\ ep'[p].tlen = ep[p].tlen
      /\ ep'[p].tx = "nak" /\ ep'[p].busy = ep[p].busy /\ ep'[p].rx = ep[p].rx
      /\ \A q \in Ports : q # p => ep'[q] = ep[q]
  BY <1>0 DEF UsbType, ClearHaltIn, PortType
<1>2. /\ op' = op /\ due' = due /\ owed' = owed /\ op.at # "arming"
      /\ torn'[p] = torn[p] \cup (IF ep[p].busy THEN {"in"} ELSE {})
      /\ \A q \in Ports : q # p => torn'[q] = torn[q]
  BY <1>0 DEF UsbType, ClearHaltIn, Transfers
<1>5. UsbType'
  <2>1. ep' \in [Ports -> PortType]
    <3>1. ep'[p] = [ep[p] EXCEPT !.tx = "nak"]
      BY <1>0 DEF UsbType, ClearHaltIn
    <3>2. ASSUME NEW e \in PortType PROVE [e EXCEPT !.tx = "nak"] \in PortType
      BY DEF PortType
    <3>3. ep'[p] \in PortType
      BY <1>0, <3>1, <3>2 DEF UsbType
    <3> QED
      BY <1>0, <3>3 DEF UsbType, ClearHaltIn
  <2>2. torn' \in [Ports -> SUBSET {"out", "in"}]
    BY <1>0 DEF UsbType, ClearHaltIn
  <2> QED
    BY <1>0, <1>2, <2>1, <2>2 DEF UsbType
<1>6. OutInv(p)'
  BY <1>0, <1>1, <1>2 DEF OutInv, Reading, Place
<1>7. InInv(p)'
  <2>1. ~Arming(p) /\ ~Arming(p)' /\ ep[p].busy \in BOOLEAN
    BY <1>0, <1>2 DEF Arming, UsbType, PortType
  <2> QED
    BY <1>0, <1>1, <1>2, <2>1 DEF InInv
<1>8. ASSUME NEW q \in Ports, q # p PROVE OutInv(q)' /\ InInv(q)'
  BY <1>0, <1>1, <1>2, <1>8, PortSame
<1> QED
  BY <1>5, <1>6, <1>7, <1>8 DEF UsbInv

\* The host opens or closes a port.
LEMMA SetDtrStep ==
  ASSUME UsbInv, NEW p \in Ports, NEW on \in BOOLEAN, SetDtr(p, on)
  PROVE  UsbInv'
<1>0. UsbType /\ OutInv(p) /\ InInv(p) /\ \A q \in Ports : OutInv(q) /\ InInv(q)
  BY DEF UsbInv
<1>1. /\ ep'[p].count = ep[p].count /\ ep'[p].point = ep[p].point /\ ep'[p].out = ep[p].out
      /\ ep'[p].in = ep[p].in /\ ep'[p].wp = ep[p].wp /\ ep'[p].tlen = ep[p].tlen
      /\ ep'[p].tx = ep[p].tx /\ ep'[p].busy = ep[p].busy /\ ep'[p].rx = ep[p].rx
      /\ \A q \in Ports : q # p => ep'[q] = ep[q]
  BY <1>0 DEF UsbType, SetDtr, PortType
<1>2. op' = op /\ due' = due /\ owed' = owed /\ torn' = torn
  BY DEF SetDtr
<1>5. UsbType'
  <2>1. ep' \in [Ports -> PortType]
    <3>1. ep'[p] = [ep[p] EXCEPT !.dtr = on]
      BY <1>0 DEF UsbType, SetDtr
    <3>2. ASSUME NEW e \in PortType PROVE [e EXCEPT !.dtr = on] \in PortType
      BY DEF PortType
    <3>3. ep'[p] \in PortType
      BY <1>0, <3>1, <3>2 DEF UsbType
    <3> QED
      BY <1>0, <3>3 DEF UsbType, SetDtr
  <2> QED
    BY <1>0, <1>2, <2>1 DEF UsbType
<1>6. OutInv(p)' /\ InInv(p)'
  BY <1>0, <1>1, <1>2 DEF OutInv, InInv, Reading, Place, Arming
<1>8. ASSUME NEW q \in Ports, q # p PROVE OutInv(q)' /\ InInv(q)'
  BY <1>0, <1>1, <1>2, <1>8, PortSame
<1> QED
  BY <1>5, <1>6, <1>8 DEF UsbInv

\* CdcX_read begins: the byte is the one at the place.
LEMMA FetchStep ==
  ASSUME UsbInv, NEW p \in Ports, Fetch(p)
  PROVE  UsbInv'
<1>0. UsbType /\ OutInv(p) /\ InInv(p) /\ \A q \in Ports : OutInv(q) /\ InInv(q)
  BY DEF UsbInv
<1>1. /\ op = Idle /\ ep[p].count > 0 /\ ep' = ep /\ due' = due /\ owed' = owed /\ torn' = torn
      /\ op' = [at |-> "fetched", p |-> p, d |-> ByteAt(p, ep[p].point), pt |-> ep[p].point]
  BY DEF Fetch, Available
<1>2. /\ ep[p].count \in Nat /\ ep[p].point \in Nat /\ ep[p].out \in Seq(Bytes)
      /\ Len(ep[p].out) \in Nat
  BY <1>0, LenProperties DEF UsbType, PortType
<1>3. op.at = "idle"
  BY <1>1 DEF Idle
<1>4. /\ op'.at = "fetched" /\ op'.p = p /\ op'.d = ByteAt(p, ep[p].point)
      /\ op'.pt = ep[p].point
  BY <1>1
<1>5. UsbType'
  <2>1. ByteAt(p, ep[p].point) \in Bytes \cup {Garbage}
    BY <1>2, ElementOfSeq DEF ByteAt
  <2>2. op' \in CallType
    BY <1>1, <1>2, <2>1 DEF CallType
  <2> QED
    BY <1>0, <1>1, <2>2 DEF UsbType
<1>6. OutInv(p)'
  <2>1. ASSUME "out" \notin torn[p]
        PROVE  /\ ep[p].point + 1 + ep[p].count = Len(ep[p].out) + 1
               /\ due[p] = SubSeq(ep[p].out, ep[p].point + 1, Len(ep[p].out))
               /\ ep[p].rx = "nak"
    BY <1>0, <1>1, <1>2, <1>3, <2>1 DEF OutInv, Place
  <2>2. "out" \notin torn[p] => ByteAt(p, ep[p].point) = ep[p].out[ep[p].point + 1]
    BY <1>1, <1>2, <2>1 DEF ByteAt
  <2>3. Place(p)' = ep[p].point + 1
    BY <1>1, <1>4 DEF Place
  <2> QED
    BY <1>0, <1>1, <1>2, <1>4, <2>1, <2>2, <2>3 DEF OutInv, Reading
<1>7. InInv(p)'
  BY <1>0, <1>1, <1>3, <1>4 DEF InInv, Arming
<1>8. ASSUME NEW q \in Ports, q # p PROVE OutInv(q)' /\ InInv(q)'
  <2>1. ~Reading(q) /\ ~Reading(q)' /\ ~Arming(q) /\ ~Arming(q)'
    BY <1>3, <1>4, <1>8 DEF Reading, Arming
  <2> QED
    BY <1>0, <1>1, <1>8, <2>1, PortSame
<1> QED
  BY <1>5, <1>6, <1>7, <1>8 DEF UsbInv

\* The pointer moves on to the next place.
LEMMA BumpStep ==
  ASSUME UsbInv, NEW p \in Ports, Bump(p)
  PROVE  UsbInv'
<1>0. UsbType /\ OutInv(p) /\ InInv(p) /\ \A q \in Ports : OutInv(q) /\ InInv(q)
  BY DEF UsbInv
<1>1. /\ op.at = "fetched" /\ op.p = p /\ due' = due /\ owed' = owed /\ torn' = torn
      /\ op' = [at |-> "loaded", p |-> p, d |-> op.d, c |-> ep[p].count]
  BY DEF Bump
<1>2. /\ ep[p].count \in Nat /\ ep[p].point \in Nat /\ ep[p].out \in Seq(Bytes)
      /\ Len(ep[p].out) \in Nat /\ Len(ep[p].out) <= Pkt
      /\ op.d \in Bytes \cup {Garbage} /\ op.pt \in Nat
  BY <1>0, <1>1, LenProperties DEF UsbType, PortType, CallType, OutInv
<1>3. /\ op'.at = "loaded" /\ op'.p = p /\ op'.d = op.d /\ op'.c = ep[p].count
  BY <1>1
<1>4. PICK n : n = (op.pt + 1) % Wrap
  OBVIOUS
<1>5. n \in Nat
  BY <1>2, <1>4, EndpointAssumption
<1>6. /\ ep'[p].count = ep[p].count /\ ep'[p].point = n /\ ep'[p].out = ep[p].out
      /\ ep'[p].in = ep[p].in /\ ep'[p].wp = ep[p].wp /\ ep'[p].tlen = ep[p].tlen
      /\ ep'[p].tx = ep[p].tx /\ ep'[p].busy = ep[p].busy /\ ep'[p].rx = ep[p].rx
      /\ \A q \in Ports : q # p => ep'[q] = ep[q]
  BY <1>0, <1>4 DEF UsbType, Bump, PortType
<1>7. UsbType'
  <2>1. ep' \in [Ports -> PortType]
    <3>1. ep'[p] = [ep[p] EXCEPT !.point = n]
      BY <1>0, <1>4 DEF UsbType, Bump
    <3>2. ASSUME NEW e \in PortType PROVE [e EXCEPT !.point = n] \in PortType
      BY <1>5 DEF PortType
    <3>3. ep'[p] \in PortType
      BY <1>0, <3>1, <3>2 DEF UsbType
    <3> QED
      BY <1>0, <3>3 DEF UsbType, Bump
  <2>2. op' \in CallType
    BY <1>1, <1>2 DEF CallType
  <2> QED
    BY <1>0, <1>1, <2>1, <2>2 DEF UsbType
<1>8. OutInv(p)'
  <2>1. ASSUME "out" \notin torn[p]
        PROVE  /\ ep[p].count > 0 /\ op.pt = ep[p].point
               /\ ep[p].point + 1 + ep[p].count = Len(ep[p].out) + 1
               /\ due[p] = SubSeq(ep[p].out, ep[p].point + 1, Len(ep[p].out))
               /\ ep[p].rx = "nak" /\ op.d = ep[p].out[ep[p].point + 1]
    BY <1>0, <1>1, <1>2, <2>1 DEF OutInv, Place, Reading
  <2>2. ASSUME "out" \notin torn[p] PROVE n = ep[p].point + 1
    <3>0. op.pt = ep[p].point /\ ep[p].count > 0
          /\ ep[p].point + 1 + ep[p].count = Len(ep[p].out) + 1
      BY <2>1, <2>2
    <3>1. op.pt + 1 \in 0..(Wrap - 1)
      <4>1. ep[p].point + 1 \in 0..(Wrap - 1)
        BY <1>2, <3>0, PlaceFits
      <4> QED
        BY <3>0, <4>1
    <3>2. Wrap \in Nat
      BY EndpointAssumption
    <3>3. (op.pt + 1) % Wrap = op.pt + 1
      BY <3>1, <3>2, NoWrap
    <3> QED
      BY <1>4, <3>0, <3>3
  <2>3. Place(p)' = n
    BY <1>3, <1>6 DEF Place
  <2>4. Reading(p)'
    BY <1>3 DEF Reading
  <2>5. ASSUME "out" \notin torn[p]
        PROVE  /\ ep'[p].count > 0 /\ ep'[p].rx = "nak"
               /\ n + ep'[p].count = Len(ep'[p].out) + 1
               /\ due'[p] = SubSeq(ep'[p].out, n, Len(ep'[p].out))
               /\ op'.d = ep'[p].out[n] /\ op'.c = ep'[p].count
    BY <1>1, <1>2, <1>3, <1>6, <2>1, <2>2, <2>5
  <2>6. ep'[p].count # 0 \/ "out" \in torn[p]
    BY <1>2, <1>6, <2>5
  <2>7. Len(ep'[p].out) <= Pkt
    BY <1>2, <1>6
  <2>8. "out" \notin torn[p] => n >= 1
    BY <1>2, <2>2
  <2> QED
    BY <1>1, <1>3, <2>3, <2>4, <2>5, <2>6, <2>7, <2>8 DEF OutInv
<1>9. InInv(p)'
  BY <1>0, <1>1, <1>3, <1>6 DEF InInv, Arming
<1>10. ASSUME NEW q \in Ports, q # p PROVE OutInv(q)' /\ InInv(q)'
  <2>1. ~Reading(q) /\ ~Reading(q)' /\ ~Arming(q) /\ ~Arming(q)'
    BY <1>1, <1>3, <1>10 DEF Reading, Arming
  <2> QED
    BY <1>0, <1>1, <1>6, <1>10, <2>1, PortSame
<1> QED
  BY <1>7, <1>8, <1>9, <1>10 DEF UsbInv

\* The byte that was read is the first that was due.
LEMMA ReadIsDue ==
  ASSUME UsbInv, NEW p \in Ports, Reading(p), "out" \notin torn[p]
  PROVE  due[p] # <<>> /\ op.d = Head(due[p])
<1>1. UsbType /\ OutInv(p)
  BY DEF UsbInv
<1>2. /\ ep[p].count \in Nat /\ ep[p].point \in Nat /\ ep[p].out \in Seq(Bytes)
      /\ Len(ep[p].out) \in Nat
  BY <1>1, LenProperties DEF UsbType, PortType
<1>3. PICK k : k = Place(p)
  OBVIOUS
<1>4. /\ ep[p].count > 0 /\ k >= 1 /\ k + ep[p].count = Len(ep[p].out) + 1 /\ k \in Nat
      /\ due[p] = SubSeq(ep[p].out, k, Len(ep[p].out)) /\ op.d = ep[p].out[k]
  <2>1. ep[p].count > 0
    BY <1>1, <1>2 DEF OutInv
  <2>2. k \in Nat
    BY <1>2, <1>3 DEF Place
  <2> QED
    BY <1>1, <1>3, <2>1, <2>2 DEF OutInv
<1>5. k \in 1..Len(ep[p].out)
  BY <1>2, <1>4
<1>6. /\ SubSeq(ep[p].out, k, Len(ep[p].out)) \in Seq(Bytes)
      /\ Len(SubSeq(ep[p].out, k, Len(ep[p].out))) = Len(ep[p].out) - k + 1
      /\ SubSeq(ep[p].out, k, Len(ep[p].out))[1] = ep[p].out[k]
  BY <1>2, <1>5, SubSeqProperties
<1>7. Len(due[p]) > 0 /\ due[p][1] = op.d /\ due[p] \in Seq(Bytes)
  BY <1>2, <1>4, <1>5, <1>6
<1> QED
  BY <1>7, EmptySeq, HeadTailProperties

\* CdcX_read ends: the byte is no longer due.
LEMMA StoreStep ==
  ASSUME UsbInv, NEW p \in Ports, Store(p)
  PROVE  UsbInv'
<1>0. UsbType /\ OutInv(p) /\ InInv(p) /\ \A q \in Ports : OutInv(q) /\ InInv(q)
  BY DEF UsbInv
<1>1. /\ op.at = "loaded" /\ op.p = p /\ op' = Idle /\ owed' = owed /\ torn' = torn
      /\ due'[p] = (IF due[p] = <<>> THEN <<>> ELSE Tail(due[p]))
      /\ \A q \in Ports : q # p => due'[q] = due[q]
  BY <1>0 DEF Store, UsbType
<1>2. /\ ep[p].count \in Nat /\ ep[p].point \in Nat /\ ep[p].out \in Seq(Bytes)
      /\ Len(ep[p].out) \in Nat /\ Len(ep[p].out) <= Pkt /\ due[p] \in Seq(Bytes)
      /\ op.c \in Nat
  BY <1>0, <1>1, LenProperties DEF UsbType, PortType, CallType, OutInv
<1>3. op'.at = "idle"
  BY <1>1 DEF Idle
<1>4. PICK n, r : n = (op.c + Wrap - 1) % Wrap /\ r = IF n = 0 THEN "ack" ELSE ep[p].rx
  OBVIOUS
<1>5. n \in Nat
  BY <1>2, <1>4, EndpointAssumption
<1>6. /\ ep'[p].count = n /\ ep'[p].point = ep[p].point /\ ep'[p].out = ep[p].out
      /\ ep'[p].in = ep[p].in /\ ep'[p].wp = ep[p].wp /\ ep'[p].tlen = ep[p].tlen
      /\ ep'[p].tx = ep[p].tx /\ ep'[p].busy = ep[p].busy /\ ep'[p].rx = r
      /\ \A q \in Ports : q # p => ep'[q] = ep[q]
  BY <1>0, <1>4 DEF UsbType, Store, LastByte, PortType
<1>7. UsbType'
  <2>1. ep' \in [Ports -> PortType]
    <3>1. ep'[p] = [ep[p] EXCEPT !.count = n, !.rx = r]
      BY <1>0, <1>4 DEF UsbType, Store, LastByte
    <3>2. r \in {"ack", "nak"}
      BY <1>0, <1>4 DEF UsbType, PortType
    <3>3. ASSUME NEW e \in PortType PROVE [e EXCEPT !.count = n, !.rx = r] \in PortType
      BY <1>5, <3>2 DEF PortType
    <3>4. ep'[p] \in PortType
      BY <1>0, <3>1, <3>3 DEF UsbType
    <3> QED
      BY <1>0, <3>4 DEF UsbType, Store
  <2>2. op' \in CallType
    BY <1>1 DEF CallType, Idle
  <2>3. due' \in [Ports -> Seq(Bytes)]
    <3>1. due'[p] \in Seq(Bytes)
      BY <1>1, <1>2, EmptySeq, HeadTailProperties
    <3> QED
      BY <1>0, <3>1 DEF UsbType, Store
  <2> QED
    BY <1>0, <1>1, <2>1, <2>2, <2>3 DEF UsbType
<1>8. OutInv(p)'
  <2>1. ASSUME "out" \notin torn[p]
        PROVE  /\ ep[p].count > 0 /\ op.c = ep[p].count /\ ep[p].point >= 1
               /\ ep[p].point + ep[p].count = Len(ep[p].out) + 1
               /\ due[p] = SubSeq(ep[p].out, ep[p].point, Len(ep[p].out))
               /\ ep[p].rx = "nak"
    BY <1>0, <1>1, <1>2, <2>1 DEF OutInv, Place, Reading
  <2>2. ASSUME "out" \notin torn[p] PROVE n = ep[p].count - 1
    <3>1. PICK c, l, i : c = ep[p].count /\ l = Len(ep[p].out) /\ i = ep[p].point
      OBVIOUS
    <3>2. c \in Nat /\ l \in Nat /\ i \in Nat /\ i >= 1 /\ i + c = l + 1 /\ c > 0 /\ l <= Pkt
      BY <1>2, <2>1, <2>2, <3>1
    <3>3. Wrap \in Nat /\ Pkt \in Nat /\ Pkt < Wrap
      BY EndpointAssumption
    <3>4. c - 1 \in 0..(Wrap - 1) /\ c + Wrap - 1 = (c - 1) + Wrap
      BY <3>2, <3>3
    <3>5. (c + Wrap - 1) % Wrap = c - 1
      BY <3>3, <3>4, NoWrap
    <3> QED
      BY <1>4, <2>1, <2>2, <3>1, <3>5
  <2>3. Place(p)' = ep[p].point + 1 /\ ~Reading(p)'
    BY <1>3, <1>6 DEF Place, Reading
  <2>4. ASSUME "out" \notin torn[p]
        PROVE  due'[p] = SubSeq(ep[p].out, ep[p].point + 1, Len(ep[p].out))
    <3>1. PICK k, o : k = ep[p].point /\ o = ep[p].out
      OBVIOUS
    <3>2. o \in Seq(Bytes) /\ k \in 1..Len(o) /\ Len(o) \in Nat
      BY <1>2, <2>1, <2>4, <3>1
    <3>3. /\ SubSeq(o, k, Len(o)) \in Seq(Bytes)
          /\ Len(SubSeq(o, k, Len(o))) = Len(o) - k + 1
          /\ \A j \in 1..(Len(o) - k + 1) : SubSeq(o, k, Len(o))[j] = o[k + j - 1]
      BY <3>2, SubSeqProperties
    <3>4. SubSeq(o, k, Len(o)) # <<>>
      <4>1. PICK u : u = SubSeq(o, k, Len(o))
        OBVIOUS
      <4>2. u \in Seq(Bytes) /\ Len(u) > 0
        BY <3>2, <3>3, <4>1
      <4>3. u # <<>>
        BY <4>2, NotEmpty
      <4> QED
        BY <4>1, <4>3
    <3>5. /\ Tail(SubSeq(o, k, Len(o))) \in Seq(Bytes)
          /\ Len(Tail(SubSeq(o, k, Len(o)))) = Len(o) - k
          /\ \A j \in 1..(Len(o) - k) : Tail(SubSeq(o, k, Len(o)))[j] = SubSeq(o, k, Len(o))[j + 1]
      BY <3>2, <3>3, <3>4, HeadTailProperties
    <3>6. /\ SubSeq(o, k + 1, Len(o)) \in Seq(Bytes)
          /\ Len(SubSeq(o, k + 1, Len(o))) = Len(o) - k
          /\ \A j \in 1..(Len(o) - k) : SubSeq(o, k + 1, Len(o))[j] = o[k + j]
      BY <3>2, SubSeqProperties
    <3>7. \A j \in 1..(Len(o) - k) : Tail(SubSeq(o, k, Len(o)))[j] = SubSeq(o, k + 1, Len(o))[j]
      <4>1. ASSUME NEW j \in 1..(Len(o) - k)
            PROVE  j + 1 \in 1..(Len(o) - k + 1) /\ k + (j + 1) - 1 = k + j
        BY <3>2
      <4> QED
        BY <3>3, <3>5, <3>6, <4>1
    <3>8. Tail(SubSeq(o, k, Len(o))) = SubSeq(o, k + 1, Len(o))
      BY <3>5, <3>6, <3>7, SeqEqual
    <3> QED
      BY <1>1, <2>1, <2>4, <3>1, <3>4, <3>8
  <2>5. ASSUME "out" \notin torn[p], n = 0
        PROVE  due'[p] = <<>>
    <3>1. PICK k, o : k = ep[p].point /\ o = ep[p].out
      OBVIOUS
    <3>2. o \in Seq(Bytes) /\ Len(o) \in Nat /\ k = Len(o) /\ k >= 1
      BY <1>2, <2>1, <2>2, <2>5, <3>1
    <3>3. SubSeq(o, k + 1, Len(o)) \in Seq(Bytes) /\ Len(SubSeq(o, k + 1, Len(o))) = 0
      BY <3>2, SubSeqProperties
    <3> QED
      BY <2>4, <2>5, <3>1, <3>3, EmptySeq
  <2>6. ~(op'.at = "fetched") /\ ~(op'.at = "loaded")
    BY <1>3
  <2>7. CASE "out" \in torn[p]
    BY <1>1, <1>2, <1>6, <2>7 DEF OutInv
  <2>8. CASE "out" \notin torn[p]
    <3>1. ep'[p].count > 0 => Place(p)' >= 1 /\ Place(p)' + ep'[p].count = Len(ep'[p].out) + 1
      BY <1>2, <1>6, <2>1, <2>2, <2>3, <2>8
    <3>2. ep'[p].count > 0 => ep'[p].rx = "nak"
      BY <1>4, <1>5, <1>6, <2>1, <2>8
    <3> QED
      BY <1>2, <1>6, <2>3, <2>4, <2>5, <2>6, <2>8, <3>1, <3>2 DEF OutInv
  <2> QED
    BY <2>7, <2>8
<1>9. InInv(p)'
  BY <1>0, <1>1, <1>3, <1>6 DEF InInv, Arming
<1>10. ASSUME NEW q \in Ports, q # p PROVE OutInv(q)' /\ InInv(q)'
  <2>1. ~Reading(q) /\ ~Reading(q)' /\ ~Arming(q) /\ ~Arming(q)'
    BY <1>1, <1>3, <1>10 DEF Reading, Arming
  <2> QED
    BY <1>0, <1>1, <1>6, <1>10, <2>1, PortSame
<1> QED
  BY <1>7, <1>8, <1>9, <1>10 DEF UsbInv

\* The buffer after a byte is written at n.
Behind(s, n, b) == Append(SubSeq(s, 1, n), b) \o SubSeq(s, n + 2, Len(s))
Grown(s, n, b, t) == SubSeq(t, 1, n + 1) = Append(SubSeq(s, 1, n), b)

\* A byte is written behind what is owed, over an old one or at the end.
LEMMA WrittenBehind ==
  ASSUME NEW S, NEW s \in Seq(S), NEW n \in Nat, n <= Len(s), NEW b \in S,
         NEW t, t = Behind(s, n, b)
  PROVE  t \in Seq(S) /\ n + 1 <= Len(t) /\ Len(s) <= Len(t) /\ Grown(s, n, b, t)
<1>1. Len(s) \in Nat
  BY LenProperties
<1>2. PICK a, z : a = Append(SubSeq(s, 1, n), b) /\ z = SubSeq(s, n + 2, Len(s))
  OBVIOUS
<1>3. t = a \o z
  BY <1>2 DEF Behind
<1>4. SubSeq(s, 1, n) \in Seq(S) /\ Len(SubSeq(s, 1, n)) = n
  BY <1>1, SubSeqProperties
<1>5. a \in Seq(S) /\ Len(a) = n + 1
  BY <1>2, <1>4, AppendProperties
<1>6. z \in Seq(S) /\ Len(z) = IF n + 2 <= Len(s) THEN Len(s) - n - 1 ELSE 0
  <2>1. n + 2 \in 1..(Len(s) + 1) \/ n + 2 > Len(s)
    BY <1>1
  <2> QED
    BY <1>1, <1>2, <2>1, SubSeqProperties
<1>7. t \in Seq(S) /\ Len(t) = Len(a) + Len(z) /\ \A k \in 1..Len(a) : t[k] = a[k]
  <2>1. t \in Seq(S) /\ Len(t) = Len(a) + Len(z)
    BY <1>3, <1>5, <1>6, ConcatProperties
  <2>2. ASSUME NEW k \in 1..Len(a) PROVE t[k] = a[k]
    <3>1. Len(a) \in Nat /\ Len(z) \in Nat
      BY <1>5, <1>6, LenProperties
    <3>2. k \in 1..(Len(a) + Len(z)) /\ k <= Len(a)
      BY <3>1
    <3> QED
      BY <1>3, <1>5, <1>6, <3>2, ConcatProperties
  <2> QED
    BY <2>1, <2>2
<1>8. Len(t) \in Nat /\ n + 1 <= Len(t) /\ Len(s) <= Len(t)
  <2>1. PICK x, y : x = Len(s) /\ y = Len(z)
    OBVIOUS
  <2>2. PICK w : w = Len(t)
    OBVIOUS
  <2>3. x \in Nat /\ y = (IF n + 2 <= x THEN x - n - 1 ELSE 0) /\ w = n + 1 + y
    BY <1>1, <1>5, <1>6, <1>7, <2>1, <2>2
  <2>4. w \in Nat /\ n + 1 <= w /\ x <= w
    BY <2>3, Reach
  <2> QED
    BY <2>1, <2>2, <2>4
<1>9. PICK u : u = SubSeq(t, 1, n + 1)
  OBVIOUS
<1>10. u \in Seq(S) /\ Len(u) = n + 1
  BY <1>7, <1>8, <1>9, SubSeqProperties
<1>11. ASSUME NEW k \in 1..(n + 1) PROVE u[k] = a[k]
  <2>1. SubSeq(t, 1, n + 1)[k] = t[1 + k - 1]
    BY <1>7, <1>8, SubSeqProperties
  <2>2. 1 + k - 1 = k /\ t[k] = a[k]
    BY <1>5, <1>7
  <2> QED
    BY <1>9, <2>1, <2>2
<1>12. u = a
  BY <1>5, <1>10, <1>11, SeqEqual
<1> QED
  BY <1>2, <1>7, <1>8, <1>9, <1>12 DEF Grown

\* CdcX_write of a byte: it is owed, and in the buffer.
LEMMA PutStep ==
  ASSUME UsbInv, NEW p \in Ports, NEW b \in Said, Put(p, b)
  PROVE  UsbInv'
<1>0. UsbType /\ OutInv(p) /\ InInv(p) /\ \A q \in Ports : OutInv(q) /\ InInv(q)
  BY DEF UsbInv
<1>1. /\ op.at = "idle" /\ op' = op /\ due' = due /\ torn' = torn /\ ~ep[p].busy
      /\ owed'[p] = Append(owed[p], b)
      /\ \A q \in Ports : q # p => owed'[q] = owed[q]
  BY <1>0 DEF Put, UsbType, Idle, NotBusy
<1>2. /\ ep[p].in \in Seq(Said) /\ ep[p].wp \in Nat /\ owed[p] \in Seq(Said)
      /\ Len(ep[p].in) \in Nat /\ ep[p].tlen \in Nat
      /\ ep[p].wp <= Len(ep[p].in) /\ ep[p].tlen <= Len(ep[p].in)
  BY <1>0, LenProperties DEF UsbType, PortType, InInv
<1>3. PICK t : t = Behind(ep[p].in, ep[p].wp, b)
  OBVIOUS
<1>4. /\ t \in Seq(Said) /\ ep[p].wp + 1 <= Len(t) /\ Len(ep[p].in) <= Len(t)
      /\ SubSeq(t, 1, ep[p].wp + 1) = Append(SubSeq(ep[p].in, 1, ep[p].wp), b)
  <2>1. PICK s, n : s = ep[p].in /\ n = ep[p].wp
    OBVIOUS
  <2>2. s \in Seq(Said) /\ n \in Nat /\ n <= Len(s) /\ t = Behind(s, n, b)
    BY <1>2, <1>3, <2>1
  <2>3. t \in Seq(Said)
    BY <2>2, WrittenBehind
  <2>4. n + 1 <= Len(t) /\ Len(s) <= Len(t)
    BY <2>2, WrittenBehind
  <2>5. Grown(s, n, b, t)
    BY <2>2, WrittenBehind
  <2> QED
    BY <2>1, <2>3, <2>4, <2>5 DEF Grown
<1>5. ep'[p] = [ep[p] EXCEPT !.in = t, !.wp = @ + 1]
  BY <1>0, <1>3 DEF UsbType, Put, Behind
<1>6. /\ ep'[p].count = ep[p].count /\ ep'[p].point = ep[p].point /\ ep'[p].out = ep[p].out
      /\ ep'[p].in = t /\ ep'[p].wp = ep[p].wp + 1 /\ ep'[p].tlen = ep[p].tlen
      /\ ep'[p].tx = ep[p].tx /\ ep'[p].busy = ep[p].busy /\ ep'[p].rx = ep[p].rx
      /\ \A q \in Ports : q # p => ep'[q] = ep[q]
  <2>1. ep[p] \in PortType
    BY <1>0 DEF UsbType
  <2>2. \A q \in Ports : q # p => ep'[q] = ep[q]
    BY <1>0 DEF UsbType, Put
  <2>3. PICK x \in PortType : x = ep[p]
    BY <2>1
  <2>4. PICK y : y = ep'[p]
    OBVIOUS
  <2>5. y = [x EXCEPT !.in = t, !.wp = @ + 1]
    BY <1>5, <2>3, <2>4
  <2>6. /\ y.count = x.count /\ y.point = x.point /\ y.out = x.out
        /\ y.in = t /\ y.wp = x.wp + 1 /\ y.tlen = x.tlen
        /\ y.tx = x.tx /\ y.busy = x.busy /\ y.rx = x.rx
    BY <2>3, <2>5 DEF PortType
  <2> QED
    BY <2>2, <2>3, <2>4, <2>6
<1>7. UsbType'
  <2>1. ep' \in [Ports -> PortType]
    <3>1. ASSUME NEW e \in PortType PROVE [e EXCEPT !.in = t, !.wp = @ + 1] \in PortType
      <4>1. t \in Seq(Said)
        BY <1>4
      <4>2. ASSUME NEW w \in Nat PROVE [e EXCEPT !.in = t, !.wp = w] \in PortType
        BY <4>1 DEF PortType
      <4>3. e.wp + 1 \in Nat
        BY DEF PortType
      <4> QED
        BY <4>2, <4>3
    <3>2. ep'[p] \in PortType
      BY <1>0, <1>5, <3>1 DEF UsbType
    <3> QED
      BY <1>0, <3>2 DEF UsbType, Put
  <2>2. owed' \in [Ports -> Seq(Said)]
    <3>1. owed'[p] \in Seq(Said)
      BY <1>1, <1>2, AppendProperties
    <3> QED
      BY <1>0, <3>1 DEF UsbType, Put
  <2> QED
    BY <1>0, <1>1, <2>1, <2>2 DEF UsbType
<1>8. OutInv(p)'
  BY <1>0, <1>1, <1>6 DEF OutInv, Reading, Place
<1>9. InInv(p)'
  <2>1. ~Arming(p) /\ ~Arming(p)'
    BY <1>1 DEF Arming
  <2>2. ep[p].tx = "nak" /\ owed[p] = SubSeq(ep[p].in, 1, ep[p].wp)
    BY <1>0, <1>1, <2>1 DEF InInv
  <2>3. owed'[p] = SubSeq(t, 1, ep[p].wp + 1)
    BY <1>1, <1>4, <2>2
  <2>4. ep'[p].tlen <= Len(t) /\ ep'[p].wp <= Len(t)
    <3>1. Len(t) \in Nat
      BY <1>4, LenProperties
    <3>2. ep[p].tlen <= Len(t)
      <4>1. PICK x, y, z : x = ep[p].tlen /\ y = Len(ep[p].in) /\ z = Len(t)
        OBVIOUS
      <4>2. x \in Nat /\ y \in Nat /\ z \in Nat /\ x <= y /\ y <= z
        BY <1>2, <1>4, <3>1, <4>1
      <4>3. x <= z
        BY <4>2
      <4> QED
        BY <4>1, <4>3
    <3> QED
      BY <1>4, <1>6, <3>2
  <2> QED
    BY <1>1, <1>6, <2>1, <2>2, <2>3, <2>4 DEF InInv
<1>10. ASSUME NEW q \in Ports, q # p PROVE OutInv(q)' /\ InInv(q)'
  BY <1>0, <1>1, <1>6, <1>10, PortSame
<1> QED
  BY <1>7, <1>8, <1>9, <1>10 DEF UsbInv

\* CdcX_flush arms the endpoint.
LEMMA ArmStep ==
  ASSUME UsbInv, NEW p \in Ports, Arm(p)
  PROVE  UsbInv'
<1>0. UsbType /\ OutInv(p) /\ InInv(p) /\ \A q \in Ports : OutInv(q) /\ InInv(q)
  BY DEF UsbInv
<1>1. /\ op.at = "idle" /\ op' = [at |-> "arming", p |-> p] /\ due' = due /\ owed' = owed
      /\ torn' = torn /\ ~ep[p].busy
  BY DEF Arm, Idle, FlushDue
<1>2. op'.at = "arming" /\ op'.p = p
  BY <1>1
<1>3. /\ ep'[p].count = ep[p].count /\ ep'[p].point = ep[p].point /\ ep'[p].out = ep[p].out
      /\ ep'[p].in = ep[p].in /\ ep'[p].wp = ep[p].wp /\ ep'[p].tlen = ep[p].wp
      /\ ep'[p].tx = "ack" /\ ep'[p].busy = ep[p].busy /\ ep'[p].rx = ep[p].rx
      /\ \A q \in Ports : q # p => ep'[q] = ep[q]
  BY <1>0 DEF UsbType, Arm, PortType
<1>4. UsbType'
  <2>1. ep' \in [Ports -> PortType]
    <3>1. PICK n : n = ep[p].wp
      OBVIOUS
    <3>2. ep'[p] = [ep[p] EXCEPT !.tlen = n, !.tx = "ack"]
      BY <1>0, <3>1 DEF UsbType, Arm
    <3>3. n \in Nat
      BY <1>0, <3>1 DEF UsbType, PortType
    <3>4. ASSUME NEW e \in PortType PROVE [e EXCEPT !.tlen = n, !.tx = "ack"] \in PortType
      BY <3>3 DEF PortType
    <3>5. ep[p] \in PortType
      BY <1>0 DEF UsbType
    <3>6. ep'[p] \in PortType
      BY <3>2, <3>4, <3>5
    <3> QED
      BY <1>0, <3>6 DEF UsbType, Arm
  <2>2. op' \in CallType
    BY <1>1 DEF CallType
  <2> QED
    BY <1>0, <1>1, <2>1, <2>2 DEF UsbType
<1>5. OutInv(p)'
  BY <1>0, <1>1, <1>2, <1>3 DEF OutInv, Reading, Place
<1>6. InInv(p)'
  <2>1. ~Arming(p) /\ Arming(p)'
    BY <1>1, <1>2 DEF Arming
  <2>2. ep[p].tx = "nak" /\ owed[p] = SubSeq(ep[p].in, 1, ep[p].wp)
    BY <1>0, <1>1, <2>1 DEF InInv
  <2> QED
    BY <1>0, <1>1, <1>3, <2>1, <2>2 DEF InInv
<1>7. ASSUME NEW q \in Ports, q # p PROVE OutInv(q)' /\ InInv(q)'
  <2>1. ~Reading(q) /\ ~Reading(q)' /\ ~Arming(q) /\ ~Arming(q)'
    BY <1>1, <1>2, <1>7 DEF Reading, Arming
  <2> QED
    BY <1>0, <1>1, <1>3, <1>7, <2>1, PortSame
<1> QED
  BY <1>4, <1>5, <1>6, <1>7 DEF UsbInv

\* CdcX_flush ends: the packet is on its way, unless a reset took it.
LEMMA SetBusyStep ==
  ASSUME UsbInv, NEW p \in Ports, SetBusy(p)
  PROVE  UsbInv'
<1>0. UsbType /\ OutInv(p) /\ InInv(p) /\ \A q \in Ports : OutInv(q) /\ InInv(q)
  BY DEF UsbInv
<1>1. /\ op.at = "arming" /\ op.p = p /\ op' = Idle /\ due' = due /\ owed' = owed
      /\ torn' = torn
  BY DEF SetBusy
<1>2. op'.at = "idle"
  BY <1>1 DEF Idle
<1>3. /\ ep'[p].count = ep[p].count /\ ep'[p].point = ep[p].point /\ ep'[p].out = ep[p].out
      /\ ep'[p].in = ep[p].in /\ ep'[p].wp = 0 /\ ep'[p].tlen = ep[p].tlen
      /\ ep'[p].tx = ep[p].tx /\ ep'[p].busy = TRUE /\ ep'[p].rx = ep[p].rx
      /\ \A q \in Ports : q # p => ep'[q] = ep[q]
  BY <1>0 DEF UsbType, SetBusy, Rewound, PortType
<1>4. UsbType'
  <2>1. ep' \in [Ports -> PortType]
    <3>2. ep'[p] = [ep[p] EXCEPT !.busy = TRUE, !.wp = 0]
      BY <1>0 DEF UsbType, SetBusy, Rewound
    <3>4. ASSUME NEW e \in PortType PROVE [e EXCEPT !.busy = TRUE, !.wp = 0] \in PortType
      BY DEF PortType
    <3>5. ep'[p] \in PortType
      BY <1>0, <3>2, <3>4 DEF UsbType
    <3> QED
      BY <1>0, <3>5 DEF UsbType, SetBusy
  <2>2. op' \in CallType
    BY <1>1 DEF CallType, Idle
  <2> QED
    BY <1>0, <1>1, <2>1, <2>2 DEF UsbType
<1>5. OutInv(p)'
  BY <1>0, <1>1, <1>2, <1>3 DEF OutInv, Reading, Place
<1>6. InInv(p)'
  <2>1. Arming(p) /\ ~Arming(p)'
    BY <1>1, <1>2 DEF Arming
  <2>2. Len(ep[p].in) \in Nat
    BY <1>0, LenProperties DEF UsbType, PortType
  <2> QED
    BY <1>0, <1>1, <1>3, <2>1, <2>2 DEF InInv
<1>7. ASSUME NEW q \in Ports, q # p PROVE OutInv(q)' /\ InInv(q)'
  <2>1. ~Reading(q) /\ ~Reading(q)' /\ ~Arming(q) /\ ~Arming(q)'
    BY <1>1, <1>2, <1>7 DEF Reading, Arming
  <2> QED
    BY <1>0, <1>1, <1>3, <1>7, <2>1, PortSame
<1> QED
  BY <1>4, <1>5, <1>6, <1>7 DEF UsbInv

\* Nothing happens on the ports.
LEMMA UsbSame ==
  ASSUME UsbInv, UNCHANGED usbVars
  PROVE  UsbInv'
BY DEF UsbInv, UsbType, usbVars, OutInv, InInv, Reading, Arming, Place

\* What is due on port B, and what cuts it, stays.
KeepsB ==
  /\ due'["B"] = due["B"] /\ ep'["B"].tog = ep["B"].tog
  /\ "out" \in torn'["B"] <=> "out" \in torn["B"]

\* The steps of the loop and the host that give nothing to B's reader, and take nothing.
LEMMA OtherStep ==
  ASSUME UsbInv, NEW p \in Ports,
         \/ Fetch(p) \/ Bump(p) \/ Arm(p) \/ SetBusy(p) \/ EpIn(p)
         \/ \E b \in Said : Put(p, b)
         \/ \E on \in BOOLEAN : SetDtr(p, on)
         \/ ClearHaltIn(p) /\ Transfers
         \/ Store(p) /\ p = "A"
         \/ UNCHANGED usbVars
  PROVE  UsbInv' /\ KeepsB
<1>0. ep \in [Ports -> PortType] /\ "B" \in Ports /\ torn \in [Ports -> SUBSET {"out", "in"}]
      /\ due \in [Ports -> Seq(Bytes)]
  BY DEF UsbInv, UsbType, Ports
<1>1. CASE Fetch(p)
  BY <1>1, FetchStep DEF Fetch, KeepsB
<1>2. CASE Bump(p)
  <2>1. KeepsB
    BY <1>0, <1>2 DEF Bump, KeepsB, PortType
  <2> QED
    BY <1>2, <2>1, BumpStep
<1>3. CASE Arm(p)
  <2>1. KeepsB
    BY <1>0, <1>3 DEF Arm, KeepsB, PortType
  <2> QED
    BY <1>3, <2>1, ArmStep
<1>4. CASE SetBusy(p)
  <2>1. KeepsB
    BY <1>0, <1>4 DEF SetBusy, KeepsB, PortType
  <2> QED
    BY <1>4, <2>1, SetBusyStep
<1>5. CASE EpIn(p)
  <2>1. KeepsB
    BY <1>0, <1>5 DEF EpIn, KeepsB, PortType
  <2> QED
    BY <1>5, <2>1, EpInStep
<1>6. ASSUME NEW b \in Said, Put(p, b) PROVE UsbInv' /\ KeepsB
  <2>1. KeepsB
    <3>1. PICK t : ep' = [ep EXCEPT ![p].in = t, ![p].wp = @ + 1]
      BY <1>6 DEF Put
    <3>2. ep'["B"].tog = ep["B"].tog
      BY <1>0, <3>1 DEF PortType
    <3> QED
      BY <1>6, <3>2 DEF KeepsB, Put
  <2> QED
    BY <1>6, <2>1, PutStep
<1>7. ASSUME NEW on \in BOOLEAN, SetDtr(p, on) PROVE UsbInv' /\ KeepsB
  <2>1. KeepsB
    BY <1>0, <1>7 DEF SetDtr, KeepsB, PortType
  <2> QED
    BY <1>7, <2>1, SetDtrStep
<1>8. CASE ClearHaltIn(p) /\ Transfers
  <2>1. ep'["B"].tog = ep["B"].tog
    BY <1>0, <1>8 DEF ClearHaltIn, PortType
  <2>2. "out" \in torn'["B"] <=> "out" \in torn["B"]
    BY <1>0, <1>8 DEF ClearHaltIn
  <2>3. KeepsB
    BY <1>8, <2>1, <2>2 DEF ClearHaltIn, KeepsB
  <2> QED
    BY <1>8, <2>3, ClearHaltInStep
<1>9. CASE Store(p) /\ p = "A"
  <2>1. ep'["B"].tog = ep["B"].tog /\ due'["B"] = due["B"] /\ torn' = torn
    BY <1>0, <1>9 DEF Store, PortType
  <2> QED
    BY <1>9, <2>1, StoreStep DEF KeepsB
<1>10. CASE UNCHANGED usbVars
  BY <1>10, UsbSame DEF KeepsB, usbVars
<1> QED
  BY <1>1, <1>2, <1>3, <1>4, <1>5, <1>6, <1>7, <1>8, <1>9, <1>10

-----------------------------------------------------------------------------
(* The control endpoint                                                    *)

\* The parts of a request.
LEMMA RequestParts ==
  ASSUME NEW r \in Requests
  PROVE  /\ r.k = "desc" => r.size \in Nat /\ r.wlen \in Nat
         /\ r.k = "line" => r.port \in Ports /\ r.baud \in Bauds
         /\ r.k = "dtr" => r.port \in Ports /\ r.on \in BOOLEAN
         /\ r.k = "clear" => r.port \in Ports /\ r.dir \in {"in", "out"}
BY ControlAssumption DEF Requests

\* The smaller of two lengths.
LEMMA SmallerIs ==
  ASSUME NEW a \in Nat, NEW b \in Nat
  PROVE  Smaller(a, b) \in Nat /\ Smaller(a, b) <= a /\ Smaller(a, b) <= b
BY DEF Smaller

\* A transfer is armed.
LEMMA ArmedIs ==
  ASSUME ctl \in CtlType, NEW r \in Requests, NEW n \in Nat, NEW l \in Nat, l <= n,
         NEW c, c = Armed(r, n, l)
  PROVE  c \in CtlType /\ c.req = r /\ c.left = n - l /\ c.tlen = l /\ c.rx = "ack"
<1>1. PICK m \in Nat : m = n - l
  OBVIOUS
<1>2. c = [ctl EXCEPT !.req = r, !.left = m, !.tlen = l, !.rx = "ack", !.tx = "ack"]
  BY <1>1 DEF Armed
<1>3. ASSUME NEW e \in CtlType, NEW f,
             f = [e EXCEPT !.req = r, !.left = m, !.tlen = l, !.rx = "ack", !.tx = "ack"]
      PROVE  f \in CtlType /\ f.req = r /\ f.left = m /\ f.tlen = l /\ f.rx = "ack"
  BY <1>3 DEF CtlType
<1> QED
  BY <1>1, <1>2, <1>3

\* A request starts a transfer, or stalls.
LEMMA SetupCtl ==
  ASSUME CtlInv, NEW r \in Requests, Setup(r)
  PROVE  CtlInv'
<1>0. ctl \in CtlType /\ 0 \in Nat /\ Ep0Size \in Nat
  BY ControlAssumption DEF CtlInv
<1>1. host' = IF ctl'.rx = "stall" THEN NoTransfer ELSE [r |-> r, k |-> "open", got |-> 0]
  BY DEF Setup
<1>2. ASSUME NEW n \in Nat, NEW l \in Nat, l <= n, ctl' \in CtlType, ctl'.req = r,
             ctl'.left = n - l, ctl'.tlen = l, ctl'.rx = "ack",
             r.k = "desc" => n = Smaller(r.size, r.wlen) /\ l = Smaller(n, Ep0Size)
      PROVE  CtlInv'
  <2>1. host' = [r |-> r, k |-> "open", got |-> 0]
    BY <1>1, <1>2
  <2>2. host' \in HostType /\ host'.k = "open" /\ host'.r = r /\ host'.got = 0
    BY <2>1 DEF HostType
  <2>3. 0 + l + (n - l) = n /\ (n - l) + l = n
    BY <1>2
  <2> QED
    BY <1>2, <2>2, <2>3 DEF CtlInv, DescriptorExact
<1>3. CASE SetupDesc(r)
  <2>1. PICK n, l : n = Smaller(r.size, r.wlen) /\ l = Smaller(n, Ep0Size)
    OBVIOUS
  <2>2. n \in Nat /\ l \in Nat /\ l <= n
    BY <1>0, <1>3, <2>1, RequestParts, SmallerIs DEF SetupDesc
  <2>3. ctl' = Armed(r, n, l)
    <3>1. r.size \in Nat /\ r.wlen \in Nat
      BY <1>3, RequestParts DEF SetupDesc
    <3>2. Clamped(r.size, r.wlen) = n
      BY <2>1, <3>1 DEF Clamped, Smaller
    <3> QED
      BY <1>3, <2>1, <3>2 DEF SetupDesc
  <2>4. ctl' \in CtlType /\ ctl'.req = r /\ ctl'.left = n - l /\ ctl'.tlen = l /\ ctl'.rx = "ack"
    BY <1>0, <2>2, <2>3, ArmedIs
  <2> QED
    BY <1>2, <2>1, <2>2, <2>4
<1>4. CASE r.k # "desc" /\ ctl' = Armed(r, 0, 0)
  <2>1. ctl' \in CtlType /\ ctl'.req = r /\ ctl'.left = 0 - 0 /\ ctl'.tlen = 0 /\ ctl'.rx = "ack"
    BY <1>0, <1>4, ArmedIs
  <2> QED
    BY <1>0, <1>2, <1>4, <2>1
<1>5. CASE SetupDtr(r)
  <2>1. PICK c : c = Armed(r, 0, 0)
    OBVIOUS
  <2>2. c \in CtlType /\ c.req = r /\ c.left = 0 - 0 /\ c.tlen = 0 /\ c.rx = "ack"
    BY <1>0, <2>1, ArmedIs
  <2>3. PICK x \in BOOLEAN : x = (r.port = "A" /\ ~r.on /\ ctl.line["A"] = Touch)
    OBVIOUS
  <2>4. ctl' = [c EXCEPT !.boot = x] /\ r.k = "dtr"
    BY <1>5, <2>1, <2>3 DEF SetupDtr
  <2>5. /\ ctl' \in CtlType /\ ctl'.req = r /\ ctl'.left = 0 - 0 /\ ctl'.tlen = 0
        /\ ctl'.rx = "ack"
    BY <2>2, <2>4 DEF CtlType
  <2> QED
    BY <1>0, <1>2, <2>4, <2>5
<1>6. CASE SetupBad(r)
  <2>1. ctl' \in CtlType /\ ctl'.rx = "stall"
    BY <1>0, <1>6 DEF SetupBad, Stalled, CtlType
  <2>2. host' = NoTransfer
    BY <1>1, <2>1
  <2> QED
    BY <2>1, <2>2 DEF CtlInv, HostType, NoTransfer, DescriptorExact
<1> QED
  BY <1>3, <1>4, <1>5, <1>6 DEF Setup, SetupAddr, SetupPlain, SetupLine, SetupClear

\* The host is in a transfer.
LEMMA HostOpen ==
  ASSUME NEW h \in HostType, h.k # "none"
  PROVE  /\ h \in [r : Requests, k : {"open", "in done"}, got : Nat]
         /\ h.r \in Requests /\ h.got \in Nat
<1>1. NoTransfer.k = "none"
  BY DEF NoTransfer
<1>2. h # NoTransfer
  BY <1>1
<1>3. h \in [r : Requests, k : {"open", "in done"}, got : Nat]
  BY <1>2 DEF HostType
<1> QED
  BY <1>3

\* What the host takes is counted, and the next piece is what is left.
LEMMA CtlInCtl ==
  ASSUME CtlInv, CtlIn
  PROVE  CtlInv'
<1>0. ctl \in CtlType /\ host \in HostType /\ host.k = "open" /\ ctl.req = host.r
  BY DEF CtlInv, CtlIn
<1>1. /\ host.r \in Requests /\ host.got \in Nat /\ ctl.left \in Nat /\ ctl.tlen \in Nat
      /\ Ep0Size \in Nat \ {0}
  BY <1>0, HostOpen, ControlAssumption DEF CtlType
<1>2. ASSUME ctl' \in CtlType, host' = NoTransfer PROVE CtlInv'
  BY <1>2 DEF CtlInv, HostType, NoTransfer, DescriptorExact
<1>3. CASE ctl.req.k = "desc" /\ host.r.k = "desc"
  <2>1. PICK n : n = Smaller(ctl.left, Ep0Size)
    OBVIOUS
  <2>2. n \in Nat /\ n <= ctl.left
    BY <1>1, <2>1, SmallerIs
  <2>12. PICK m \in Nat : m = ctl.left - n
    BY <1>1, <2>2
  <2>3. m + n = ctl.left
    BY <1>1, <2>2, <2>12
  <2>4. ctl' = [ctl EXCEPT !.left = m, !.tlen = n]
    BY <1>0, <1>3, <2>1, <2>12 DEF CtlIn
  <2>5. ASSUME NEW e \in CtlType, NEW f, f = [e EXCEPT !.left = m, !.tlen = n]
        PROVE  f \in CtlType /\ f.left = m /\ f.tlen = n /\ f.req = e.req
    BY <2>2, <2>5 DEF CtlType
  <2>6. ctl' \in CtlType /\ ctl'.left = m /\ ctl'.tlen = n /\ ctl'.req = ctl.req
    BY <1>0, <2>4, <2>5
  <2>7. PICK g \in Nat : g = host.got + ctl.tlen
    BY <1>1
  <2>8. PICK t : t = Smaller(host.r.size, host.r.wlen)
    OBVIOUS
  <2>9. /\ t \in Nat /\ host.r.wlen \in Nat /\ t <= host.r.wlen
        /\ g + ctl.left = t /\ ctl.tlen = Smaller(ctl.left + ctl.tlen, Ep0Size)
    BY <1>0, <1>1, <1>3, <2>7, <2>8, RequestParts, SmallerIs DEF CtlInv
  <2>10. CASE ctl.tlen < Ep0Size \/ host.got + ctl.tlen = host.r.wlen
    <3>1. host' = [r |-> host.r, k |-> "in done", got |-> g]
      BY <1>0, <1>3, <2>7, <2>10 DEF CtlIn
    <3>2. host' \in HostType /\ host'.k = "in done" /\ host'.got = g /\ host'.r = host.r
      BY <1>1, <3>1 DEF HostType
    <3>3. ctl.tlen < Ep0Size => ctl.left = 0
      BY <1>1, <2>9 DEF Smaller
    <3>4. g = t
      BY <1>1, <2>7, <2>9, <2>10, <3>3
    <3> QED
      BY <2>6, <2>8, <3>2, <3>4 DEF CtlInv, DescriptorExact
  <2>11. CASE ~(ctl.tlen < Ep0Size \/ host.got + ctl.tlen = host.r.wlen)
    <3>1. host' = [host EXCEPT !.got = g]
      BY <1>0, <1>3, <2>7, <2>11 DEF CtlIn
    <3>2. host \in [r : Requests, k : {"open", "in done"}, got : Nat]
      BY <1>0, HostOpen
    <3>3. host' \in HostType /\ host'.k = "open" /\ host'.got = g /\ host'.r = host.r
      BY <1>0, <3>1, <3>2 DEF HostType
    <3>4. g + n + m = t /\ n = Smaller(m + n, Ep0Size)
      BY <1>1, <2>1, <2>2, <2>3, <2>7, <2>9
    <3> QED
      BY <1>0, <2>6, <2>8, <3>3, <3>4 DEF CtlInv, DescriptorExact
  <2> QED
    BY <2>10, <2>11
<1>4. ASSUME ctl' = [ctl EXCEPT !.addr = 1, !.tx = "nak"] PROVE ctl' \in CtlType
  BY <1>0, <1>4 DEF CtlType
<1>5. ASSUME ctl' = [ctl EXCEPT !.tlen = 0, !.tx = "nak"] PROVE ctl' \in CtlType
  BY <1>0, <1>5 DEF CtlType
<1> QED
  BY <1>2, <1>3, <1>4, <1>5 DEF CtlIn

\* The line coding arrives, or the host ends a descriptor.
LEMMA CtlOutCtl ==
  ASSUME CtlInv, CtlOut
  PROVE  CtlInv'
<1>0. ctl \in CtlType /\ host \in HostType
  BY DEF CtlInv
<1>1. CASE host.k = "in done" /\ ctl' = [ctl EXCEPT !.tlen = 0, !.tx = "nak"]
                              /\ host' = NoTransfer
  <2>1. ctl' \in CtlType
    BY <1>0, <1>1 DEF CtlType
  <2> QED
    BY <1>1, <2>1 DEF CtlInv, HostType, NoTransfer, DescriptorExact
<1>2. CASE /\ host.k = "open" /\ host.r.k = "line" /\ ctl.req.k = "line"
           /\ ctl' = [ctl EXCEPT !.line[ctl.req.port] = host.r.baud, !.tlen = 0]
           /\ host' = [host EXCEPT !.got = 1]
  <2>1. host \in [r : Requests, k : {"open", "in done"}, got : Nat] /\ ctl.req = host.r
    BY <1>0, <1>2, HostOpen DEF CtlInv
  <2>2. host' \in HostType /\ host'.k = "open" /\ host'.r = host.r
    BY <1>2, <2>1 DEF HostType
  <2>3. ctl.req.port \in Ports /\ host.r.baud \in Bauds
    BY <1>2, <2>1, RequestParts
  <2>4. PICK q \in Ports, b \in Bauds : q = ctl.req.port /\ b = host.r.baud
    BY <2>3
  <2>5. ctl' = [ctl EXCEPT !.line[q] = b, !.tlen = 0]
    BY <1>2, <2>4
  <2>6. ASSUME NEW e \in CtlType, NEW f, f = [e EXCEPT !.line[q] = b, !.tlen = 0]
        PROVE  f \in CtlType /\ f.req = e.req
    BY <2>6 DEF CtlType
  <2>7. ctl' \in CtlType /\ ctl'.req = ctl.req
    BY <1>0, <2>5, <2>6
  <2> QED
    BY <1>2, <2>1, <2>2, <2>7 DEF CtlInv, DescriptorExact
<1> QED
  BY <1>1, <1>2 DEF CtlOut

\* A bus reset ends the transfer.
LEMMA ResetCtl ==
  ASSUME CtlInv, Reset
  PROVE  CtlInv'
<1>1. ctl' \in CtlType /\ host' = NoTransfer
  BY DEF CtlInv, Reset, CtlType
<1> QED
  BY <1>1 DEF CtlInv, HostType, NoTransfer, DescriptorExact

\* Nothing happens on the control endpoint.
LEMMA CtlSame ==
  ASSUME CtlInv, UNCHANGED ctlVars
  PROVE  CtlInv'
BY DEF CtlInv, ctlVars, DescriptorExact

\* What a request does to the ports; only a halt cleared on OUT can touch B's reader.
LEMMA SetupUsb ==
  ASSUME UsbInv, NEW r \in Requests, Setup(r)
  PROVE  UsbInv' /\ (~(r.k = "clear" /\ r.dir = "out") => KeepsB)
<1>0. Transfers /\ "A" \in Ports
  BY DEF Setup, Ports
<1>1. CASE UNCHANGED usbVars
  BY <1>0, <1>1, OtherStep
<1>2. CASE SetupDtr(r)
  <2>1. PICK p \in Ports, on \in BOOLEAN : SetDtr(p, on)
    BY <1>2, RequestParts DEF SetupDtr
  <2> QED
    BY <2>1, OtherStep
<1>3. CASE SetupClear(r)
  <2>1. r.k = "clear" /\ r.port \in Ports
    BY <1>3, RequestParts DEF SetupClear
  <2>2. CASE r.dir = "in"
    <3>1. PICK p \in Ports : ClearHaltIn(p)
      BY <1>3, <2>1, <2>2 DEF SetupClear
    <3> QED
      BY <1>0, <2>2, <3>1, OtherStep
  <2>3. CASE r.dir # "in"
    <3>1. PICK p \in Ports : ClearHaltOut(p)
      BY <1>3, <2>1, <2>3 DEF SetupClear
    <3>2. r.dir = "out"
      BY <2>1, <2>3, RequestParts
    <3> QED
      BY <2>1, <3>1, <3>2, ClearHaltOutStep
  <2> QED
    BY <2>2, <2>3
<1> QED
  BY <1>1, <1>2, <1>3 DEF Setup, SetupDesc, SetupAddr, SetupPlain, SetupLine, SetupBad

-----------------------------------------------------------------------------
(* The receiver of the CMD port                                            *)

\* Every status the firmware answers is one of what it says.
LEMMA ExecutedSaid ==
  ASSUME NEW t \in DOMAIN Meaning, NEW x \in Executed(Meaning[t])
  PROVE  x[1] \in Said
<1>1. Meaning[t].t \in Said /\ "ok" \in Said /\ "badargs" \in Said
  BY DEF Said
<1>2. PICK c : c = Meaning[t]
  OBVIOUS
<1>3. CASE c.t = "set"
  BY <1>1, <1>2, <1>3 DEF Executed
<1>4. CASE c.t = "toggle"
  BY <1>1, <1>2, <1>4 DEF Executed
<1>5. CASE c.t = "describe"
  <2>1. x = <<IF Known(c.i) THEN "ok" ELSE "badargs", outs>>
    BY <1>2, <1>5 DEF Executed
  <2> QED
    BY <1>1, <2>1
<1>6. CASE c.t \notin {"set", "toggle", "describe"}
  <2>1. x = <<c.t, outs>>
    BY <1>2, <1>6 DEF Executed
  <2> QED
    BY <1>1, <1>2, <2>1
<1> QED
  BY <1>3, <1>4, <1>5, <1>6

\* An answer to a frame or to a line is a sequence of what the firmware says.
LEMMA AnswerSaid ==
  ASSUME NEW st \in Said
  PROVE  Framed(st) \in Seq(Said) /\ Line(st) \in Seq(Said)
<1>1. Zero \in Said /\ Eol \in Said
  BY DEF Said
<1> QED
  BY <1>1 DEF Framed, Line

\* So is what the end of a frame is answered.
LEMMA FrameEndSaid ==
  ASSUME NEW buf, NEW x \in FrameEnd(buf)
  PROVE  x[1] \in Seq(Said)
<1>1. CASE Len(buf) = 1 /\ buf[1] \in DOMAIN Meaning
  <2>1. PICK y \in Executed(Meaning[buf[1]]) : x = <<Framed(y[1]), y[2]>>
    BY <1>1 DEF FrameEnd
  <2> QED
    BY <1>1, <2>1, ExecutedSaid, AnswerSaid
<1>2. CASE ~(Len(buf) = 1 /\ buf[1] \in DOMAIN Meaning)
  <2>1. x = <<<<>>, outs>> \/ x = <<Framed("badcrc"), outs>>
    BY <1>2 DEF FrameEnd
  <2>2. "badcrc" \in Said
    BY DEF Said
  <2>3. Framed("badcrc") \in Seq(Said) /\ <<>> \in Seq(Said)
    BY <2>2, AnswerSaid, EmptySeq
  <2>4. x[1] = <<>> \/ x[1] = Framed("badcrc")
    BY <2>1
  <2> QED
    BY <2>3, <2>4
<1> QED
  BY <1>1, <1>2

\* And what the end of a line is.
LEMMA LineEndSaid ==
  ASSUME NEW buf, NEW x \in LineEnd(buf)
  PROVE  x[1] \in Seq(Said)
<1>1. x[1] = Line("ok") \/ x[1] = Line("err")
  BY DEF LineEnd
<1>2. "ok" \in Said /\ "err" \in Said
  BY DEF Said
<1> QED
  BY <1>1, <1>2, AnswerSaid

\* A frame or a line ends.
LEMMA EndsCmd ==
  ASSUME NEW R, \A x \in R : x[1] \in Seq(Said), Ends(R)
  PROVE  cmd' \in CmdType /\ cmd'.mode = "idle"
<1>1. PICK y \in Seq(Said), f \in BOOLEAN :
        cmd' = [mode |-> "idle", buf |-> <<>>, reply |-> y, flush |-> f]
  <2>1. PICK x \in R :
          cmd' = [mode |-> "idle", buf |-> <<>>, reply |-> x[1],
                  flush |-> Head(x[1] \o <<Eol>>) = Zero]
    BY DEF Ends
  <2>2. PICK f \in BOOLEAN : f = (Head(x[1] \o <<Eol>>) = Zero)
    OBVIOUS
  <2> QED
    BY <2>1, <2>2
<1>2. <<>> \in Seq(Bytes \cup {Garbage}) /\ "idle" \in Modes
  BY EmptySeq DEF Modes
<1> QED
  BY <1>1, <1>2 DEF CmdType

\* A byte goes on with a message.
LEMMA ModeCmd ==
  ASSUME cmd \in CmdType, NEW m \in Modes, NEW b \in Seq(Bytes \cup {Garbage}), Mode(m, b)
  PROVE  cmd' \in CmdType /\ cmd'.mode = m
<1>1. cmd' = [cmd EXCEPT !.mode = m, !.buf = b]
  BY DEF Mode
<1> QED
  BY <1>1 DEF CmdType

\* The mode of the receiver follows NextMode, unless a frame overflows.
LEMMA ByteStep ==
  ASSUME cmd \in CmdType, NEW d \in Bytes \cup {Garbage},
         IdleByte(d) \/ AsciiByte(d) \/ BinaryByte(d)
  PROVE  cmd' \in CmdType /\ (Overflows(d) \/ cmd'.mode = NextMode(cmd.mode, d))
<1>1. /\ {"idle", "ascii", "bin"} = Modes /\ Zero # Eol /\ Zero # Ctl /\ cmd.buf \in Seq(Bytes \cup {Garbage})
      /\ <<>> \in Seq(Bytes \cup {Garbage}) /\ <<d>> \in Seq(Bytes \cup {Garbage})
      /\ Append(cmd.buf, d) \in Seq(Bytes \cup {Garbage})
  BY EmptySeq, AppendProperties DEF Modes, Zero, Eol, Ctl, CmdType
<1>2. \A m \in Modes : \A b \in Seq(Bytes \cup {Garbage}) :
        Mode(m, b) => cmd' \in CmdType /\ cmd'.mode = m
  BY ModeCmd
<1>3. CASE IdleByte(d)
  BY <1>1, <1>2, <1>3 DEF IdleByte, NextMode
<1>4. CASE AsciiByte(d)
  <2>1. CASE d = Eol
    <3>1. Ends(LineEnd(cmd.buf)) /\ cmd.mode = "ascii"
      BY <1>1, <1>4, <2>1 DEF AsciiByte
    <3>2. cmd' \in CmdType /\ cmd'.mode = "idle"
      BY <3>1, LineEndSaid, EndsCmd
    <3> QED
      BY <1>1, <2>1, <3>1, <3>2 DEF NextMode
  <2>2. CASE d = Zero
    BY <1>1, <1>2, <1>4, <2>2 DEF AsciiByte, NextMode
  <2>3. CASE d # Eol /\ d # Zero
    <3>1. PICK b \in Seq(Bytes \cup {Garbage}) : Mode("ascii", b)
      BY <1>1, <1>4, <2>3 DEF AsciiByte
    <3>2. cmd.mode = "ascii"
      BY <1>4 DEF AsciiByte
    <3> QED
      BY <1>1, <1>2, <2>3, <3>1, <3>2 DEF NextMode
  <2> QED
    BY <2>1, <2>2, <2>3
<1>5. CASE BinaryByte(d)
  <2>1. CASE d = Zero
    <3>1. Ends(FrameEnd(cmd.buf)) /\ cmd.mode = "bin"
      BY <1>5, <2>1 DEF BinaryByte, Close, Overflows
    <3>2. cmd' \in CmdType /\ cmd'.mode = "idle"
      BY <3>1, FrameEndSaid, EndsCmd
    <3> QED
      BY <2>1, <3>1, <3>2 DEF NextMode
  <2>2. CASE d # Zero /\ Overflows(d)
    BY <1>1, <1>2, <1>5, <2>2 DEF BinaryByte
  <2>3. CASE d # Zero /\ ~Overflows(d)
    BY <1>1, <1>2, <1>5, <2>3 DEF BinaryByte, NextMode
  <2> QED
    BY <2>1, <2>2, <2>3
<1> QED
  BY <1>3, <1>4, <1>5

\* No bytes leave the receiver where it is.
LEMMA TakesNone ==
  ASSUME NEW m \in Modes, NEW n
  PROVE  /\ Takes(m, <<>>, n) => m = n
         /\ Takes(m, <<>>, m)
<1>1. Len(<<>>) = 0
  OBVIOUS
<1>2. Takes(m, <<>>, n) => m = n
  BY <1>1 DEF Takes
<1>3. PICK g : g = [i \in 0..0 |-> m]
  OBVIOUS
<1>4. g \in [0..0 -> Modes] /\ g[0] = m
  BY <1>3
<1>5. Takes(m, <<>>, m)
  BY <1>1, <1>4 DEF Takes
<1> QED
  BY <1>2, <1>5

\* The first of several bytes is read.
LEMMA TakesFirst ==
  ASSUME NEW m, NEW n, NEW s \in Seq(Bytes), s # <<>>, Takes(m, s, n)
  PROVE  Takes(NextMode(m, Head(s)), Tail(s), n)
<1>1. /\ Len(s) \in Nat /\ Len(s) >= 1 /\ Tail(s) \in Seq(Bytes) /\ Head(s) = s[1]
      /\ Len(Tail(s)) = Len(s) - 1 /\ \A k \in 1..(Len(s) - 1) : Tail(s)[k] = s[k + 1]
  BY EmptySeq, LenProperties, HeadTailProperties
<1>0. Len(s) \in Nat /\ Len(s) >= 1
  BY <1>1
<1>2. PICK l \in Nat : l = Len(s) - 1
  BY <1>0
<1>3. PICK g \in [0..Len(s) -> Modes] :
        g[0] = m /\ g[Len(s)] = n /\ \A k \in 1..Len(s) : g[k] = NextMode(g[k - 1], s[k])
  BY DEF Takes
<1>4. PICK h : h = [k \in 0..l |-> g[k + 1]]
  OBVIOUS
<1>5. ASSUME NEW k \in 0..l PROVE k + 1 \in 0..Len(s) /\ k + 1 \in 1..Len(s)
  BY <1>1, <1>2
<1>6. h \in [0..l -> Modes]
  BY <1>3, <1>4, <1>5
<1>7. h[0] = NextMode(m, Head(s))
  <2>1. 0 \in 0..l /\ 1 \in 1..Len(s)
    BY <1>1, <1>2
  <2>2. h[0] = g[1] /\ g[1] = NextMode(g[0], s[1])
    BY <1>3, <1>4, <2>1
  <2> QED
    BY <1>1, <1>3, <2>2
<1>8. h[l] = n
  <2>1. l \in 0..l /\ l + 1 = Len(s)
    BY <1>1, <1>2
  <2> QED
    BY <1>3, <1>4, <2>1
<1>9. ASSUME NEW k \in 1..l PROVE h[k] = NextMode(h[k - 1], Tail(s)[k])
  <2>1. k \in 0..l /\ k - 1 \in 0..l /\ k \in 1..(Len(s) - 1) /\ (k - 1) + 1 = k
    BY <1>1, <1>2
  <2>2. k + 1 \in 1..Len(s) /\ (k + 1) - 1 = k
    BY <2>1, <1>5
  <2>3. h[k] = g[k + 1] /\ h[k - 1] = g[k]
    BY <1>4, <2>1
  <2>4. g[k + 1] = NextMode(g[k], s[k + 1])
    BY <1>3, <2>2
  <2> QED
    BY <1>1, <2>1, <2>3, <2>4
<1> QED
  BY <1>1, <1>2, <1>6, <1>7, <1>8, <1>9 DEF Takes

\* More bytes come behind those that are due.
LEMMA TakesMore ==
  ASSUME NEW m, NEW n, NEW q, NEW s \in Seq(Bytes), NEW d \in Seq(Bytes),
         Takes(m, s, n), Takes(n, d, q)
  PROVE  Takes(m, s \o d, q)
<1>1. Len(s) \in Nat /\ Len(d) \in Nat
  BY LenProperties
<1>2. PICK x \in Nat, y \in Nat : x = Len(s) /\ y = Len(d)
  BY <1>1
<1>3. PICK t : t = s \o d
  OBVIOUS
<1>4. /\ Len(t) = x + y
      /\ \A k \in 1..(x + y) : t[k] = IF k <= x THEN s[k] ELSE d[k - x]
  BY <1>2, <1>3, ConcatProperties
<1>5. PICK g \in [0..x -> Modes] :
        g[0] = m /\ g[x] = n /\ \A k \in 1..x : g[k] = NextMode(g[k - 1], s[k])
  BY <1>2 DEF Takes
<1>6. PICK f \in [0..y -> Modes] :
        f[0] = n /\ f[y] = q /\ \A k \in 1..y : f[k] = NextMode(f[k - 1], d[k])
  BY <1>2 DEF Takes
<1>7. PICK h : h = [k \in 0..(x + y) |-> IF k <= x THEN g[k] ELSE f[k - x]]
  OBVIOUS
<1>8. h \in [0..(x + y) -> Modes]
  <2>1. ASSUME NEW k \in 0..(x + y) PROVE (k <= x => k \in 0..x) /\ (~(k <= x) => k - x \in 0..y)
    OBVIOUS
  <2>2. ASSUME NEW k \in 0..(x + y) PROVE (IF k <= x THEN g[k] ELSE f[k - x]) \in Modes
    BY <2>1
  <2> QED
    BY <1>7, <2>2
<1>9. h[0] = m
  BY <1>5, <1>7
<1>10. h[x + y] = q
  <2>1. x + y \in 0..(x + y)
    OBVIOUS
  <2>2. CASE y = 0
    BY <1>5, <1>6, <1>7, <2>1, <2>2
  <2>3. CASE y > 0
    <3>1. ~(x + y <= x) /\ (x + y) - x = y
      BY <2>3
    <3> QED
      BY <1>6, <1>7, <2>1, <3>1
  <2> QED
    BY <2>2, <2>3
<1>11. ASSUME NEW k \in 1..(x + y) PROVE h[k] = NextMode(h[k - 1], t[k])
  <2>1. k \in 0..(x + y) /\ k - 1 \in 0..(x + y)
    OBVIOUS
  <2>2. CASE k <= x
    <3>1. k \in 1..x /\ k - 1 <= x
      BY <2>2
    <3>2. h[k] = g[k] /\ h[k - 1] = g[k - 1] /\ t[k] = s[k]
      BY <1>4, <1>7, <2>1, <2>2, <3>1
    <3> QED
      BY <1>5, <3>1, <3>2
  <2>3. CASE ~(k <= x)
    <3>1. PICK j \in 1..y : j = k - x
      BY <2>3
    <3>2. h[k] = f[j] /\ t[k] = d[j]
      BY <1>4, <1>7, <2>1, <2>3, <3>1
    <3>3. h[k - 1] = f[j - 1]
      <4>1. CASE j = 1
        <5>1. k - 1 = x
          BY <3>1, <4>1
        <5> QED
          BY <1>5, <1>6, <1>7, <2>1, <4>1, <5>1
      <4>2. CASE j # 1
        <5>1. ~(k - 1 <= x) /\ (k - 1) - x = j - 1
          BY <3>1, <4>2
        <5> QED
          BY <1>7, <2>1, <5>1
      <4> QED
        BY <4>1, <4>2
    <3> QED
      BY <1>6, <3>1, <3>2, <3>3
  <2> QED
    BY <2>2, <2>3
<1> QED
  BY <1>3, <1>4, <1>8, <1>9, <1>10, <1>11 DEF Takes

\* The first of the packets to come is received.
LEMMA CompletesFirst ==
  ASSUME NEW m, NEW w \in Seq(Seq(Bytes)), w # <<>>, Completes(m, w)
  PROVE  \E n \in Modes : Takes(m, Head(w), n) /\ Completes(n, Tail(w))
<1>1. /\ Len(w) \in Nat /\ Len(w) >= 1 /\ Tail(w) \in Seq(Seq(Bytes)) /\ Head(w) = w[1]
      /\ Len(Tail(w)) = Len(w) - 1 /\ \A k \in 1..(Len(w) - 1) : Tail(w)[k] = w[k + 1]
  BY EmptySeq, LenProperties, HeadTailProperties
<1>0. Len(w) \in Nat /\ Len(w) >= 1
  BY <1>1
<1>01. Len(w) - 1 \in Nat
  BY <1>0
<1>2. PICK l \in Nat : l = Len(w) - 1
  BY <1>01
<1>3. PICK g \in [0..Len(w) -> Modes] :
        g[0] = m /\ g[Len(w)] = "idle" /\ \A k \in 1..Len(w) : Takes(g[k - 1], w[k], g[k])
  BY DEF Completes
<1>4. PICK h : h = [k \in 0..l |-> g[k + 1]]
  OBVIOUS
<1>5. ASSUME NEW k \in 0..l PROVE k + 1 \in 0..Len(w) /\ k + 1 \in 1..Len(w)
  BY <1>1, <1>2
<1>6. h \in [0..l -> Modes]
  BY <1>3, <1>4, <1>5
<1>7. h[0] = g[1] /\ Takes(m, Head(w), g[1]) /\ g[1] \in Modes
  <2>1. 0 \in 0..l /\ 1 \in 1..Len(w) /\ 1 \in 0..Len(w)
    BY <1>1, <1>2
  <2>2. h[0] = g[1] /\ Takes(g[0], w[1], g[1])
    BY <1>3, <1>4, <2>1
  <2> QED
    BY <1>1, <1>3, <2>1, <2>2
<1>8. h[l] = "idle"
  <2>1. l \in 0..l /\ l + 1 = Len(w)
    BY <1>1, <1>2
  <2> QED
    BY <1>3, <1>4, <2>1
<1>9. ASSUME NEW k \in 1..l PROVE Takes(h[k - 1], Tail(w)[k], h[k])
  <2>1. k \in 0..l /\ k - 1 \in 0..l /\ k \in 1..(Len(w) - 1) /\ (k - 1) + 1 = k
    BY <1>1, <1>2
  <2>2. k + 1 \in 1..Len(w) /\ (k + 1) - 1 = k
    BY <2>1, <1>5
  <2>3. h[k] = g[k + 1] /\ h[k - 1] = g[k]
    BY <1>4, <2>1
  <2>4. Takes(g[k], w[k + 1], g[k + 1])
    BY <1>3, <2>2
  <2> QED
    BY <1>1, <2>1, <2>3, <2>4
<1>10. Completes(g[1], Tail(w))
  BY <1>1, <1>2, <1>6, <1>7, <1>8, <1>9 DEF Completes
<1> QED
  BY <1>7, <1>10

-----------------------------------------------------------------------------
(* Every step of the firmware                                              *)

\* A step that gives B's reader nothing and takes nothing keeps it in phase.
LEMMA PhaseKept ==
  ASSUME PhaseInv, KeepsB, whole' => whole, cmd'.mode = cmd.mode,
         usb'.plan["B"] = usb.plan["B"], usb'.tog["B"] = usb.tog["B"]
  PROVE  PhaseInv'
BY DEF PhaseInv, KeepsB, Coming

\* A step of the loop or the host that moves no byte to or from B's reader.
LEMMA Kept ==
  ASSUME FirmwareInv, UsbInv', KeepsB, UNCHANGED ctlVars, usb' = usb, whole' = whole,
         cmd' \in CmdType, cmd'.mode = cmd.mode
  PROVE  FirmwareInv'
<1>1. CtlInv'
  BY CtlSame DEF FirmwareInv
<1>2. LoopType'
  BY DEF FirmwareInv, LoopType
<1>3. PhaseInv'
  BY PhaseKept DEF FirmwareInv
<1> QED
  BY <1>1, <1>2, <1>3 DEF FirmwareInv

\* A byte of the CMD port is read and goes to the receiver.
LEMMA PollStep ==
  ASSUME FirmwareInv, Store("B"), IdleByte(op.d) \/ AsciiByte(op.d) \/ BinaryByte(op.d),
         whole' = (whole /\ (op.at = "loaded" => ~Overflows(op.d))), UNCHANGED <<ctlVars, usb>>
  PROVE  FirmwareInv'
<1>0. "B" \in Ports /\ UsbInv /\ CtlInv /\ LoopType /\ PhaseInv /\ UsbType
  BY DEF Ports, FirmwareInv, UsbInv
<1>1. UsbInv' /\ CtlInv'
  BY <1>0, StoreStep, CtlSame
<1>2. /\ op.at = "loaded" /\ Reading("B") /\ op.d \in Bytes \cup {Garbage}
      /\ torn' = torn /\ usb' = usb /\ whole' \in BOOLEAN
  BY <1>0 DEF Store, Reading, UsbType, CallType
<1>3. cmd' \in CmdType /\ (Overflows(op.d) \/ cmd'.mode = NextMode(cmd.mode, op.d))
  BY <1>0, <1>2, ByteStep DEF LoopType
<1>4. LoopType'
  BY <1>0, <1>2, <1>3 DEF LoopType
<1>5. PhaseInv'
  <2>1. SUFFICES ASSUME whole' PROVE PhaseInv'
    BY DEF PhaseInv
  <2>2. whole /\ ~Overflows(op.d)
    BY <1>2, <2>1
  <2>3. "out" \notin torn["B"] /\ (usb.tog["B"] # ep["B"].tog => usb.plan["B"] # <<>>)
    BY <1>0, <2>2 DEF PhaseInv
  <2>4. PICK n \in Modes : Takes(cmd.mode, due["B"], n) /\ Completes(n, Coming)
    BY <1>0, <2>2 DEF PhaseInv
  <2>5. due["B"] # <<>> /\ op.d = Head(due["B"])
    BY <1>0, <1>2, <2>3, ReadIsDue
  <2>6. due["B"] \in Seq(Bytes) /\ due'["B"] = Tail(due["B"])
    BY <1>0, <2>5 DEF Store, UsbType
  <2>7. ep'["B"].tog = ep["B"].tog
    BY <1>0 DEF Store, UsbType, PortType
  <2>8. Takes(cmd'.mode, due'["B"], n)
    BY <1>3, <2>2, <2>4, <2>5, <2>6, TakesFirst
  <2>9. Coming' = Coming
    BY <1>2, <2>7 DEF Coming
  <2> QED
    BY <1>2, <2>3, <2>4, <2>7, <2>8, <2>9 DEF PhaseInv
<1> QED
  BY <1>1, <1>4, <1>5 DEF FirmwareInv

\* The host sends a packet, for the first time or again.
LEMMA HostOutStep ==
  ASSUME FirmwareInv, NEW p \in Ports, HostOut(p)
  PROVE  FirmwareInv'
<1>0. "B" \in Ports /\ UsbInv /\ CtlInv /\ LoopType /\ PhaseInv /\ UsbType
  BY DEF Ports, FirmwareInv, UsbInv
<1>1. PICK w : w = usb.plan[p]
  OBVIOUS
<1>2. /\ w \in Seq(Seq(Bytes)) /\ w # <<>> /\ Len(w) \in Nat
      /\ \A i \in 1..Len(w) : Len(w[i]) <= Pkt
  BY <1>0, <1>1, LenProperties DEF HostOut, LoopType, SideType
<1>3. /\ Head(w) \in Seq(Bytes) /\ Head(w) = w[1] /\ Len(w) >= 1 /\ Tail(w) \in Seq(Seq(Bytes))
      /\ Len(Tail(w)) = Len(w) - 1 /\ \A k \in 1..(Len(w) - 1) : Tail(w)[k] = w[k + 1]
  BY <1>2, EmptySeq, HeadTailProperties
<1>4. Len(Head(w)) <= Pkt
  BY <1>2, <1>3
<1>5. PICK rest : rest = Rest(p)
  OBVIOUS
<1>6. rest \in Seq(Seq(Bytes)) /\ (p = "B" => rest = Tail(w))
      /\ \A i \in 1..Len(rest) : Len(rest[i]) <= Pkt
  <2>1. CASE p = "A" /\ "host" \in stream
    <3>1. rest = Tail(w) \o <<Head(w)>> /\ p # "B"
      BY <1>1, <1>5, <2>1 DEF Rest
    <3>2. <<Head(w)>> \in Seq(Seq(Bytes)) /\ Len(<<Head(w)>>) = 1 /\ <<Head(w)>>[1] = Head(w)
      BY <1>3
    <3>3. /\ rest \in Seq(Seq(Bytes)) /\ Len(rest) = Len(w)
          /\ \A i \in 1..Len(rest) :
               rest[i] = IF i <= Len(w) - 1 THEN Tail(w)[i] ELSE <<Head(w)>>[i - (Len(w) - 1)]
      <4>1. PICK a, b : a = Tail(w) /\ b = <<Head(w)>>
        OBVIOUS
      <4>2. a \in Seq(Seq(Bytes)) /\ b \in Seq(Seq(Bytes)) /\ Len(a) = Len(w) - 1 /\ Len(b) = 1
        BY <1>3, <3>2, <4>1
      <4>3. /\ a \o b \in Seq(Seq(Bytes)) /\ Len(a \o b) = Len(a) + Len(b)
            /\ \A i \in 1..(Len(a) + Len(b)) :
                 (a \o b)[i] = IF i <= Len(a) THEN a[i] ELSE b[i - Len(a)]
        BY <4>2, ConcatProperties
      <4>4. rest = a \o b /\ Len(a \o b) = Len(w)
        <5>1. rest = a \o b
          BY <3>1, <4>1, Zenon
        <5>2. Len(a) + Len(b) = Len(w)
          BY <1>2, <4>2
        <5> QED
          BY <4>3, <5>1, <5>2
      <4>5. ASSUME NEW i \in 1..Len(rest)
            PROVE  rest[i] = IF i <= Len(w) - 1 THEN a[i] ELSE b[i - (Len(w) - 1)]
        <5>1. i \in 1..(Len(a) + Len(b))
          BY <4>3, <4>4
        <5>2. (a \o b)[i] = IF i <= Len(a) THEN a[i] ELSE b[i - Len(a)]
          BY <4>3, <5>1
        <5> QED
          BY <4>2, <4>4, <5>2
      <4> QED
        BY <4>1, <4>3, <4>4, <4>5
    <3>4. ASSUME NEW i \in 1..Len(rest) PROVE Len(rest[i]) <= Pkt
      <4>1. CASE i <= Len(w) - 1
        BY <1>2, <1>3, <3>3, <4>1
      <4>2. CASE ~(i <= Len(w) - 1)
        <5>1. i - (Len(w) - 1) = 1
          BY <1>2, <3>3, <4>2
        <5> QED
          BY <1>4, <3>2, <3>3, <4>2, <5>1
      <4> QED
        BY <4>1, <4>2
    <3> QED
      BY <3>1, <3>3, <3>4
  <2>2. CASE ~(p = "A" /\ "host" \in stream)
    <3>1. rest = Tail(w)
      <4>1. rest = Tail(w) \o <<>>
        BY <1>1, <1>5, <2>2 DEF Rest
      <4> QED
        BY <1>3, <4>1
    <3>2. ASSUME NEW i \in 1..Len(rest) PROVE Len(rest[i]) <= Pkt
      <4>1. i \in 1..(Len(w) - 1) /\ i + 1 \in 1..Len(w)
        BY <1>2, <1>3, <3>1
      <4> QED
        BY <1>2, <1>3, <3>1, <4>1
    <3> QED
      BY <1>3, <3>1, <3>2
  <2> QED
    BY <2>1, <2>2
<1>7. /\ EpOut(p, Head(w), usb.tog[p]) /\ UNCHANGED <<ctlVars, cmd, whole>>
      /\ \/ usb' = [usb EXCEPT !.plan[p] = rest, !.tog[p] = 1 - @]
         \/ TogOK(p, usb.tog[p]) /\ usb' = usb
  BY <1>1, <1>5 DEF HostOut
<1>8. UsbInv' /\ CtlInv'
  BY <1>0, <1>3, <1>4, <1>7, EpOutStep, CtlSame
<1>9. usb.tog[p] \in {0, 1} /\ ep[p].tog \in {0, 1} /\ due[p] \in Seq(Bytes)
  BY <1>0 DEF LoopType, SideType, UsbType, PortType
<1>10. PICK t \in {0, 1} : t = 1 - usb.tog[p]
  BY <1>9
<1>11. CASE usb' = [usb EXCEPT !.plan[p] = rest, !.tog[p] = t]
  <2>1. usb \in SideType
    BY <1>0 DEF LoopType
  <2>2. /\ usb' \in SideType /\ usb'.plan[p] = rest /\ usb'.tog[p] = t
        /\ \A q \in Ports : q # p => usb'.plan[q] = usb.plan[q] /\ usb'.tog[q] = usb.tog[q]
    <3>1. usb' \in SideType
      BY <1>6, <1>11, <2>1 DEF SideType
    <3>2. usb'.plan[p] = rest /\ usb'.tog[p] = t
      BY <1>6, <1>11, <2>1 DEF SideType
    <3>3. ASSUME NEW q \in Ports, q # p
          PROVE  usb'.plan[q] = usb.plan[q] /\ usb'.tog[q] = usb.tog[q]
      BY <1>6, <1>11, <2>1, <3>3 DEF SideType
    <3> QED
      BY <3>1, <3>2, <3>3
  <2>4. LoopType'
    BY <1>0, <1>6, <1>7, <2>2 DEF LoopType
  <2>5. PhaseInv'
    <3>1. CASE p # "B"
      <4>1. KeepsB
        BY <1>0, <1>7, <3>1 DEF KeepsB, EpOut, UsbType, PortType
      <4> QED
        BY <1>0, <1>7, <2>2, <3>1, <4>1, PhaseKept
    <3>2. CASE p = "B" /\ ~TogOK(p, usb.tog[p])
      <4>1. UNCHANGED usbVars
        BY <1>7, <3>2 DEF EpOut, usbVars
      <4>2. usb'.tog["B"] = ep'["B"].tog /\ usb.tog["B"] # ep["B"].tog
        BY <1>9, <1>10, <2>2, <3>2, <4>1 DEF TogOK, usbVars
      <4>3. Coming' = Coming
        BY <1>1, <1>6, <2>2, <3>2, <4>2 DEF Coming
      <4> QED
        BY <1>0, <1>7, <4>1, <4>2, <4>3 DEF PhaseInv, usbVars
    <3>3. CASE p = "B" /\ TogOK(p, usb.tog[p])
      <4>1. /\ due'["B"] = due["B"] \o Head(w) /\ torn' = torn
            /\ ep'["B"].tog = 1 - ep["B"].tog /\ ep["B"].tog = usb.tog["B"]
        BY <1>0, <1>7, <3>3 DEF EpOut, TogOK, UsbType, PortType
      <4>2. usb'.tog["B"] = ep'["B"].tog /\ Coming = w /\ Coming' = Tail(w)
        BY <1>1, <1>6, <1>10, <2>2, <3>3, <4>1 DEF Coming
      <4>3. SUFFICES ASSUME whole PROVE PhaseInv'
        BY <1>7 DEF PhaseInv
      <4>4. PICK n \in Modes : Takes(cmd.mode, due["B"], n) /\ Completes(n, w)
        BY <1>0, <4>2, <4>3 DEF PhaseInv
      <4>5. PICK q \in Modes : Takes(n, Head(w), q) /\ Completes(q, Tail(w))
        BY <1>2, <4>4, CompletesFirst
      <4>6. Takes(cmd.mode, due'["B"], q)
        BY <1>3, <1>9, <3>3, <4>1, <4>4, <4>5, TakesMore
      <4>7. "out" \notin torn["B"]
        BY <1>0, <4>3 DEF PhaseInv
      <4> QED
        BY <1>7, <4>1, <4>2, <4>5, <4>6, <4>7 DEF PhaseInv
    <3> QED
      BY <3>1, <3>2, <3>3
  <2> QED
    BY <1>8, <2>4, <2>5 DEF FirmwareInv
<1>12. CASE TogOK(p, usb.tog[p]) /\ usb' = usb
  <2>1. LoopType'
    BY <1>0, <1>7, <1>12 DEF LoopType
  <2>2. PhaseInv'
    <3>1. CASE p # "B"
      <4>1. KeepsB
        BY <1>0, <1>7, <3>1 DEF KeepsB, EpOut, UsbType, PortType
      <4> QED
        BY <1>0, <1>7, <1>12, <3>1, <4>1, PhaseKept
    <3>2. CASE p = "B"
      <4>1. /\ due'["B"] = due["B"] \o Head(w) /\ torn' = torn
            /\ ep'["B"].tog = 1 - ep["B"].tog /\ ep["B"].tog = usb.tog["B"]
        BY <1>0, <1>7, <1>12, <3>2 DEF EpOut, TogOK, UsbType, PortType
      <4>2. usb'.tog["B"] # ep'["B"].tog /\ Coming = w /\ Coming' = Tail(w)
        BY <1>1, <1>9, <1>12, <3>2, <4>1 DEF Coming
      <4>3. SUFFICES ASSUME whole PROVE PhaseInv'
        BY <1>7 DEF PhaseInv
      <4>4. PICK n \in Modes : Takes(cmd.mode, due["B"], n) /\ Completes(n, w)
        BY <1>0, <4>2, <4>3 DEF PhaseInv
      <4>5. PICK q \in Modes : Takes(n, Head(w), q) /\ Completes(q, Tail(w))
        BY <1>2, <4>4, CompletesFirst
      <4>6. Takes(cmd.mode, due'["B"], q)
        BY <1>3, <1>9, <3>2, <4>1, <4>4, <4>5, TakesMore
      <4>7. "out" \notin torn["B"] /\ usb'.plan["B"] # <<>>
        BY <1>0, <1>1, <1>2, <1>12, <3>2, <4>3 DEF PhaseInv
      <4> QED
        BY <1>7, <4>1, <4>2, <4>5, <4>6, <4>7 DEF PhaseInv
    <3> QED
      BY <3>1, <3>2
  <2> QED
    BY <1>8, <2>1, <2>2 DEF FirmwareInv
<1> QED
  BY <1>7, <1>10, <1>11, <1>12

\* The firmware starts with empty ports, and the host with whole messages.
LEMMA FirmwareInit ==
  ASSUME Init
  PROVE  FirmwareInv
<1>1. PICK s \in Plans :
        /\ UsbInit(s.open)
        /\ usb = [plan |-> s.packets, asks |-> s.asks, resets |-> 0,
                  tog |-> [p \in Ports |-> 0]]
  BY DEF Init
<1>2. /\ s.packets \in [Ports -> Seq(Seq(Bytes))] /\ s.asks \subseteq Requests
      /\ \A p \in Ports : \A i \in 1..Len(s.packets[p]) : Len(s.packets[p][i]) <= Pkt
      /\ Completes("idle", s.packets["B"])
  BY PlanAssumption
<1>3. /\ \A p \in Ports : ep[p] = [Fresh EXCEPT !.dtr = p \in s.open]
      /\ ep = [p \in Ports |-> ep[p]]
      /\ op = Idle /\ due = [p \in Ports |-> <<>>] /\ owed = [p \in Ports |-> <<>>]
      /\ torn = [p \in Ports |-> {}]
  BY <1>1 DEF UsbInit
<1>4. "B" \in Ports /\ op.at = "idle" /\ op \in CallType
  BY <1>3 DEF Ports, Idle, CallType
<1>5. Fresh \in PortType
  <2>1. <<>> \in Seq(Bytes) /\ <<>> \in Seq(Said)
    BY EmptySeq
  <2> QED
    BY <2>1 DEF Fresh, PortType
<1>6. ASSUME NEW p \in Ports
      PROVE  /\ ep[p] \in PortType /\ ep[p].count = 0 /\ ep[p].out = <<>> /\ ep[p].in = <<>>
             /\ ep[p].wp = 0 /\ ep[p].tlen = 0 /\ ep[p].tx = "nak" /\ ~ep[p].busy
             /\ ep[p].tog = 0
  <2>5. PICK o : o = s.open
    OBVIOUS
  <2>1. PICK d \in BOOLEAN : d = (p \in s.open)
    <3>1. CASE p \in o
      BY <2>5, <3>1, Zenon
    <3>2. CASE p \notin o
      <4>1. (p \in s.open) = FALSE
        BY <2>5, <3>2
      <4> QED
        BY <4>1
    <3> QED
      BY <3>1, <3>2, Zenon
  <2>2. ep[p] = [Fresh EXCEPT !.dtr = d]
    BY <1>3, <2>1
  <2>3. ASSUME NEW f, f = [Fresh EXCEPT !.dtr = d]
        PROVE  /\ f.count = 0 /\ f.out = <<>> /\ f.in = <<>>
               /\ f.wp = 0 /\ f.tlen = 0 /\ f.tx = "nak" /\ f.busy = FALSE /\ f.tog = 0
    BY <2>3 DEF Fresh
  <2>4. ep[p] \in PortType
    BY <1>5, <2>2 DEF PortType
  <2> QED
    BY <2>2, <2>3, <2>4
<1>7. UsbInv
  <2>1. UsbType
    <3>1. ep \in [Ports -> PortType]
      BY <1>3, <1>6
    <3>2. due \in [Ports -> Seq(Bytes)] /\ owed \in [Ports -> Seq(Said)]
      BY <1>3, EmptySeq
    <3> QED
      BY <1>3, <1>4, <3>1, <3>2 DEF UsbType
  <2>2. ASSUME NEW p \in Ports PROVE OutInv(p)
    <3>1. Len(<<>>) = 0 /\ Pkt \in Nat
      BY EndpointAssumption
    <3> QED
      BY <1>3, <1>4, <1>6, <3>1 DEF OutInv, Reading
  <2>3. ASSUME NEW p \in Ports PROVE InInv(p)
    <3>1. Len(<<>>) = 0 /\ SubSeq(<<>>, 1, 0) = <<>>
      OBVIOUS
    <3>2. ~Arming(p) /\ owed[p] = <<>>
      BY <1>3, <1>4 DEF Arming
    <3> QED
      BY <1>6, <3>1, <3>2 DEF InInv
  <2> QED
    BY <2>1, <2>2, <2>3 DEF UsbInv
<1>8. CtlInv
  <2>1. ctl \in CtlType /\ host = NoTransfer
    BY ControlAssumption DEF Init, CtlInit, CtlType
  <2> QED
    BY <2>1 DEF CtlInv, HostType, NoTransfer, DescriptorExact
<1>9. usb \in SideType /\ usb.plan = s.packets /\ usb.tog["B"] = 0
  BY <1>1, <1>2, <1>4 DEF SideType
<1>10. LoopType
  <2>1. cmd \in CmdType /\ whole \in BOOLEAN
    <3>1. <<>> \in Seq(Bytes \cup {Garbage}) /\ <<>> \in Seq(Said) /\ "idle" \in Modes
      BY EmptySeq DEF Modes
    <3> QED
      BY <3>1 DEF Init, CmdType
  <2> QED
    BY <1>2, <1>9, <2>1 DEF LoopType
<1>11. PhaseInv
  <2>1. cmd.mode = "idle" /\ "idle" \in Modes
    BY DEF Init, Modes
  <2>2. Takes("idle", <<>>, "idle")
    BY <2>1, TakesNone
  <2>3. ep["B"].tog = 0 /\ due["B"] = <<>> /\ torn["B"] = {}
    BY <1>3, <1>4, <1>6
  <2>4. Coming = s.packets["B"]
    BY <1>9, <2>3 DEF Coming
  <2> QED
    BY <1>2, <1>9, <2>1, <2>2, <2>3, <2>4 DEF PhaseInv
<1> QED
  BY <1>7, <1>8, <1>10, <1>11 DEF FirmwareInv

\* Every step of the loop, the interrupt and the host keeps the invariant.
LEMMA FirmwareNext ==
  ASSUME FirmwareInv, [Next]_vars
  PROVE  FirmwareInv'
<1>0. /\ "A" \in Ports /\ "B" \in Ports /\ UsbInv /\ CtlInv /\ LoopType /\ PhaseInv
      /\ cmd \in CmdType /\ "target" \in Said
  BY DEF Ports, FirmwareInv, LoopType, Said
<1>1. ASSUME UsbInv' /\ KeepsB, Same, UNCHANGED cmd PROVE FirmwareInv'
  BY <1>0, <1>1, Kept DEF Same, Quiet
<1>2. CASE DrainA
  <2>1. (Fetch("A") \/ Store("A") \/ UNCHANGED usbVars) /\ Same /\ UNCHANGED cmd
    BY <1>2 DEF DrainA
  <2>2. UsbInv' /\ KeepsB
    BY <1>0, <2>1, OtherStep
  <2> QED
    BY <1>1, <2>1, <2>2
<1>3. CASE Bridge
  <2>1. (Put("A", "target") \/ Arm("A") \/ UNCHANGED usbVars) /\ Same /\ UNCHANGED cmd
    BY <1>3 DEF Bridge
  <2>2. UsbInv' /\ KeepsB
    BY <1>0, <2>1, OtherStep
  <2> QED
    BY <1>1, <2>1, <2>2
<1>4. CASE BridgeEnd
  <2>1. (Arm("A") \/ UNCHANGED usbVars) /\ Same /\ UNCHANGED cmd
    BY <1>4 DEF BridgeEnd
  <2>2. UsbInv' /\ KeepsB
    BY <1>0, <2>1, OtherStep
  <2> QED
    BY <1>1, <2>1, <2>2
<1>5. CASE LoadLow \/ LoadHigh
  <2>1. UNCHANGED usbVars /\ Same /\ UNCHANGED cmd
    BY <1>5 DEF LoadLow, LoadHigh
  <2>2. UsbInv' /\ KeepsB
    BY <1>0, <2>1, OtherStep
  <2> QED
    BY <1>1, <2>1, <2>2
<1>6. CASE Poll
  <2>0. /\ whole' = (whole /\ (op.at = "loaded" => ~Overflows(op.d)))
        /\ UNCHANGED <<ctlVars, usb, stream>>
    BY <1>6 DEF Poll, Quiet
  <2>1. CASE Store("B") /\ (IdleByte(op.d) \/ AsciiByte(op.d) \/ BinaryByte(op.d))
    BY <2>0, <2>1, PollStep
  <2>2. CASE /\ Fetch("B") \/ (op = Idle /\ (Arm("B") \/ UNCHANGED usbVars))
             /\ UNCHANGED cmd
    <3>1. UsbInv' /\ KeepsB
      BY <1>0, <2>2, OtherStep
    <3>2. op.at = "idle"
      BY <2>2 DEF Fetch, Idle
    <3>3. whole' = whole
      BY <1>0, <2>0, <3>2 DEF LoopType
    <3> QED
      BY <1>1, <2>0, <2>2, <3>1, <3>3 DEF Same, Quiet
  <2> QED
    BY <1>6, <2>1, <2>2 DEF Poll
<1>7. CASE Answer
  <2>0. cmd.reply \in Seq(Said) /\ cmd.reply # <<>> /\ Same
    BY <1>0, <1>7 DEF Answer, CmdType
  <2>1. Head(cmd.reply) \in Said /\ Tail(cmd.reply) \in Seq(Said)
    BY <2>0, HeadTailProperties
  <2>2. Put("B", Head(cmd.reply)) \/ Arm("B") \/ UNCHANGED usbVars
    BY <1>7 DEF Answer
  <2>3. UsbInv' /\ KeepsB
    BY <1>0, <2>1, <2>2, OtherStep
  <2>4. cmd' = cmd \/ cmd' = [cmd EXCEPT !.reply = Tail(cmd.reply)]
    BY <1>7 DEF Answer
  <2>5. cmd' \in CmdType /\ cmd'.mode = cmd.mode
    BY <1>0, <2>1, <2>4 DEF CmdType
  <2> QED
    BY <1>0, <2>0, <2>3, <2>5, Kept DEF Same, Quiet
<1>8. CASE AnswerEnd
  <2>1. (Arm("B") \/ UNCHANGED usbVars) /\ Same
    BY <1>8 DEF AnswerEnd
  <2>2. UsbInv' /\ KeepsB
    BY <1>0, <2>1, OtherStep
  <2>3. cmd' = [cmd EXCEPT !.flush = FALSE]
    BY <1>8 DEF AnswerEnd
  <2>4. cmd' \in CmdType /\ cmd'.mode = cmd.mode
    BY <1>0, <2>3 DEF CmdType
  <2> QED
    BY <2>1, <2>2, <2>4, Kept DEF Same, Quiet
<1>9. CASE Continue
  <2>1. (\E p \in Ports : Bump(p) \/ SetBusy(p)) /\ Same /\ UNCHANGED cmd
    BY <1>9 DEF Continue
  <2>2. UsbInv' /\ KeepsB
    BY <1>0, <2>1, OtherStep
  <2> QED
    BY <1>1, <2>1, <2>2
<1>10. ASSUME ControlIn \/ ControlOut PROVE FirmwareInv'
  <2>1. UNCHANGED usbVars /\ UNCHANGED <<cmd, usb, whole>> /\ (CtlIn \/ CtlOut)
    BY <1>10 DEF ControlIn, ControlOut, CtlIn, CtlOut, fwVars
  <2>2. UsbInv' /\ KeepsB
    BY <1>0, <2>1, OtherStep
  <2>3. CtlInv'
    BY <1>0, <2>1, CtlInCtl, CtlOutCtl
  <2>4. PhaseInv'
    BY <1>0, <2>1, <2>2, PhaseKept
  <2>5. LoopType'
    BY <1>0, <2>1 DEF LoopType
  <2> QED
    BY <2>2, <2>3, <2>4, <2>5 DEF FirmwareInv
<1>11. CASE BusRst
  <2>1. UsbInv'
    BY <1>0, <1>11, BusResetStep DEF BusRst, Reset
  <2>2. CtlInv'
    BY <1>0, <1>11, ResetCtl DEF BusRst
  <2>3. usb' = [usb EXCEPT !.tog = [p \in Ports |-> 0], !.resets = usb.resets + 1]
    BY <1>11 DEF BusRst
  <2>4. usb' \in SideType /\ usb'.plan = usb.plan
    <3>1. PICK n \in Nat : n = usb.resets + 1
      BY <1>0 DEF LoopType, SideType
    <3>2. PICK z \in [Ports -> {0, 1}] : z = [p \in Ports |-> 0]
      OBVIOUS
    <3>3. usb' = [usb EXCEPT !.tog = z, !.resets = n]
      BY <2>3, <3>1, <3>2
    <3> QED
      BY <1>0, <3>3 DEF LoopType, SideType
  <2>5. LoopType' /\ PhaseInv'
    BY <1>0, <1>11, <2>4 DEF BusRst, LoopType, PhaseInv
  <2> QED
    BY <2>1, <2>2, <2>5 DEF FirmwareInv
<1>12. CASE Target \/ StopStream
  <2>1. UNCHANGED usbVars /\ UNCHANGED <<ctlVars, cmd, usb, whole>>
    BY <1>12 DEF Target, StopStream
  <2>2. UsbInv' /\ KeepsB
    BY <1>0, <2>1, OtherStep
  <2> QED
    BY <1>0, <2>1, <2>2, Kept
<1>13. ASSUME NEW r \in Requests, Control(r) PROVE FirmwareInv'
  <2>0. Setup(r) /\ cmd' = cmd
    BY <1>13 DEF Control
  <2>1. UsbInv' /\ (~(r.k = "clear" /\ r.dir = "out") => KeepsB)
    BY <1>0, <2>0, SetupUsb
  <2>2. CtlInv'
    BY <1>0, <2>0, SetupCtl
  <2>3. CASE ~(r.k = "clear" /\ r.dir = "out")
    <3>1. usb' = usb /\ whole' = whole
      BY <1>0, <1>13, <2>3 DEF Control, LoopType
    <3>2. PhaseInv'
      BY <1>0, <2>0, <2>1, <2>3, <3>1, PhaseKept
    <3>3. LoopType'
      BY <1>0, <2>0, <3>1 DEF LoopType
    <3> QED
      BY <2>1, <2>2, <3>2, <3>3 DEF FirmwareInv
  <2>4. CASE r.k = "clear" /\ r.dir = "out"
    <3>1. ~whole' /\ whole' \in BOOLEAN
      BY <1>13, <2>4 DEF Control
    <3>2. PICK q \in Ports : q = r.port
      BY <2>4, RequestParts
    <3>3. usb' = [usb EXCEPT !.tog[q] = 0]
      BY <1>13, <2>4, <3>2 DEF Control
    <3>4. usb' \in SideType /\ usb'.plan = usb.plan
      BY <1>0, <3>3 DEF LoopType, SideType
    <3>5. LoopType' /\ PhaseInv'
      BY <1>0, <2>0, <3>1, <3>4 DEF LoopType, PhaseInv
    <3> QED
      BY <2>1, <2>2, <3>5 DEF FirmwareInv
  <2> QED
    BY <2>3, <2>4
<1>14. ASSUME NEW p \in Ports, HostIn(p) PROVE FirmwareInv'
  <2>1. EpIn(p) /\ UNCHANGED <<ctlVars, cmd, usb, whole>>
    BY <1>14 DEF HostIn, fwVars
  <2>2. UsbInv' /\ KeepsB
    BY <1>0, <2>1, OtherStep
  <2> QED
    BY <1>0, <2>1, <2>2, Kept
<1>15. CASE UNCHANGED vars
  <2>1. UNCHANGED usbVars /\ UNCHANGED <<ctlVars, cmd, usb, whole>>
    BY <1>15 DEF vars, fwVars
  <2>2. UsbInv' /\ KeepsB
    BY <1>0, <2>1, OtherStep
  <2> QED
    BY <1>0, <2>1, <2>2, Kept
<1> QED
  BY <1>2, <1>3, <1>4, <1>5, <1>6, <1>7, <1>8, <1>9, <1>10, <1>11, <1>12, <1>13, <1>14,
     <1>15, HostOutStep DEF Next

\* What is to be read and what is to be sent, in terms of the place in the packet.
LEMMA InvBytes ==
  ASSUME FirmwareInv
  PROVE  BytesExact
<1>0. UsbType /\ \A q \in Ports : OutInv(q) /\ InInv(q)
  BY DEF FirmwareInv, UsbInv
<1>1. ASSUME NEW p \in Ports, "out" \notin torn[p], ~Reading(p) PROVE Unread(p) = due[p]
  <2>1. PICK c, k, o : c = ep[p].count /\ k = ep[p].point /\ o = ep[p].out
    OBVIOUS
  <2>2. c \in Nat /\ k \in Nat /\ o \in Seq(Bytes) /\ Len(o) \in Nat
    BY <1>0, <2>1, LenProperties DEF UsbType, PortType
  <2>3. Place(p) = k + 1
    BY <1>1, <2>1 DEF Place, Reading
  <2>4. CASE c = 0
    <3>1. due[p] = <<>>
      BY <1>0, <1>1, <2>1, <2>4 DEF OutInv
    <3>2. SubSeq(o, k + 1, k + c) = <<>>
      BY <2>2, <2>4, SubSeqProperties, EmptySeq
    <3> QED
      BY <2>1, <2>4, <3>1, <3>2 DEF Unread
  <2>5. CASE c # 0
    <3>1. c > 0
      BY <2>2, <2>5
    <3>2. k + 1 + c = Len(o) + 1 /\ due[p] = SubSeq(o, k + 1, Len(o))
      BY <1>0, <1>1, <2>1, <2>3, <3>1 DEF OutInv
    <3>3. k + c = Len(o) /\ ~(k + c > Len(o))
      BY <2>2, <3>2
    <3> QED
      BY <2>1, <3>2, <3>3 DEF Unread
  <2> QED
    BY <2>4, <2>5
<1>2. ASSUME NEW p \in Ports, "in" \notin torn[p], ~Arming(p) PROVE Waiting(p) = owed[p]
  BY <1>0, <1>2 DEF InInv, Waiting
<1>3. DescriptorExact
  BY DEF FirmwareInv, CtlInv
<1> QED
  BY <1>1, <1>2, <1>3 DEF BytesExact, OutExact, InExact

\* With nothing left to read and to come the receiver has reached its end.
LEMMA InvPhase ==
  ASSUME FirmwareInv
  PROVE  InPhase
<1>1. SUFFICES ASSUME whole, usb.plan["B"] = <<>>, due["B"] = <<>> PROVE cmd.mode = "idle"
  BY DEF InPhase
<1>2. cmd.mode \in Modes /\ usb.tog["B"] = ep["B"].tog
  BY <1>1 DEF FirmwareInv, LoopType, CmdType, PhaseInv
<1>3. PICK n \in Modes : Takes(cmd.mode, <<>>, n) /\ Completes(n, <<>>)
  BY <1>1, <1>2 DEF FirmwareInv, PhaseInv, Coming
<1>4. cmd.mode = n
  BY <1>2, <1>3, TakesNone
<1>5. n = "idle"
  <2>1. Len(<<>>) = 0
    OBVIOUS
  <2> QED
    BY <1>3, <2>1 DEF Completes
<1> QED
  BY <1>4, <1>5

\* For every packet size, counter width and plan of the host, and however the
\* interrupt falls into the loop: what the loop reads is what the host sent and
\* what the host gets is what the loop wrote, on both ports and the control endpoint.
THEOREM PortsAreExact == Spec => []BytesExact
<1>1. Init => FirmwareInv
  BY FirmwareInit
<1>2. FirmwareInv /\ [Next]_vars => FirmwareInv'
  BY FirmwareNext
<1>3. FirmwareInv => BytesExact
  BY InvBytes
<1> QED
  BY <1>1, <1>2, <1>3, PTL DEF Spec

\* For every plan of whole messages, however cut into packets and repeated: once all
\* is read the CMD receiver waits for the start of a message.
THEOREM ReceiverStaysInPhase == Spec => []InPhase
<1>1. Init => FirmwareInv
  BY FirmwareInit
<1>2. FirmwareInv /\ [Next]_vars => FirmwareInv'
  BY FirmwareNext
<1>3. FirmwareInv => InPhase
  BY InvPhase
<1> QED
  BY <1>1, <1>2, <1>3, PTL DEF Spec

=============================================================================
