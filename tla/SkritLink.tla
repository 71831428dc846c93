------------------------------ MODULE SkritLink ------------------------------
(***************************************************************************)
(* The byte level of one CMD endpoint: the host writes COBS frames between *)
(* 0x00 delimiters (and, on a dual link, ASCII lines), the link may lose,  *)
(* inject or cut bytes, and the device feeds each byte that arrives to     *)
(* skrit_dev_rx, which splits the stream into frames again                 *)
(* (platforms/common/skrit_device.h).                                      *)
(*                                                                         *)
(* A byte is a pair of numbers.  Byte j of frame k is <<k, j>>, so that a  *)
(* segment is a frame exactly when it is the sequence FrameBytes(k); the   *)
(* pairs <<0, _>> are the delimiter and the bytes that belong to no frame. *)
(* A non-zero byte of a frame may have any value a COBS byte has: which of *)
(* the classes skrit_dev_rx tells apart it falls in is left open.          *)
(***************************************************************************)
EXTENDS Naturals, Sequences, FiniteSets

CONSTANTS
  BodyLen,      \* COBS bytes of one frame
  RxCap,        \* SKRIT_RX_CAP
  MaxFrames,    \* bound: frames the host sends
  MaxLines,     \* bound: ASCII lines the host sends
  MaxFaults,    \* bound: faults of the link
  MaxFlushes    \* bound: resynchronising bursts the host sends

ASSUME LinkAssumption ==
  /\ BodyLen \in Nat \ {0} /\ RxCap \in Nat /\ BodyLen <= RxCap
  /\ MaxFrames \in Nat /\ MaxLines \in Nat
  /\ MaxFaults \in Nat /\ MaxFlushes \in Nat

VARIABLES
  muxed,      \* skrit_dev.muxed: one endpoint for CMD and DATA, no ASCII
  mode,       \* skrit_dev.mode
  rx,         \* skrit_dev.rx[0 .. rx_len)
  link,       \* bytes written by the host and not yet read by the device
  sent,       \* CMD frames written so far
  lines,      \* ASCII lines written so far
  delivered,  \* frames that reached skrit__dispatch, in order
  naks,       \* BADARGS and BADCRC answers
  garbled,    \* damaged DATA payloads written to the target console
  answers,    \* ASCII answers written
  faults,     \* faults so far
  flushes,    \* bursts so far
  inPhase,    \* history: no fault since the start or since the last burst
  owed        \* history: frames written in phase and not hit by a fault

devVars  == <<muxed, mode, rx, delivered, naks, garbled, answers>>
hostVars == <<sent, lines, flushes, owed, inPhase>>
vars     == <<devVars, link, hostVars, faults>>

-----------------------------------------------------------------------------
(* Bytes                                                                   *)

Zero == <<0, 0>>   \* 0x00
Char == <<0, 1>>   \* a byte >= 0x20
Eol  == <<0, 2>>   \* '\n' or '\r'

Frames == 1..MaxFrames
Bytes  == {Zero, Char, Eol} \union (Frames \X (1..BodyLen))

FrameBytes(k) == [j \in 1..BodyLen |-> <<k, j>>]

\* The classes of byte values that skrit_dev_rx distinguishes.
Classes(b) == CASE b = Zero -> {"zero"}
                [] b = Char -> {"text"}
                [] b = Eol  -> {"eol"}
                [] OTHER    -> {"text", "eol", "control"}

-----------------------------------------------------------------------------
(* The device: skrit_dev_rx                                                *)

Init ==
  /\ muxed \in BOOLEAN /\ mode = "idle" /\ rx = <<>> /\ link = <<>>
  /\ sent = 0 /\ lines = 0 /\ flushes = 0 /\ faults = 0
  /\ delivered = <<>> /\ naks = 0 /\ garbled = 0 /\ answers = 0
  /\ inPhase = TRUE /\ owed = {}

\* skrit__frame_complete and skrit__on_frame on a whole segment: a CMD frame
\* whose length and CRC agree is dispatched.
Dispatched(seg) ==
  \E k \in Frames : /\ seg = FrameBytes(k)
                    /\ delivered' = Append(delivered, k)
                    /\ UNCHANGED <<naks, garbled>>

\* Mutants: no return after BADARGS; a wrong CRC that is not looked at.
RefusedTwice(seg) ==
  /\ \A k \in Frames : seg # FrameBytes(k)
  /\ naks' = naks + 2 /\ UNCHANGED <<delivered, garbled>>

RefusedNever(seg) ==
  /\ \A k \in Frames : seg # FrameBytes(k)
  /\ delivered' = LET hit == {k \in Frames : \E i, j \in 1..BodyLen :
                               i <= Len(seg) /\ seg[i] = <<k, j>>} IN
                 IF hit = {} THEN delivered
                 ELSE Append(delivered, CHOOSE k \in hit : TRUE)
  /\ UNCHANGED <<naks, garbled>>

\* A segment that is not a frame.  It decodes to nothing, to fewer than four
\* bytes or (mux) to an unknown channel: no answer; to a frame with a wrong LEN
\* or CRC: an answer with BADARGS or BADCRC; on a mux link its tag may read
\* DATA, which carries no CRC: it goes to the target.  CRC-8 is taken to catch
\* every damaged CMD frame.
Refused(seg) ==
  /\ \A k \in Frames : seg # FrameBytes(k)
  /\ UNCHANGED delivered
  /\ \/ UNCHANGED <<naks, garbled>>
     \/ naks' = naks + 1 /\ UNCHANGED garbled
     \/ muxed /\ garbled' = garbled + 1 /\ UNCHANGED naks

\* skrit__frame_complete: rx_len = 0 returns at once and so do the two repeated
\* delimiters around a frame; otherwise rx_len is cleared before the dispatch.
FrameComplete(seg) ==
  /\ rx' = <<>>
  /\ IF seg = <<>> THEN UNCHANGED <<delivered, naks, garbled>>
                   ELSE Dispatched(seg) \/ Refused(seg)

\* Where a byte of class c takes the idle receiver.
IdleNext(c) == CASE c = "zero"              -> "frame"
                 [] c = "text" /\ ~muxed    -> "ascii"
                 [] OTHER                   -> "idle"

\* case 0 of skrit_dev_rx
IdleByte(c) ==
  /\ mode = "idle"
  /\ mode' = IdleNext(c)
  /\ rx' = IF c = "zero" THEN <<>> ELSE rx
  /\ UNCHANGED <<delivered, naks, garbled, answers>>

\* Mutant: a delimiter ends a line like '\n' does.
AsciiEndsAtZero(c) ==
  /\ mode = "ascii"
  /\ IF c \in {"eol", "zero"} THEN mode' = "idle" /\ answers' = answers + 1
                              ELSE UNCHANGED <<mode, answers>>
  /\ UNCHANGED <<rx, delivered, naks, garbled>>

\* case 1 of skrit_dev_rx, with skrit__ascii_line at the end of a line (every
\* line is answered, an unknown command with ERR).  The line buffer is left out.
AsciiByte(c) ==
  /\ mode = "ascii"
  /\ \/ c = "eol"  /\ mode' = "idle" /\ answers' = answers + 1 /\ UNCHANGED rx
     \/ c = "zero" /\ mode' = "frame" /\ rx' = <<>> /\ UNCHANGED answers
     \/ c \in {"text", "control"} /\ UNCHANGED <<mode, rx, answers>>
  /\ UNCHANGED <<delivered, naks, garbled>>

\* The delimiter that ends a segment takes the receiver back to idle.
FrameEnd == /\ FrameComplete(rx)
            /\ mode' = "idle"

\* Mutants: one byte too many is stored; an overflow stays in the frame.
FrameByteOneMore(b) ==
  /\ IF Len(rx) <= RxCap THEN rx' = Append(rx, b) /\ UNCHANGED mode
                         ELSE rx' = <<>> /\ mode' = "idle"
  /\ UNCHANGED <<delivered, naks, garbled>>

FrameByteStays(b) ==
  /\ rx' = IF Len(rx) < RxCap THEN Append(rx, b) ELSE <<>>
  /\ UNCHANGED <<mode, delivered, naks, garbled>>

\* A byte of a segment, or one too many for the buffer.
FrameByte(b) ==
  /\ IF Len(rx) < RxCap THEN rx' = Append(rx, b) /\ UNCHANGED mode
                        ELSE rx' = <<>> /\ mode' = "idle"
  /\ UNCHANGED <<delivered, naks, garbled>>

\* case 2 of skrit_dev_rx
BinaryByte(b) ==
  /\ mode = "frame"
  /\ IF b = Zero THEN FrameEnd ELSE FrameByte(b)
  /\ UNCHANGED answers

\* One call of skrit_dev_rx with the next byte of the endpoint.
DevRx ==
  /\ link # <<>>
  /\ link' = Tail(link)
  /\ UNCHANGED <<muxed, hostVars, faults>>
  /\ \/ \E c \in Classes(Head(link)) : IdleByte(c) \/ AsciiByte(c)
     \/ BinaryByte(Head(link))

-----------------------------------------------------------------------------
(* The host and the link (not part of this repository's firmware)          *)

Delimited(seg) == <<Zero>> \o seg \o <<Zero>>

\* The host writes the next frame.
HostSend ==
  /\ sent < MaxFrames
  /\ sent' = sent + 1
  /\ link' = link \o Delimited(FrameBytes(sent + 1))
  /\ owed' = IF inPhase THEN owed \union {sent + 1} ELSE owed
  /\ UNCHANGED <<devVars, lines, flushes, inPhase, faults>>

\* The host types an ASCII line.
HostLine ==
  /\ lines < MaxLines
  /\ lines' = lines + 1
  /\ link' = link \o <<Char, Eol>>
  /\ UNCHANGED <<devVars, sent, flushes, inPhase, owed, faults>>

\* The host writes more non-zero bytes than the device can buffer.
HostFlush ==
  /\ flushes < MaxFlushes
  /\ flushes' = flushes + 1
  /\ link' = link \o [i \in 1..(RxCap + 1) |-> Char]
  /\ inPhase' = TRUE
  /\ UNCHANGED <<devVars, sent, lines, owed, faults>>

Without(s, i) == SubSeq(s, 1, i - 1) \o SubSeq(s, i + 1, Len(s))
With(s, i, b) == SubSeq(s, 1, i) \o <<b>> \o SubSeq(s, i + 1, Len(s))

\* Any fault may hit every frame still on the way and puts the phase in doubt.
Fault ==
  /\ faults < MaxFaults
  /\ faults' = faults + 1
  /\ inPhase' = FALSE
  /\ owed' = owed \intersect {delivered[i] : i \in DOMAIN delivered}
  /\ UNCHANGED <<devVars, sent, lines, flushes>>

\* A byte is lost (an overrun UART, a full stack queue).
Lose == Fault /\ \E i \in DOMAIN link : link' = Without(link, i)

\* A byte appears (line noise, a terminal sharing the port).
Inject == Fault /\ \E i \in 0..Len(link), b \in {Zero, Char} :
                     link' = With(link, i, b)

\* The host goes away in the middle of a write and comes back: the tail of what
\* it wrote never arrives; the receiver's state outlives the connection.
Cut == Fault /\ \E i \in 0..(Len(link) - 1) : link' = SubSeq(link, 1, i)

Next == DevRx \/ HostSend \/ HostLine \/ HostFlush \/ Lose \/ Inject \/ Cut

Spec == Init /\ [][Next]_vars

\* The main loop of every platform feeds the receiver for as long as the
\* endpoint has bytes: `while (Serial.available()) skrit_dev_rx(...)'.
LiveSpec == Spec /\ WF_vars(DevRx)

-----------------------------------------------------------------------------
(* Properties                                                              *)

\* With it: skrit_dev_rx never holds more than SKRIT_RX_CAP bytes, and in idle
\* the buffer holds nothing that a later segment could start with.
TypeOK ==
  /\ muxed \in BOOLEAN /\ mode \in {"idle", "ascii", "frame"}
  /\ rx \in Seq(Bytes \ {Zero}) /\ Len(rx) <= RxCap /\ (mode = "idle" => rx = <<>>)
  /\ link \in Seq(Bytes)
  /\ sent \in 0..MaxFrames /\ lines \in 0..MaxLines
  /\ faults \in 0..MaxFaults /\ flushes \in 0..MaxFlushes
  /\ delivered \in Seq(Frames)
  /\ naks \in Nat /\ garbled \in Nat /\ answers \in Nat
  /\ inPhase \in BOOLEAN /\ owed \subseteq Frames

\* Once the device has read everything, each frame written in phase was
\* dispatched: one fault spoils what was on the way, and a burst longer than
\* the receive buffer puts any receiver state back in phase for good.  (PROTOCOL.md
\* says "the link can always resync after a glitch": after a lost delimiter it does
\* so only by such a burst.)  On a clean dual link every ASCII line is answered too,
\* once, and no frame is read as a line.
OwedDelivered ==
  /\ link = <<>> => \A k \in owed : \E i \in DOMAIN delivered : delivered[i] = k
  /\ (faults = 0 /\ ~muxed) => /\ answers <= lines
                                /\ (link = <<>> /\ flushes = 0) => answers = lines

\* Each answer BADARGS or BADCRC and each damaged console write has a fault of
\* its own (or an ASCII line read as a frame) to blame: the receiver never
\* answers twice for one damaged segment, or at all on a clean link, and a segment
\* without an end never fills more than its buffer.
OneNakPerFault ==
  TypeOK /\ naks + garbled <= faults + (IF faults = 0 THEN 0 ELSE lines)

\* The framing is a frame channel: whatever the link does to the bytes, frames
\* are dispatched in order and at most once; until the first fault none is
\* skipped, and each of them is dispatched in the end.
Channel == INSTANCE FrameChannel WITH Limit <- MaxFrames,
                                      clean <- (faults = 0)

ImplementsChannel == Channel!LiveSpec
=============================================================================
