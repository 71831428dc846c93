------------------------------ MODULE Flipper --------------------------------
(***************************************************************************)
(* The Flipper application (flipper/duta_flipper.c, on its own copy of the *)
(* core, flipper/skrit_device.h): a skrit node on the USB CDC, a runner of *)
(* macros from the SD card, and a bridge that wires the CDC to the UART    *)
(* byte for byte.  One thread does all three, in turns of duta_app's loop; *)
(* the CDC, UART and key callbacks only fill queues, and do not wait (keys *)
(* do).  The user changes the view while the host talks.                   *)
(*                                                                         *)
(* The host sends skrit-mux frames, to this node or, over the bridge, to   *)
(* the one behind it: a frame is the delimiter Z, its payload, and Z.      *)
(* GPIO outputs, the drawing of the views and the identity commands are    *)
(* left out.                                                               *)
(***************************************************************************)
EXTENDS Naturals, Sequences, SequencesExt

CONSTANTS
  Bauds,       \* bridge_bauds, a sequence
  Boot,        \* the baud of duta_app, and baud_idx
  Kinds,       \* what host frames say: [op, v] records
  Scratch,     \* the program uploaded to the core, for MACRO_RUN
  Card,        \* macro files: name -> program
  RingCap,     \* DUTA_RING
  Batch,       \* the buffers of duta_app and skrit_dev_poll
  QCap,        \* the length of input_q
  MaxFrames, MaxTarget, MaxKeys \* bounds: frames, UART bytes, key presses

Z     == [op |-> "Z"]
Keys  == {"Up", "Down", "Ok", "Right", "Back"}
White == "white"    \* 0x40, 0x40, 0x40
Blue  == "blue"
Off   == "off"

ASSUME FlipperAssumption ==
  /\ Boot \in DOMAIN Bauds /\ {RingCap, Batch, QCap} \subseteq Nat \ {0}
  /\ {MaxFrames, MaxTarget, MaxKeys} \subseteq Nat
  /\ \A k \in Kinds : k.op \in {"data", "proto", "rgb", "out", "run"}

VARIABLES
  running,     \* running
  view,        \* view
  usbRx, uartRx, inputQ, \* usb_rx, uart_rx, input_q
  at,          \* the loop: "top", "rx", "input", or in a program: "macro"
  buf,         \* bytes taken from usb_rx and not given to the core yet
  mode, rx,    \* skrit_dev.mode ("idle", "frame") and rx
  forward,     \* skrit_dev.forward
  ops, back,   \* the program that runs; where the loop goes on after it
  baud, baudIdx, \* baud, baud_idx
  uartBaud,    \* the rate the UART has
  rgb, led,    \* rgb; the colour the LED has
  names, sel,  \* macro_name (its length is macro_count), macro_sel
  told,        \* history: the target's bytes, as they went to the host
  handled,     \* history: the host's bytes, as they were obeyed or passed on
  sending,     \* the rest of a frame the host is sending
  frames, heard, keys, \* frames sent, UART bytes received, keys pressed
  lost,        \* history: a callback found its ring full
  muted,       \* history: forwarding was off at some time
  split        \* history: the view changed in the middle of a frame

coreVars == <<mode, rx, forward>>
baudVars == <<baud, baudIdx, uartBaud>>
ledVars  == <<rgb, led>>
menuVars == <<names, sel>>
outVars  == <<told, handled>>
envVars  == <<sending, frames, heard, keys, lost>>
vars == <<running, view, usbRx, uartRx, inputQ, at, buf, coreVars, ops, back, baudVars,
          ledVars, menuVars, outVars, envVars, muted, split>>

Init ==
  /\ running = TRUE /\ view = "status" /\ sending = <<>>
  /\ usbRx = <<>> /\ uartRx = <<>> /\ inputQ = <<>>
  /\ at = "top" /\ buf = <<>> /\ mode = "idle" /\ rx = <<>> /\ forward = TRUE
  /\ ops = <<>> /\ back = "top"
  /\ baud = Bauds[Boot] /\ baudIdx = Boot /\ uartBaud = Bauds[Boot]
  /\ rgb = Off /\ led = Off /\ names \in {SetToSeq(s) : s \in SUBSET DOMAIN Card} /\ sel = 1
  /\ told = <<>> /\ handled = <<>>
  /\ frames = 0 /\ heard = 0 /\ keys = 0
  /\ lost = FALSE /\ muted = FALSE /\ split = FALSE

-----------------------------------------------------------------------------
(* Callbacks                                                               *)

Least(a, b) == IF a < b THEN a ELSE b

Text(k, n)  == [op |-> k.op, v |-> k.v, id |-> n]
Frame(k, n) == <<Z, Text(k, n), Z>>

Fit(q, s) == SubSeq(q \o s, 1, Least(RingCap, Len(q \o s)))

LoopSame == UNCHANGED <<running, view, at, buf, coreVars, ops, back, baudVars, ledVars,
                        menuVars, outVars, muted, split>>

\* cdc_rx: a packet with the next bytes of a frame, or all of it.
HostSend ==
  /\ running
  /\ \E f \in IF sending # <<>> THEN {sending}
              ELSE {Frame(k, frames + 1) : k \in Kinds} :
     \E n \in {1, Len(f)} :
       /\ sending' = SubSeq(f, n + 1, Len(f))
       /\ usbRx' = Fit(usbRx, SubSeq(f, 1, n))
       /\ lost' = (lost \/ Len(usbRx) + n > RingCap)
  /\ frames' = IF sending = <<>> THEN frames + 1 ELSE frames
  /\ frames' <= MaxFrames
  /\ LoopSame /\ UNCHANGED <<uartRx, inputQ, heard, keys>>

\* uart_rx
TargetSends ==
  /\ running /\ heard < MaxTarget
  /\ heard' = heard + 1 /\ uartRx' = Fit(uartRx, <<heard + 1>>)
  /\ lost' = (lost \/ Len(uartRx) + 1 > RingCap)
  /\ LoopSame /\ UNCHANGED <<usbRx, inputQ, sending, frames, keys>>

\* input_callback, which waits for a place.
Press(k) ==
  /\ running /\ keys < MaxKeys /\ Len(inputQ) < QCap
  /\ keys' = keys + 1 /\ inputQ' = Append(inputQ, k)
  /\ LoopSame /\ UNCHANGED <<usbRx, uartRx, sending, frames, heard, lost>>

-----------------------------------------------------------------------------
(* The bridge and the core                                                 *)

Taken(q) == SubSeq(q, 1, Least(Batch, Len(q)))
Left(q)  == SubSeq(q, Len(Taken(q)) + 1, Len(q))

\* Mutant: what does not fit the buffer is gone.
BridgeDrops ==
  /\ running /\ at = "top" /\ view = "bridge" /\ at' = "input"
  /\ usbRx' = <<>> /\ handled' = handled \o Taken(usbRx)
  /\ uartRx' = Left(uartRx) /\ told' = told \o Taken(uartRx)
  /\ UNCHANGED <<running, view, inputQ, buf, coreVars, ops, back, baudVars, ledVars,
                 menuVars, envVars, muted, split>>

\* A turn of the bridge: what is there of each direction, up to a buffer full.
Bridge ==
  /\ running /\ at = "top" /\ view = "bridge" /\ at' = "input"
  /\ usbRx' = Left(usbRx) /\ handled' = handled \o Taken(usbRx)
  /\ uartRx' = Left(uartRx) /\ told' = told \o Taken(uartRx)
  /\ UNCHANGED <<running, view, inputQ, buf, coreVars, ops, back, baudVars, ledVars,
                 menuVars, envVars, muted, split>>

TakeUsb ==
  /\ running /\ at = "top" /\ view # "bridge" /\ at' = "rx"
  /\ usbRx' = Left(usbRx) /\ buf' = Taken(usbRx)
  /\ UNCHANGED <<running, view, uartRx, inputQ, coreVars, ops, back, baudVars, ledVars,
                 menuVars, outVars, envVars, muted, split>>

\* Mutant: the bytes stay in the ring.
PollPeeks ==
  /\ uartRx' = uartRx
  /\ told' = IF forward THEN told \o Taken(uartRx) ELSE told

\* skrit_dev_poll with skrit_dev_feed_data.
Poll ==
  /\ uartRx' = Left(uartRx)
  /\ told' = IF forward THEN told \o Taken(uartRx) ELSE told

\* hal_proto_set, after the core took the FWD flag; a baud of 0 keeps the rate.
SetProto(v) ==
  /\ forward' = v.fwd /\ muted' = (muted \/ ~v.fwd)
  /\ baud' = IF v.baud = 0 THEN baud ELSE v.baud
  /\ uartBaud' = IF v.baud = 0 THEN uartBaud ELSE v.baud
  /\ UNCHANGED baudIdx

\* hal_rgb_set; hal_out_set of the LED.
SetRgb(c) == rgb' = c /\ led' = c
SetLed(v) == IF v THEN SetRgb(White) ELSE SetRgb(Off)

Run(p, next) == ops' = p /\ back' = next /\ at' = "macro"

NoRun   == UNCHANGED <<ops, back, at>>
NoProto == UNCHANGED <<forward, muted, baudVars>>

\* A whole frame: console bytes go out of the UART, a command is dispatched and
\* answered.  A splice of two fails its CRC, unless the first says DATA.
Obey(s) ==
  LET f == s[1]
  IN IF Len(s) > 1 /\ f.op # "data"
     THEN NoRun /\ NoProto /\ UNCHANGED <<ledVars, outVars>>
     ELSE /\ handled' = handled \o <<Z>> \o s \o <<Z>> /\ UNCHANGED told
          /\ IF f.op = "proto" THEN SetProto(f.v) ELSE NoProto
          /\ CASE f.op = "rgb" -> SetRgb(f.v) [] f.op = "out" -> SetLed(f.v)
               [] OTHER -> UNCHANGED ledVars
          /\ IF f.op = "run" THEN Run(Scratch, "rx") ELSE NoRun

Ignore == NoRun /\ NoProto /\ UNCHANGED <<ledVars, outVars>>

\* skrit_dev_rx, skrit__frame_complete, skrit__on_frame
RxByte ==
  LET b == Head(buf)
  IN /\ at = "rx" /\ buf # <<>> /\ buf' = Tail(buf)
     /\ IF b # Z THEN UNCHANGED mode /\ Ignore
                      /\ rx' = IF mode = "idle" THEN rx ELSE Append(rx, b)
        ELSE IF mode = "idle" THEN mode' = "frame" /\ rx' = <<>> /\ Ignore
        ELSE /\ mode' = "idle" /\ rx' = <<>>
             /\ IF rx = <<>> THEN Ignore ELSE Obey(rx)
     /\ UNCHANGED <<running, view, usbRx, uartRx, inputQ, menuVars, envVars, split>>

RxEnd ==
  /\ at = "rx" /\ buf = <<>> /\ at' = "input" /\ Poll
  /\ UNCHANGED <<running, view, usbRx, inputQ, buf, coreVars, ops, back, baudVars, ledVars,
                 menuVars, handled, envVars, muted, split>>

-----------------------------------------------------------------------------
(* A program: skrit__run_program on the loop's thread                      *)

MacroSame == UNCHANGED <<running, view, usbRx, inputQ, buf, coreVars, baudVars, menuVars,
                         handled, envVars, muted, split>>

\* EMIT goes straight to the UART.
MacroStep ==
  /\ at = "macro" /\ ops # <<>> /\ Head(ops).op # "wait" /\ ops' = Tail(ops)
  /\ LET o == Head(ops)
     IN CASE o.op = "rgb" -> SetRgb(o.v) [] o.op = "out" -> SetLed(o.v)
          [] OTHER -> UNCHANGED ledVars
  /\ MacroSame /\ UNCHANGED <<at, back, uartRx, told>>

\* A turn of DELAY, EXPECT or WAITIO: the console is polled, usb_rx is not.
MacroPoll ==
  /\ at = "macro" /\ ops # <<>> /\ Head(ops).op = "wait" /\ uartRx # <<>>
  /\ Poll
  /\ MacroSame /\ UNCHANGED <<at, back, ops, ledVars>>

\* Its time is up, or what it waits for has come.
MacroGoesOn ==
  /\ at = "macro" /\ ops # <<>> /\ Head(ops).op = "wait" /\ ops' = Tail(ops)
  /\ MacroSame /\ UNCHANGED <<at, back, uartRx, ledVars, told>>

\* Back to the key, or to MACRO_RUN, which answers, and the bytes after its frame.
MacroEnd ==
  /\ at = "macro" /\ ops = <<>> /\ at' = back
  /\ MacroSame /\ UNCHANGED <<back, ops, uartRx, ledVars, told>>

-----------------------------------------------------------------------------
(* Keys                                                                    *)

Goto(v)  == view' = v /\ at' = "top"
KeySame  == UNCHANGED <<running, usbRx, uartRx, buf, coreVars, outVars, envVars, muted>>
NoSplit  == UNCHANGED split
\* The core, or the bridge, has had a part of a frame, and the rest is still to come.
Splits == split' = (split \/ mode = "frame" \/ Len(handled) % 3 # 0)

\* duta_scan_macros: the card may have changed; the selection is clamped.
Scan ==
  /\ names' \in {SetToSeq(s) : s \in SUBSET DOMAIN Card}
  /\ sel' = IF sel > Len(names') THEN (IF names' = <<>> THEN 1 ELSE Len(names')) ELSE sel

OpenMacros ==
  /\ view = "status" /\ Head(inputQ) = "Ok" /\ Scan /\ Goto("macros")
  /\ NoSplit /\ UNCHANGED <<baudVars, ledVars, ops, back>>

\* Entering the bridge: its rate, and a blue LED.
Enter ==
  /\ view = "status" /\ Head(inputQ) = "Right" /\ Goto("bridge")
  /\ uartBaud' = Bauds[baudIdx] /\ led' = Blue
  /\ Splits /\ UNCHANGED <<baud, baudIdx, rgb, menuVars, ops, back>>

Select ==
  /\ view = "macros" /\ Goto("macros")
  /\ \/ Head(inputQ) = "Up" /\ sel > 1 /\ sel' = sel - 1
     \/ Head(inputQ) = "Down" /\ sel < Len(names) /\ sel' = sel + 1
  /\ NoSplit /\ UNCHANGED <<baudVars, ledVars, names, ops, back>>

\* duta_run_macro: the file may be gone or empty.
RunMacro ==
  /\ view = "macros" /\ Head(inputQ) = "Ok" /\ names # <<>>
  /\ \/ Run(Card[names[sel]], "top")
     \/ at' = "top" /\ UNCHANGED <<ops, back>>
  /\ NoSplit /\ UNCHANGED <<view, baudVars, ledVars, menuVars>>

CloseMacros ==
  /\ view = "macros" /\ Head(inputQ) = "Back" /\ Goto("status")
  /\ NoSplit /\ UNCHANGED <<baudVars, ledVars, menuVars, ops, back>>

\* duta_bridge_set_baud
BridgeBaud ==
  /\ view = "bridge" /\ Goto("bridge")
  /\ \/ Head(inputQ) = "Up" /\ baudIdx < Len(Bauds) /\ baudIdx' = baudIdx + 1
     \/ Head(inputQ) = "Down" /\ baudIdx > 1 /\ baudIdx' = baudIdx - 1
  /\ uartBaud' = Bauds[baudIdx']
  /\ NoSplit /\ UNCHANGED <<baud, ledVars, menuVars, ops, back>>

\* Mutant: the UART keeps the bridge's rate.
LeaveKeepsBaud ==
  /\ view = "bridge" /\ Head(inputQ) = "Back" /\ Goto("status")
  /\ led' = rgb
  /\ Splits /\ UNCHANGED <<baudVars, rgb, menuVars, ops, back>>

\* "restore the DATA baud and the node LED state"
Leave ==
  /\ view = "bridge" /\ Head(inputQ) = "Back" /\ Goto("status")
  /\ led' = rgb /\ uartBaud' = baud
  /\ Splits /\ UNCHANGED <<baud, baudIdx, rgb, menuVars, ops, back>>

Acts == \/ OpenMacros \/ Enter \/ Select \/ RunMacro \/ CloseMacros \/ BridgeBaud \/ Leave

\* A key that means nothing in this view.
OtherKey ==
  /\ ~(view = "status" /\ Head(inputQ) \in {"Ok", "Right", "Back"})
  /\ ~(view # "status" /\ Head(inputQ) = "Back")
  /\ ~(view = "macros" /\ ( \/ Head(inputQ) = "Ok" /\ names # <<>>
                            \/ Head(inputQ) = "Up" /\ sel > 1
                            \/ Head(inputQ) = "Down" /\ sel < Len(names)))
  /\ ~(view = "bridge" /\ ( \/ Head(inputQ) = "Up" /\ baudIdx < Len(Bauds)
                            \/ Head(inputQ) = "Down" /\ baudIdx > 1))
  /\ at' = "top"
  /\ NoSplit /\ UNCHANGED <<view, baudVars, ledVars, menuVars, ops, back>>

\* Back in the status view ends the loop, and the callbacks with it; the LED goes
\* out and the UART is released.
Quit ==
  /\ running /\ at = "input" /\ inputQ # <<>> /\ view = "status" /\ Head(inputQ) = "Back"
  /\ running' = FALSE /\ inputQ' = <<>> /\ led' = Off /\ usbRx' = <<>> /\ uartRx' = <<>>
  /\ UNCHANGED <<view, at, buf, coreVars, ops, back, baudVars, rgb, menuVars, outVars,
                 envVars, muted, split>>

\* Mutant: keys are not read while bridging.
KeyNotBridging ==
  /\ running /\ at = "input" /\ inputQ # <<>> /\ inputQ' = Tail(inputQ)
  /\ KeySame
  /\ view # "bridge"
  /\ Acts \/ OtherKey

Key ==
  /\ running /\ at = "input" /\ inputQ # <<>> /\ inputQ' = Tail(inputQ)
  /\ KeySame
  /\ Acts \/ OtherKey

NoKey ==
  /\ running /\ at = "input" /\ inputQ = <<>> /\ at' = "top"
  /\ UNCHANGED <<running, view, usbRx, uartRx, inputQ, buf, coreVars, ops, back, baudVars,
                 ledVars, menuVars, outVars, envVars, muted, split>>

Loop == \/ Bridge \/ TakeUsb \/ RxByte \/ RxEnd
        \/ MacroStep \/ MacroPoll \/ MacroEnd \/ Key \/ NoKey \/ Quit

Next == Loop \/ MacroGoesOn \/ HostSend \/ TargetSends \/ \E k \in Keys : Press(k)

Spec == Init /\ [][Next]_vars

\* The thread runs, and a wait has a deadline.
LiveSpec == Spec /\ WF_vars(Loop) /\ WF_vars(MacroGoesOn)

-----------------------------------------------------------------------------
(* Properties                                                              *)

\* "restore the DATA baud and the node LED state": outside the bridge the UART
\* has the host's rate and the LED the host's colour, in it the bridge's rate and
\* blue, whatever the host, a macro and the user did in between.
BaudAndLamp ==
  running =>
    IF view = "bridge" THEN uartBaud = Bauds[baudIdx] /\ led = Blue
                       ELSE uartBaud = baud /\ led = rgb

\* The host's byte i: a frame is three of them.
IsByte(b, i) == IF i % 3 = 2 THEN b # Z /\ b.id = (i + 1) \div 3 ELSE b = Z

\* Whatever the user opens while host and target talk: every byte of the host is
\* obeyed or passed on, and every byte of the target told, through the bridge, the
\* console tee or a waiting macro, once and in order.  (Unless a ring overflowed,
\* the host turned forwarding off, or the view changed in the middle of a frame:
\* the rest then goes to the other reader.)
BothWaysExact ==
  /\ ~lost /\ ~split =>
       /\ \A i \in DOMAIN handled : IsByte(handled[i], i)
       /\ running /\ sending \o usbRx \o buf = <<>> => Len(handled) = 3 * frames
  /\ ~lost /\ ~muted =>
       /\ \A i \in DOMAIN told : told[i] = i
       /\ running /\ uartRx = <<>> => Len(told) = heard

\* Neither traffic, a bridge nor a program keeps the user out, or the host: the
\* queues are emptied again and again while the program runs.
EveryoneServed == []<>(~running \/ (inputQ = <<>> /\ usbRx = <<>> /\ uartRx = <<>>))
=============================================================================
