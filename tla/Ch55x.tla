------------------------------- MODULE Ch55x -------------------------------
(***************************************************************************)
(* The CH552 firmware (ch55xduino/ch55xduino.ino): one loop that bridges   *)
(* the DATA port to UART0, follows the host's baud rate and serves the CMD *)
(* port with its ASCII lines and binary frames, over UsbControl.  A frame  *)
(* or a line is one byte of text here; COBS and CRC are what they decide.  *)
(***************************************************************************)
EXTENDS UsbControl

CONSTANTS
    Meaning,     \* the command each text stands for, as a frame or as a line
    BinCap,      \* BIN_BUF_SIZE
    LineCap,     \* CMD_BUF_SIZE - 1
    Plans,       \* bound: packets the host sends, ports it opens, what it asks of EP0,
                 \* bytes the target sends, and who streams; one plan for a behaviour
    MaxResets    \* bound: bus resets

ASSUME FirmwareAssumption ==
    BinCap \in Nat /\ LineCap \in Nat /\ MaxResets \in Nat

VARIABLES
    pc,        \* where in loop
    cmd,       \* cmdMode, binBuf or cmdBuf, and what is still to be written to B
    outs,      \* relay1On, relay2On, ledOn
    baud,      \* currentBaud, and the half of the line coding already loaded
    uart,      \* external: bytes of the target not yet read
    usb,       \* external: the host's packets to come, its toggles, resets so far
    stream,    \* external: who sends on the DATA port without end, until it stops
    whole      \* history: no reset, cleared halt or overflow has cut a frame

fwVars == <<pc, cmd, outs, baud, uart, usb, stream, whole>>
vars == <<usbVars, ctlVars, fwVars>>

Zero == "zero"
Eol == "eol"
Ctl == "ctl"      \* any other byte below 0x20
Outputs == 0..2

\* What pollCmdPort makes of a byte, as long as no frame overflows its buffer.
Modes == {"idle", "ascii", "bin"}
NextMode(m, c) ==
    CASE c = Zero -> IF m = "bin" THEN "idle" ELSE "bin"
      [] c # Zero /\ m = "bin" -> "bin"
      [] OTHER -> IF c = Eol \/ (m = "idle" /\ c = Ctl) THEN "idle" ELSE "ascii"

\* Mode m becomes n over the bytes s, and idle over the packets.
Takes(m, s, n) == \E g \in [0..Len(s) -> Modes] :
    g[0] = m /\ g[Len(s)] = n /\ \A k \in 1..Len(s) : g[k] = NextMode(g[k - 1], s[k])
Completes(m, packets) == \E h \in [0..Len(packets) -> Modes] :
    /\ h[0] = m /\ h[Len(packets)] = "idle"
    /\ \A k \in 1..Len(packets) : Takes(h[k - 1], packets[k], h[k])

\* A packet fits the endpoint, and what the host sends to the CMD port are whole
\* frames and lines, however they are cut into packets.
ASSUME PlanAssumption ==
    \A s \in Plans :
        /\ s.packets \in [Ports -> Seq(Seq(Bytes))] /\ s.asks \subseteq Requests
        /\ s.stream \subseteq {"host", "target"}
        /\ \A p \in Ports : \A i \in 1..Len(s.packets[p]) : Len(s.packets[p][i]) <= Pkt
        /\ Completes("idle", s.packets["B"])

Init ==
    /\ pc = "drainA"
    /\ cmd = [mode |-> "idle", buf |-> <<>>, reply |-> <<>>, flush |-> FALSE]
    /\ outs = [i \in Outputs |-> FALSE]
    /\ baud = [cur |-> Default, half |-> <<>>]
    /\ CtlInit
    /\ \E s \in Plans :
         /\ UsbInit(s.open)
         /\ uart = [left |-> s.uart, rx |-> 0]
         /\ usb = [plan |-> s.packets, asks |-> s.asks, resets |-> 0,
                   tog |-> [p \in Ports |-> 0]]
         /\ stream = s.stream
    /\ whole = TRUE

----------------------------------------------------------------------------
(* Commands.                                                               *)

Toggled(i) == [outs EXCEPT ![i] = ~@]
\* applyOutput and toggleOutput ignore an index they do not know.
Known(i) == i \in Outputs

\* handleBinFrame: the status answered and the outputs after it.  OUT_SET reads its
\* value from behind a short body: what an earlier frame left there.
Executed(c) ==
    CASE c.t = "set" ->
           {<<"ok", IF Known(c.i) THEN [outs EXCEPT ![c.i] = v] ELSE outs>> :
               v \in IF c.short THEN BOOLEAN ELSE {c.v}}
      [] c.t = "toggle" -> {<<"ok", IF Known(c.i) THEN Toggled(c.i) ELSE outs>>}
      [] c.t = "describe" -> {<<IF Known(c.i) THEN "ok" ELSE "badargs", outs>>}
      [] OTHER -> {<<c.t, outs>>}

\* The answer of sendResp, and of a line.
Framed(st) == <<Zero, st, Zero>>
Line(st) == <<st, Eol>>

\* One text is a frame when it is alone between its delimiters; else the checksum or
\* the length decides, and what is too short is dropped in silence.
FrameEnd(buf) ==
    IF Len(buf) = 1 /\ buf[1] \in DOMAIN Meaning
    THEN {<<Framed(x[1]), x[2]>> : x \in Executed(Meaning[buf[1]])}
    ELSE {<<<<>>, outs>>} \cup (IF buf = <<>> THEN {} ELSE {<<Framed("badcrc"), outs>>})

\* handleCommand: the lines drive the same outputs, with good indices only.
LineEnd(buf) ==
    LET c == Meaning[buf[1]]
    IN  IF Len(buf) = 1 /\ buf[1] \in DOMAIN Meaning /\ c.t = "toggle" /\ Known(c.i)
        THEN {<<Line("ok"), Toggled(c.i)>>}
        ELSE {<<Line("err"), outs>>}

----------------------------------------------------------------------------
(* pollCmdPort, for one byte.                                              *)

Mode(m, buf) == cmd' = [cmd EXCEPT !.mode = m, !.buf = buf] /\ UNCHANGED outs
Ends(results) == \E x \in results :
    /\ cmd' = [mode |-> "idle", buf |-> <<>>, reply |-> x[1], flush |-> Head(x[1] \o <<Eol>>) = Zero]
    /\ outs' = x[2]

IdleByte(c) ==
    /\ cmd.mode = "idle"
    /\ CASE c = Zero -> Mode("bin", <<>>)
         [] c \in {Eol, Ctl} -> Mode("idle", <<>>)
         [] OTHER -> Mode("ascii", <<c>>)

AsciiByte(c) ==
    /\ cmd.mode = "ascii"
    /\ CASE c = Eol -> Ends(LineEnd(cmd.buf))
         [] c = Zero -> Mode("bin", <<>>)
         [] OTHER -> Mode("ascii", IF Len(cmd.buf) < LineCap THEN Append(cmd.buf, c) ELSE cmd.buf)

\* Mutant: the delimiter that ends a frame opens the next one.
StayBinary(buf) == \E x \in FrameEnd(buf) :
    /\ cmd' = [mode |-> "bin", buf |-> <<>>, reply |-> x[1], flush |-> x[1] # <<>>]
    /\ outs' = x[2]
Close(buf) == Ends(FrameEnd(buf))
Overflows(c) == cmd.mode = "bin" /\ c # Zero /\ Len(cmd.buf) = BinCap

BinaryByte(c) ==
    /\ cmd.mode = "bin"
    /\ CASE c = Zero -> Close(cmd.buf)
         [] Overflows(c) -> Mode("idle", <<>>)
         [] OTHER -> Mode("bin", Append(cmd.buf, c))

----------------------------------------------------------------------------
(* loop.                                                                   *)

At(l) == pc = l /\ Alive
Goto(l) == pc' = l
Quiet == UNCHANGED <<ctlVars, usb, stream>>
Same == Quiet /\ UNCHANGED whole

\* The DATA port to UART0, which takes every byte.
DrainA ==
    /\ At("drainA")
    /\ \/ Fetch("A") /\ UNCHANGED pc
       \/ Store("A") /\ UNCHANGED pc
       \/ /\ op = Idle /\ ~Available("A")
          /\ Goto(IF ep["A"].dtr THEN "bridge" ELSE "baud")
          /\ UNCHANGED usbVars
    /\ UNCHANGED <<cmd, outs, baud, uart>> /\ Same

\* UART0 to the DATA port; a byte is lost to a host that does not read.
Bridge ==
    /\ At("bridge") /\ uart.rx > 0
    /\ \/ Put("A", "target") /\ uart' = [uart EXCEPT !.rx = @ - 1]
       \/ NotBusy("A") /\ Full("A") /\ ep["A"].dtr /\ Arm("A") /\ UNCHANGED uart
       \/ /\ op = Idle /\ (TimedOut("A") \/ ~ep["A"].dtr)
          /\ uart' = [uart EXCEPT !.rx = @ - 1] /\ UNCHANGED usbVars
    /\ UNCHANGED <<pc, cmd, outs, baud>> /\ Same

BridgeEnd ==
    /\ At("bridge") /\ uart.rx = 0 /\ op = Idle
    /\ IF FlushDue("A") THEN Arm("A") ELSE UNCHANGED usbVars
    /\ Goto("baud")
    /\ UNCHANGED <<cmd, outs, baud, uart>> /\ Same

\* Mutant: the coding that was set first stays.
SetOnce(b) == baud.cur # Default
SameBaud(b) == baud.cur = b

\* A rate of zero is not followed.
NoBaud == <<0, 0>>

\* The four bytes of LineCodingA are loaded while the interrupt may store them.
LoadLow ==
    /\ At("baud") /\ op = Idle
    /\ baud' = [baud EXCEPT !.half = <<ctl.line["A"][1]>>]
    /\ Goto("baud2")
    /\ UNCHANGED <<usbVars, cmd, outs, uart>> /\ Same

LoadHigh ==
    /\ At("baud2")
    /\ LET b == <<baud.half[1], ctl.line["A"][2]>>
       IN  baud' = [cur |-> IF SameBaud(b) \/ b = NoBaud THEN baud.cur ELSE b,
                    half |-> <<>>]
    /\ Goto("poll")
    /\ UNCHANGED <<usbVars, cmd, outs, uart>> /\ Same

Poll ==
    /\ At("poll") /\ cmd.reply = <<>> /\ ~cmd.flush
    /\ \/ Fetch("B") /\ UNCHANGED <<pc, cmd, outs>>
       \/ Store("B") /\ (IdleByte(op.d) \/ AsciiByte(op.d) \/ BinaryByte(op.d)) /\ UNCHANGED pc
       \/ /\ op = Idle /\ ~Available("B")
          /\ IF FlushDue("B") THEN Arm("B") ELSE UNCHANGED usbVars
          /\ Goto("drainA") /\ UNCHANGED <<cmd, outs>>
    /\ whole' = (whole /\ (op.at = "loaded" => ~Overflows(op.d)))
    /\ UNCHANGED <<baud, uart>> /\ Quiet

\* The answer is written byte by byte, each with its own wait; a frame is flushed.
Answer ==
    /\ At("poll") /\ cmd.reply # <<>>
    /\ \/ Put("B", Head(cmd.reply)) /\ cmd' = [cmd EXCEPT !.reply = Tail(@)]
       \/ NotBusy("B") /\ Full("B") /\ ep["B"].dtr /\ Arm("B") /\ UNCHANGED cmd
       \/ /\ op = Idle /\ (TimedOut("B") \/ ~ep["B"].dtr)
          /\ cmd' = [cmd EXCEPT !.reply = Tail(@)] /\ UNCHANGED usbVars
    /\ UNCHANGED <<pc, outs, baud, uart>> /\ Same

AnswerEnd ==
    /\ At("poll") /\ cmd.reply = <<>> /\ cmd.flush /\ op = Idle
    /\ IF FlushDue("B") THEN Arm("B") ELSE UNCHANGED usbVars
    /\ cmd' = [cmd EXCEPT !.flush = FALSE]
    /\ UNCHANGED <<pc, outs, baud, uart>> /\ Same

Continue ==
    /\ Alive
    /\ \E p \in Ports : Bump(p) \/ SetBusy(p)
    /\ UNCHANGED <<pc, cmd, outs, baud, uart>> /\ Same

LoopStep == DrainA \/ Bridge \/ BridgeEnd \/ LoadLow \/ LoadHigh \/ Poll \/ Answer
            \/ AnswerEnd \/ Continue

----------------------------------------------------------------------------
(* The world.                                                              *)

\* Clearing a halt restarts the host's toggle too, and frees the packet unread.
Control(r) ==
    /\ r \in usb.asks
    /\ Setup(r)
    /\ LET clears == r.k = "clear" /\ r.dir = "out"
       IN  /\ usb' = IF clears THEN [usb EXCEPT !.tog[r.port] = 0] ELSE usb
           /\ whole' = (whole /\ ~clears)
    /\ UNCHANGED <<pc, cmd, outs, baud, uart, stream>>
ControlIn == CtlIn /\ UNCHANGED fwVars
ControlOut == CtlOut /\ UNCHANGED fwVars

\* The packets after the acknowledged head: a streaming host sends it again, as new.
Rest(p) ==
    Tail(usb.plan[p]) \o IF p = "A" /\ "host" \in stream THEN <<Head(usb.plan[p])>> ELSE <<>>

\* The host's toggle moves on when the acknowledgement arrives.
HostOut(p) ==
    /\ Alive /\ usb.plan[p] # <<>>
    /\ EpOut(p, Head(usb.plan[p]), usb.tog[p])
    /\ \/ usb' = [usb EXCEPT !.plan[p] = Rest(p), !.tog[p] = 1 - @]
       \/ TogOK(p, usb.tog[p]) /\ UNCHANGED usb
    /\ UNCHANGED <<ctlVars, pc, cmd, outs, baud, uart, stream, whole>>

HostIn(p) == Alive /\ EpIn(p) /\ UNCHANGED <<ctlVars, fwVars>>

\* The host starts over: what it has not sent is kept, its toggles are not.
BusRst ==
    /\ usb.resets < MaxResets
    /\ Reset
    /\ usb' = [usb EXCEPT !.tog = [p \in Ports |-> 0], !.resets = @ + 1]
    /\ whole' = FALSE
    /\ UNCHANGED <<pc, cmd, outs, baud, uart, stream>>

\* A streaming target is never done; at most uart.left bytes of it wait.
Target ==
    /\ Alive /\ uart.left > 0
    /\ IF "target" \in stream
       THEN uart.rx < uart.left /\ uart' = [uart EXCEPT !.rx = @ + 1]
       ELSE uart' = [uart EXCEPT !.left = @ - 1, !.rx = @ + 1]
    /\ UNCHANGED <<usbVars, ctlVars, pc, cmd, outs, baud, usb, stream, whole>>

StopStream ==
    /\ \E x \in stream : stream' = stream \ {x}
    /\ UNCHANGED <<usbVars, ctlVars, pc, cmd, outs, baud, uart, usb, whole>>

Next ==
    \/ DrainA \/ Bridge \/ BridgeEnd \/ LoadLow \/ LoadHigh \/ Poll \/ Answer
    \/ AnswerEnd \/ Continue
    \/ ControlIn \/ ControlOut \/ BusRst \/ Target \/ StopStream
    \/ \E r \in Requests : Control(r)
    \/ \E p \in Ports : HostOut(p) \/ HostIn(p)

----------------------------------------------------------------------------
(* Properties.                                                             *)

\* The host gets what was written, and the loop what was sent, on both ports and
\* the control endpoint.
BytesExact == OutExact /\ InExact /\ DescriptorExact

\* When every frame and line of the host has been read the receiver waits for
\* the first byte of a message: what comes next is not taken for the inside of
\* a frame.  What cuts a frame, a frame too long for the buffer included, may
\* exchange the roles of all later delimiters.
InPhase ==
    (whole /\ usb.plan["B"] = <<>> /\ due["B"] = <<>> /\ op = Idle) => cmd.mode = "idle"

Streams == []<>(stream # {})

\* The CMD port is served again and again: a host that opens the DATA port and does
\* not read costs time, not the other port, and so does any amount of data, as
\* long as neither the host nor the target streams on the DATA port without end.
LoopTurns == []<>(ctl.boot \/ pc = "poll") \/ Streams

\* The UART comes to run at the rate the host set last, a rate of zero excepted,
\* although the loop may load the rate while the interrupt stores it.  The rate is
\* looked at once a turn, so a stream without end keeps it from being followed.
BaudFollows ==
    []<>(ctl.boot \/ ctl.line["A"] \in {baud.cur, NoBaud}) \/ Streams

\* "Two independent CDC-ACM interfaces, so you can stream serial on DATA while
\* toggling a relay on CMD at the same time" (ch55xduino/README.md): the CMD port
\* is served again and again whatever goes over the DATA port.
CmdServed == []<>(ctl.boot \/ pc = "poll")

Spec == Init /\ [][Next]_vars
LiveSpec == Spec /\ WF_vars(LoopStep)
=============================================================================
