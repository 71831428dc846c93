----------------------------- MODULE UsbControl -----------------------------
(***************************************************************************)
(* Endpoint 0 of the CH552 composite device (ch55xduino/src/usb/           *)
(* USBhandler.c) over the bulk ports of CdcEndpoint: standard and CDC      *)
(* class requests, each transaction one run of the interrupt handler.      *)
(***************************************************************************)
EXTENDS CdcEndpoint

CONSTANTS
    Ep0Size,      \* DEFAULT_ENDP0_SIZE
    Descriptors,  \* lengths of the descriptors the host asks for
    Lengths,      \* wLength of such a request
    Bauds,        \* line codings, each as the two halves the loop loads
    Default,      \* LineCodingA and B after power-on
    Touch,        \* 1200 baud
    MaxRequests   \* bound: control requests

ASSUME ControlAssumption ==
    /\ Ep0Size \in Nat \ {0} /\ Descriptors \subseteq Nat /\ Lengths \subseteq Nat
    /\ Default \in Bauds /\ MaxRequests \in Nat

VARIABLES
    ctl,    \* SetupReq, SetupLen, EP0's codes, address, line codings
    host,   \* external: the control transfer the host is in
    nreq    \* control requests so far

ctlVars == <<ctl, host, nreq>>

NoTransfer == [k |-> "none"]
Requests ==
    [k : {"desc"}, size : Descriptors, wlen : Lengths] \cup
    [k : {"addr", "plain", "bad"}] \cup
    [k : {"line"}, port : Ports, baud : Bauds] \cup
    [k : {"dtr"}, port : Ports, on : BOOLEAN] \cup
    [k : {"clear"}, port : Ports, dir : {"in", "out"}]

CtlInit ==
    /\ ctl = [req |-> NoTransfer, left |-> 0, tlen |-> 0, rx |-> "ack",
              tx |-> "nak", addr |-> 0, boot |-> FALSE,
              line |-> [p \in Ports |-> Default]]
    /\ host = NoTransfer
    /\ nreq = 0

Alive == ~ctl.boot
Smaller(a, b) == IF a < b THEN a ELSE b

\* Mutant: the transfer is as long as the host's buffer.
Unclamped(size, wlen) == wlen
\* SetupLen, cut to the length of the descriptor.
Clamped(size, wlen) == Smaller(wlen, size)

Stalled == [ctl EXCEPT !.req = NoTransfer, !.rx = "stall", !.tx = "stall"]
Armed(r, left, tlen) ==
    [ctl EXCEPT !.req = r, !.left = left - tlen, !.tlen = tlen,
                !.rx = "ack", !.tx = "ack"]

\* USB_EP0_SETUP: requests without a data stage take effect here, but the address.
SetupDesc(r) ==
    LET n == Clamped(r.size, r.wlen)
    IN  r.k = "desc" /\ ctl' = Armed(r, n, Smaller(n, Ep0Size)) /\ UNCHANGED usbVars
SetupAddr(r) == r.k = "addr" /\ ctl' = Armed(r, 0, 0) /\ UNCHANGED usbVars
\* Configuration, interface and status requests: nothing the ports depend on.
SetupPlain(r) == r.k = "plain" /\ ctl' = Armed(r, 0, 0) /\ UNCHANGED usbVars
SetupLine(r) == r.k = "line" /\ ctl' = Armed(r, 0, 0) /\ UNCHANGED usbVars
\* DTR dropped at 1200 baud on the DATA port enters the ROM boot loader for good.
SetupDtr(r) ==
    /\ r.k = "dtr"
    /\ SetDtr(r.port, r.on)
    /\ ctl' = [Armed(r, 0, 0) EXCEPT
                 !.boot = r.port = "A" /\ ~r.on /\ ctl.line["A"] = Touch]
SetupClear(r) ==
    /\ r.k = "clear"
    /\ IF r.dir = "in" THEN ClearHaltIn(r.port) ELSE ClearHaltOut(r.port)
    /\ ctl' = Armed(r, 0, 0)
SetupBad(r) == r.k = "bad" /\ ctl' = Stalled /\ UNCHANGED usbVars

\* A SETUP is always accepted, and ends the transfer before it.
Setup(r) ==
    /\ Transfers /\ Alive /\ nreq < MaxRequests
    /\ nreq' = nreq + 1
    /\ \/ SetupDesc(r) \/ SetupAddr(r) \/ SetupPlain(r) \/ SetupLine(r)
       \/ SetupDtr(r) \/ SetupClear(r) \/ SetupBad(r)
    /\ host' = IF ctl'.rx = "stall" THEN NoTransfer ELSE [r |-> r, k |-> "open", got |-> 0]

\* USB_EP0_IN, after the host took tlen bytes: the next piece, the address, or nothing.
CtlIn ==
    /\ Transfers /\ Alive /\ host.k = "open" /\ ctl.tx = "ack"
    /\ \/ /\ ctl.req.k = "desc" /\ host.r.k = "desc"
          /\ LET n == Smaller(ctl.left, Ep0Size)
             IN  ctl' = [ctl EXCEPT !.left = @ - n, !.tlen = n]
          /\ host' = IF ctl.tlen < Ep0Size \/ host.got + ctl.tlen = host.r.wlen
                     THEN [r |-> host.r, k |-> "in done", got |-> host.got + ctl.tlen]
                     ELSE [host EXCEPT !.got = @ + ctl.tlen]
       \/ /\ ctl.req.k = "addr"
          /\ ctl' = [ctl EXCEPT !.addr = 1, !.tx = "nak"]
          /\ host' = NoTransfer
       \/ /\ ctl.req.k \notin {"desc", "addr"} /\ (host.r.k = "line" => host.got = 1)
          /\ ctl' = [ctl EXCEPT !.tlen = 0, !.tx = "nak"]
          /\ host' = NoTransfer
    /\ UNCHANGED <<usbVars, nreq>>

\* USB_EP0_OUT: the line coding, or the status stage of what the host has read.
CtlOut ==
    /\ Transfers /\ Alive /\ ctl.rx = "ack"
    /\ \/ /\ host.k = "open" /\ host.r.k = "line" /\ host.got = 0 /\ ctl.req.k = "line"
          /\ ctl' = [ctl EXCEPT !.line[ctl.req.port] = host.r.baud, !.tlen = 0]
          /\ host' = [host EXCEPT !.got = 1]
       \/ /\ host.k = "in done"
          /\ ctl' = [ctl EXCEPT !.tlen = 0, !.tx = "nak"]
          /\ host' = NoTransfer
    /\ UNCHANGED <<usbVars, nreq>>

\* UIF_BUS_RST of USBInterrupt: not masked by a flush.
Reset ==
    /\ Alive
    /\ BusReset
    /\ ctl' = [ctl EXCEPT !.rx = "ack", !.tx = "nak", !.addr = 0]
    /\ host' = NoTransfer
    /\ UNCHANGED nreq

\* A descriptor read to its end has the length the host may expect, whatever
\* transfers it broke off before; one piece too many or too few would leave the
\* host with the next transfer's bytes.
DescriptorExact ==
    host.k = "in done" => host.got = Smaller(host.r.size, host.r.wlen)
=============================================================================
