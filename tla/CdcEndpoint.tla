---------------------------- MODULE CdcEndpoint ----------------------------
(***************************************************************************)
(* The two bulk ports of the CH552 composite device: A is the DATA port on *)
(* endpoint 2, B the CMD port on endpoint 3 (ch55xduino/src/usb/USBCDC.c). *)
(* The USB interrupt and the loop share each port's counters.  An          *)
(* interrupt handler is one step; a call of the loop is cut into steps     *)
(* where the interrupt can fall between a load and its store.              *)
(***************************************************************************)
EXTENDS Integers, Sequences, SequencesExt

CONSTANTS
    Pkt,        \* CDC_DATA_PKT, bytes of a packet
    Wrap,       \* values of a counter; 256 in the code
    Bytes,      \* what the bytes of the host's packets are
    Garbage     \* what memory behind a packet reads as

ASSUME EndpointAssumption == Pkt \in Nat \ {0} /\ Wrap \in Nat /\ Wrap > Pkt

VARIABLES
    ep,      \* per port: counters, flags and the endpoint's two response codes
    op,      \* the call of USBCDC.c the loop is in, with what it has loaded
    due,     \* history: per port, bytes acknowledged to the host and not yet read
    owed,    \* history: per port, bytes the loop wrote and the host has not got
    torn     \* history: per port, what an interrupt has cut: "out", "in"

usbVars == <<ep, op, due, owed, torn>>

Ports == {"A", "B"}
Idle == [at |-> "idle"]

Fresh == [count |-> 0, point |-> 0, out |-> <<>>, rx |-> "ack", tog |-> 0,
          in |-> <<>>, wp |-> 0, tlen |-> 0, tx |-> "nak", busy |-> FALSE, dtr |-> FALSE]

\* The device after enumeration, with the ports in open opened by the host.
UsbInit(open) ==
    /\ ep = [p \in Ports |-> [Fresh EXCEPT !.dtr = p \in open]]
    /\ op = Idle
    /\ due = [p \in Ports |-> <<>>]
    /\ owed = [p \in Ports |-> <<>>]
    /\ torn = [p \in Ports |-> {}]

Reading(p) == op.at \in {"fetched", "loaded"} /\ op.p = p
Arming(p) == op.at = "arming" /\ op.p = p
\* The flush masks transfer interrupts, of every endpoint, while it arms one.
Transfers == op.at # "arming"

----------------------------------------------------------------------------
(* The interrupt: OUT and IN transfers, bus reset, CLEAR_FEATURE.          *)

\* Mutant: a repeated packet is taken as new.
NoToggle(p, tog) == TRUE
\* The host repeats a packet whose acknowledgement it missed, with the same toggle.
TogOK(p, tog) == ep[p].tog = tog

EpOut(p, data, tog) ==
    /\ Transfers
    /\ ep[p].rx = "ack"
    /\ IF TogOK(p, tog)
       THEN /\ ep' = [ep EXCEPT ![p].count = Len(data), ![p].point = 0, ![p].out = data,
                                ![p].rx = IF data = <<>> THEN @ ELSE "nak",
                                ![p].tog = 1 - @]
            /\ due' = [due EXCEPT ![p] = IF tog = ep[p].tog THEN @ \o data ELSE @]
       ELSE UNCHANGED <<ep, due>>
    /\ UNCHANGED <<op, owed, torn>>

Sent(p) == SubSeq(ep[p].in, 1, ep[p].tlen)

EpIn(p) ==
    /\ Transfers
    /\ ep[p].tx = "ack"
    /\ ep' = [ep EXCEPT ![p].tlen = 0, ![p].tx = "nak", ![p].busy = FALSE]
    /\ owed' = [owed EXCEPT ![p] = SubSeq(@, Len(Sent(p)) + 1, Len(@))]
    /\ UNCHANGED <<op, due, torn>>

\* resetCDCParameters and the endpoint codes; the write pointer and DTR stay.
AfterReset(e) ==
    [e EXCEPT !.count = 0, !.busy = FALSE, !.rx = "ack", !.tx = "nak", !.tog = 0]

BusReset ==
    /\ ep' = [p \in Ports |-> AfterReset(ep[p])]
    /\ due' = [p \in Ports |-> <<>>]
    /\ owed' = [p \in Ports |-> IF ep[p].busy THEN <<>> ELSE owed[p]]
    /\ torn' = [p \in Ports |-> (IF Reading(p) THEN {"out"} ELSE {})
                                \cup (IF Arming(p) THEN {"in"} ELSE {})]
    /\ UNCHANGED op

\* CLEAR_FEATURE(ENDPOINT_HALT): the codes and the toggle, but neither count nor busy.
ClearHaltOut(p) ==
    /\ ep' = [ep EXCEPT ![p].rx = "ack", ![p].tog = 0]
    /\ torn' = [torn EXCEPT ![p] = @ \cup (IF Reading(p) \/ ep[p].count > 0 THEN {"out"} ELSE {})]
    /\ UNCHANGED <<op, due, owed>>

ClearHaltIn(p) ==
    /\ ep' = [ep EXCEPT ![p].tx = "nak"]
    /\ torn' = [torn EXCEPT ![p] = @ \cup (IF ep[p].busy THEN {"in"} ELSE {})]
    /\ UNCHANGED <<op, due, owed>>

----------------------------------------------------------------------------
(* The loop's calls.                                                       *)

Available(p) == ep[p].count > 0
ByteAt(p, i) == IF i < Len(ep[p].out) THEN ep[p].out[i + 1] ELSE Garbage

\* CdcX_read: the byte and the pointer, then the count, each loaded and stored.
Fetch(p) ==
    /\ op = Idle /\ Available(p)
    /\ op' = [at |-> "fetched", p |-> p, d |-> ByteAt(p, ep[p].point), pt |-> ep[p].point]
    /\ UNCHANGED <<ep, due, owed, torn>>

Bump(p) ==
    /\ op.at = "fetched" /\ op.p = p
    /\ ep' = [ep EXCEPT ![p].point = (op.pt + 1) % Wrap]
    /\ op' = [at |-> "loaded", p |-> p, d |-> op.d, c |-> ep[p].count]
    /\ UNCHANGED <<due, owed, torn>>

LastByte(c) == c = 0

Store(p) ==
    LET c == (op.c + Wrap - 1) % Wrap
    IN  /\ op.at = "loaded" /\ op.p = p
        /\ ep' = [ep EXCEPT ![p].count = c, ![p].rx = IF LastByte(c) THEN "ack" ELSE @]
        /\ due' = [due EXCEPT ![p] = IF @ = <<>> THEN @ ELSE Tail(@)]
        /\ op' = Idle
        /\ UNCHANGED <<owed, torn>>

\* Mutant: a byte is put while the last packet still waits for the host.
Hasty(p) == TRUE
NotBusy(p) == ~ep[p].busy

\* CdcX_write of one byte once the last packet has gone.
Put(p, b) ==
    /\ op = Idle /\ ep[p].dtr /\ NotBusy(p) /\ ep[p].wp < Pkt
    /\ ep' = [ep EXCEPT ![p].in = Append(SubSeq(@, 1, ep[p].wp), b)
                                  \o SubSeq(@, ep[p].wp + 2, Len(@)),
                        ![p].wp = @ + 1]
    /\ owed' = [owed EXCEPT ![p] = Append(@, b)]
    /\ UNCHANGED <<op, due, torn>>

Full(p) == ep[p].wp = Pkt

\* Mutant: the write waits for the host without end.
NoTimeout(p) == FALSE
\* After 50000 polls the write returns without the byte.
TimedOut(p) == ep[p].busy

\* CdcX_flush: the endpoint is armed, and only then the flag is set.
FlushDue(p) == ~ep[p].busy /\ ep[p].wp > 0
Arm(p) ==
    /\ op = Idle /\ FlushDue(p)
    /\ ep' = [ep EXCEPT ![p].tlen = ep[p].wp, ![p].tx = "ack"]
    /\ op' = [at |-> "arming", p |-> p]
    /\ UNCHANGED <<due, owed, torn>>

Rewound(wp) == 0

SetBusy(p) ==
    /\ op.at = "arming" /\ op.p = p
    /\ ep' = [ep EXCEPT ![p].busy = TRUE, ![p].wp = Rewound(@)]
    /\ op' = Idle
    /\ UNCHANGED <<due, owed, torn>>

SetDtr(p, on) ==
    /\ ep' = [ep EXCEPT ![p].dtr = on]
    /\ UNCHANGED <<op, due, owed, torn>>

----------------------------------------------------------------------------
(* Properties.                                                             *)

Unread(p) ==
    IF ep[p].count > 0 /\ ep[p].point + ep[p].count > Len(ep[p].out) THEN <<Garbage>>
    ELSE SubSeq(ep[p].out, ep[p].point + 1, ep[p].point + ep[p].count)
Waiting(p) == SubSeq(ep[p].in, 1, IF ep[p].busy THEN ep[p].tlen ELSE ep[p].wp)

\* What the loop will read next from a port is exactly what the host was told
\* had arrived and the loop has not read: the count never runs below zero, no
\* packet overwrites an unread one, and no repeated packet is read twice.  The
\* exceptions are a read that a bus reset fell into, and a halt cleared while
\* bytes were unread.
OutExact == \A p \in Ports :
    ("out" \notin torn[p] /\ ~Reading(p)) => Unread(p) = due[p]

\* What the host has still to get from a port is what the loop wrote, in
\* order, with nothing overwritten, doubled or dropped, other than the packet a
\* reset took off the bus.  After a reset that fell into a flush, or a halt cleared
\* with a packet on its way, the port owes bytes it does not send, until a reset.
InExact == \A p \in Ports :
    ("in" \notin torn[p] /\ ~Arming(p)) => Waiting(p) = owed[p]

=============================================================================
