------------------------------- MODULE ZephyrIO -------------------------------
(***************************************************************************)
(* The threads and the transport of the Zephyr build                       *)
(* (platforms/zephyr/src/main.c).  Every call into the core is made under  *)
(* dev_mtx.  A build has one of two transports:                            *)
(*                                                                         *)
(* USB: an interrupt stores the host's bytes in cmd_rx_rb and wakes        *)
(* cmd_rx_thread; that thread, main, which polls the target console, and   *)
(* sniff_thread all write frames to one port out of one framing buffer.    *)
(*                                                                         *)
(* BLE: the callbacks run in the stack's thread, answers and console bytes *)
(* wait in two rings, and main notifies them after every poll, without the *)
(* lock.                                                                   *)
(*                                                                         *)
(* A command is one byte with one answer; what is written is numbered.     *)
(***************************************************************************)
EXTENDS Naturals, Sequences

CONSTANTS
  TxCap,     \* size of cmd_tx_rb, data_tx_rb
  RxCap,     \* size of cmd_rx_rb
  Chunk,     \* most bytes of a read of cmd_rx_rb, or of a notification
  MaxIn,     \* bound: commands of the host
  MaxOut,    \* bound: console bytes, captured records and their frames
  MaxConns,  \* bound: BLE connections
  MaxFails   \* bound: notifications that a full controller refuses

ASSUME ZephyrAssumption ==
  /\ TxCap \in Nat \ {0} /\ RxCap \in Nat \ {0} /\ Chunk \in Nat \ {0}
  /\ MaxIn \in Nat /\ MaxOut \in Nat /\ MaxConns \in Nat /\ MaxFails \in Nat

VARIABLES
  transport, \* "usb" or "ble"
  lock,      \* the thread that holds dev_mtx, or "none"
  at,        \* where each thread is
  came,      \* commands the host sent
  rx, sem,   \* cmd_rx_rb and cmd_rx_sem
  batch,     \* cmd_rx_thread: buf
  out,       \* console bytes, records and their frames so far
  scratch,   \* send_buf, send_cobs: the frame in them
  wire,      \* history: the halves given to the USB port since its last whole frame
  stored,    \* history: the commands that found room in cmd_rx_rb
  fed,       \* history: the commands given to the core
  conn, sub, \* ble_conn; cmd_subscribed, data_subscribed
  rb,        \* cmd_tx_rb, data_tx_rb
  pipe, tmp, \* txq_drain: the ring, and what it peeked
  made,      \* bytes given to each ring
  sent,      \* history: bytes notified, in order
  gone,      \* history: bytes that found no room or were discarded
  conns, fails

coreVars == <<transport, lock, at>>
usbVars  == <<rx, sem, batch, scratch, wire, stored, fed>>
radioVars == <<conn, sub, conns>>
ringVars == <<rb, made, gone>>
drainVars == <<pipe, tmp, sent, fails>>
bleVars  == <<radioVars, ringVars, drainVars>>
vars == <<coreVars, came, out, usbVars, bleVars>>

Threads == {"main", "cmd", "sniff"}
Pipes   == {"cmd", "data"}

Init ==
  /\ transport \in {"usb", "ble"} /\ lock = "none"
  /\ at = [t \in Threads |-> "idle"]
  /\ came = 0 /\ out = 0
  /\ rx = <<>> /\ sem = 0 /\ batch = <<>> /\ scratch = <<"none", 0>>
  /\ wire = <<>> /\ stored = <<>> /\ fed = <<>>
  /\ conn = FALSE /\ sub = [q \in Pipes |-> FALSE] /\ conns = 0
  /\ rb = [q \in Pipes |-> <<>>] /\ made = [q \in Pipes |-> 0]
  /\ gone = [q \in Pipes |-> {}]
  /\ pipe = "cmd" /\ tmp = <<>> /\ sent = [q \in Pipes |-> <<>>]
  /\ fails = 0

Goes(t, place) == at' = [at EXCEPT ![t] = place]

\* ring_buf_put: what finds no room is dropped, the tail first.
Put(ring, s, cap) == SubSeq(ring \o s, 1, IF Len(ring \o s) < cap THEN Len(ring \o s) ELSE cap)

First(s) == SubSeq(s, 1, IF Len(s) < Chunk THEN Len(s) ELSE Chunk)
Rest(s, n) == SubSeq(s, n + 1, Len(s))

-----------------------------------------------------------------------------
(* dev_mtx                                                                 *)

\* Mutant: sniff_thread feeds the core without the lock.
OpenToSniff(t) == t = "sniff" \/ lock = "none"

Free(t) == lock = "none"

\* DEV_LOCK, when no other thread has the mutex.
Lock(t) ==
  /\ at[t] = "lock" /\ Free(t)
  /\ lock' = t /\ Goes(t, "core")
  /\ UNCHANGED <<transport, came, out, usbVars, bleVars>>

\* After its commands cmd_rx_thread reads on, main drains the rings if it has them.
After(t) == CASE t = "cmd" /\ transport = "usb"  -> "get"
              [] t = "main" /\ transport = "ble" -> "begin"
              [] OTHER -> "idle"

\* DEV_UNLOCK: k_mutex_unlock hands the mutex to a thread that waits for it.
Unlock(t) ==
  /\ at[t] = "core" /\ (t = "cmd" => batch = <<>>)
  /\ IF \E u \in Threads : at[u] = "lock"
     THEN \E u \in Threads : /\ at[u] = "lock" /\ lock' = u
                             /\ at' = [at EXCEPT ![t] = After(t), ![u] = "core"]
     ELSE lock' = "none" /\ Goes(t, After(t))
  /\ pipe' = IF t = "main" THEN "cmd" ELSE pipe
  /\ UNCHANGED <<transport, came, out, usbVars, radioVars, ringVars, tmp, sent, fails>>

\* main: a poll every millisecond; in the sniffer build, while uart_fwd.
MainWakes ==
  /\ at["main"] = "idle" /\ Goes("main", "lock")
  /\ UNCHANGED <<transport, lock, came, out, usbVars, bleVars>>

-----------------------------------------------------------------------------
(* USB                                                                     *)

UsbSame == UNCHANGED <<transport, bleVars>>

\* cmd_uart_isr
Isr(n) ==
  /\ transport = "usb" /\ came + n <= MaxIn /\ came' = came + n
  /\ LET new == [i \in 1..n |-> came + i] IN
     /\ rx' = Put(rx, new, RxCap)
     /\ stored' = stored \o Rest(rx', Len(rx))
  /\ sem' = 1
  /\ UsbSame /\ UNCHANGED <<lock, at, out, batch, scratch, wire, fed>>

\* k_sem_take
CmdWakes ==
  /\ transport = "usb" /\ at["cmd"] = "idle" /\ sem = 1
  /\ sem' = 0 /\ Goes("cmd", "get")
  /\ UsbSame /\ UNCHANGED <<lock, came, out, rx, batch, scratch, wire, stored, fed>>

\* Mutant: one read for every wake.
GetOnce ==
  /\ at["cmd"] = "get"
  /\ batch' = First(rx) /\ rx' = Rest(rx, Len(batch'))
  /\ Goes("cmd", IF rx # <<>> /\ sem = 0 THEN "lock" ELSE "idle")
  /\ UsbSame /\ UNCHANGED <<lock, came, out, sem, scratch, wire, stored, fed>>

\* ring_buf_get, until the ring is empty
CmdGet ==
  /\ at["cmd"] = "get"
  /\ batch' = First(rx) /\ rx' = Rest(rx, Len(batch'))
  /\ Goes("cmd", IF rx = <<>> THEN "idle" ELSE "lock")
  /\ UsbSame /\ UNCHANGED <<lock, came, out, sem, scratch, wire, stored, fed>>

\* skrit_dev_rx: a command, and its answer.
Dispatch ==
  /\ transport = "usb" /\ at["cmd"] = "core" /\ batch # <<>>
  /\ fed' = Append(fed, Head(batch)) /\ batch' = Tail(batch)
  /\ scratch' = <<"answer", Head(batch)>> /\ Goes("cmd", "open")
  /\ UsbSame /\ UNCHANGED <<lock, came, out, rx, sem, wire, stored>>

\* skrit_dev_poll, in main or in a command that waits; skrit_dev_feed_source.
SendData(t) ==
  /\ transport = "usb" /\ at[t] = "core" /\ out < MaxOut
  /\ t = "cmd" => batch # <<>>
  /\ out' = out + 1 /\ scratch' = <<t, out + 1>> /\ Goes(t, "open")
  /\ UsbSame /\ UNCHANGED <<lock, came, rx, sem, batch, wire, stored, fed>>

\* hal_link_write, a byte at a time out of send_cobs.
Write(t) ==
  /\ at[t] \in {"open", "close"}
  /\ LET half == [frame |-> scratch, is |-> at[t]] IN
     wire' = IF wire = <<>> \/ wire[Len(wire)] # [half EXCEPT !.is = "open"]
             THEN Append(wire, half) ELSE <<>>
  /\ Goes(t, IF at[t] = "open" THEN "close" ELSE "core")
  /\ UsbSame /\ UNCHANGED <<lock, came, out, rx, sem, batch, scratch, stored, fed>>

\* sniff_thread has taken a record.
SniffWakes ==
  /\ transport = "usb" /\ at["sniff"] = "idle" /\ out < MaxOut
  /\ out' = out + 1 /\ Goes("sniff", "lock")
  /\ UsbSame /\ UNCHANGED <<lock, came, usbVars>>

-----------------------------------------------------------------------------
(* BLE: the callbacks                                                      *)

BleSame == UNCHANGED <<transport, usbVars>>

Connected ==
  /\ transport = "ble" /\ ~conn /\ conns < MaxConns
  /\ conn' = TRUE /\ conns' = conns + 1
  /\ BleSame /\ UNCHANGED <<lock, at, came, out, sub, ringVars, drainVars>>

Disconnected ==
  /\ conn /\ conn' = FALSE /\ sub' = [q \in Pipes |-> FALSE]
  /\ BleSame /\ UNCHANGED <<lock, at, came, out, conns, ringVars, drainVars>>

\* cmd_ccc_changed, data_ccc_changed; a bonded central need not write it again.
Subscribe(q, on) ==
  /\ conn /\ sub[q] # on /\ sub' = [sub EXCEPT ![q] = on]
  /\ BleSame /\ UNCHANGED <<lock, at, came, out, conn, conns, ringVars, drainVars>>

\* cmd_rx
CmdWrite ==
  /\ transport = "ble" /\ conn /\ at["cmd"] = "idle" /\ out < MaxOut
  /\ Goes("cmd", "lock")
  /\ BleSame /\ UNCHANGED <<lock, came, out, bleVars>>

\* txq_push
Push(q, n) ==
  LET new == [i \in 1..n |-> made[q] + i]  full == Put(rb[q], new, TxCap) IN
  /\ rb' = [rb EXCEPT ![q] = full]
  /\ made' = [made EXCEPT ![q] = @ + n]
  /\ gone' = [gone EXCEPT ![q] = @ \union {new[i] : i \in (Len(full) - Len(rb[q]) + 1)..n}]

\* hal_link_write and ble_data_notify: the answer of a command; the console, in
\* main's poll or while the command waits.
Emit(t, q) ==
  /\ transport = "ble" /\ at[t] = "core" /\ out < MaxOut /\ out' = out + 1
  /\ t = "main" => q = "data"
  /\ \E n \in 1..2 : Push(q, n)
  /\ BleSame /\ UNCHANGED <<lock, at, came, radioVars, drainVars>>

-----------------------------------------------------------------------------
(* BLE: ble_tx_drain in main                                               *)

DrainSame == UNCHANGED <<transport, lock, came, out, usbVars, radioVars, made>>

\* The console's ring after that of the answers.
NextPipe == /\ pipe' = "data"
            /\ Goes("main", IF pipe = "cmd" THEN "begin" ELSE "idle")

DrainBegin ==
  /\ at["main"] = "begin"
  /\ IF conn /\ sub[pipe]
     THEN Goes("main", "peek") /\ UNCHANGED <<pipe, rb, gone>>
     ELSE /\ NextPipe
          /\ IF conn THEN /\ rb' = [rb EXCEPT ![pipe] = <<>>]
                          /\ gone' = [gone EXCEPT ![pipe] =
                                        @ \union {rb[pipe][i] : i \in DOMAIN rb[pipe]}]
                     ELSE UNCHANGED <<rb, gone>>
  /\ DrainSame /\ UNCHANGED <<tmp, sent, fails>>

DrainPeek ==
  /\ at["main"] = "peek" /\ tmp' = First(rb[pipe])
  /\ IF tmp' = <<>> THEN NextPipe ELSE Goes("main", "notify") /\ UNCHANGED pipe
  /\ DrainSame /\ UNCHANGED <<rb, gone, sent, fails>>

\* bt_gatt_notify checks the connection and the subscription itself.
Notify ==
  /\ at["main"] = "notify" /\ conn /\ sub[pipe]
  /\ sent' = [sent EXCEPT ![pipe] = @ \o tmp] /\ Goes("main", "get")
  /\ DrainSame /\ UNCHANGED <<pipe, tmp, rb, gone, fails>>

\* Mutant: "the old path dropped those bytes".
NotifyDrops ==
  /\ at["main"] = "notify" /\ Goes("main", "get")
  /\ DrainSame /\ UNCHANGED <<pipe, tmp, rb, gone, sent, fails>>

\* No connection, no subscription, or a full controller: "leave queued, retry".
NotifyFails ==
  /\ at["main"] = "notify" /\ NextPipe
  /\ IF conn /\ sub[pipe] THEN fails < MaxFails /\ fails' = fails + 1 ELSE UNCHANGED fails
  /\ DrainSame /\ UNCHANGED <<tmp, rb, gone, sent>>

DrainGet ==
  /\ at["main"] = "get" /\ Goes("main", "peek")
  /\ rb' = [rb EXCEPT ![pipe] = Rest(@, Len(tmp))]
  /\ DrainSame /\ UNCHANGED <<pipe, tmp, gone, sent, fails>>

Drain == DrainBegin \/ DrainPeek \/ NotifyFails \/ DrainGet

-----------------------------------------------------------------------------

Usb == \/ \E n \in 1..2 : Isr(n)
       \/ CmdWakes \/ CmdGet \/ Dispatch \/ SniffWakes
       \/ \E t \in Threads : SendData(t) \/ Write(t)

Ble == \/ Connected \/ Disconnected \/ CmdWrite \/ Drain \/ Notify
       \/ \E q \in Pipes : \/ \E on \in BOOLEAN : Subscribe(q, on)
                           \/ \E t \in {"main", "cmd"} : Emit(t, q)

Next == MainWakes \/ (\E t \in Threads : Lock(t) \/ Unlock(t)) \/ Usb \/ Ble

Spec == Init /\ [][Next]_vars

\* What a thread does by itself, once awake.
Runs(t) == Lock(t) \/ Unlock(t) \/ Write(t)
           \/ (t = "cmd" /\ (CmdWakes \/ CmdGet \/ Dispatch))
           \/ (t = "main" /\ (MainWakes \/ Drain \/ Notify))

\* The threads run.
LiveSpec == Spec /\ \A t \in Threads : WF_vars(Runs(t))

-----------------------------------------------------------------------------
(* Properties                                                              *)

\* "Contract: sends to one dev are serialized (every platform already does)":
\* three threads write to the port out of one buffer, and every frame leaves it
\* whole, as it was put there.
FramesWhole == wire = <<>> \/ (Len(wire) = 1 /\ wire[1].is = "open")

\* A command that found room in cmd_rx_rb is executed, in its turn, though the
\* semaphore counts to one and is given while the thread is still at work.
CommandsServed ==
  \A n \in 1..MaxIn :
    (Len(stored) >= n) ~> (Len(fed) >= n /\ fed[n] = stored[n])

\* "no lost console/CMD bytes under burst": whatever fails or disconnects, bytes
\* are notified in order and once; missing are only those that found the ring
\* full or nobody subscribed.
NotifiedOnce ==
  \A q \in Pipes :
    LET s == sent[q] IN
    /\ \A i, j \in DOMAIN s : i < j => s[i] < s[j]
    /\ s # <<>> => \A n \in 1..s[Len(s)] :
         n \in gone[q] \/ \E i \in DOMAIN s : s[i] = n

\* What is queued is notified while the central stays and is subscribed, also
\* after a command that kept main from draining.
Notified ==
  \A q \in Pipes :
    (conn /\ sub[q])
      ~> (\/ ~conn \/ ~sub[q]
          \/ \A n \in 1..made[q] : n \in gone[q] \/ \E i \in DOMAIN sent[q] : sent[q][i] = n)
=============================================================================
