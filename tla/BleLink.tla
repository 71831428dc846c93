------------------------------- MODULE BleLink --------------------------------
(***************************************************************************)
(* The BLE link of the Arduino build (platforms/espressif/src/duta_ble.h): *)
(* answers and console bytes wait in two rings until the main loop         *)
(* notifies them to the central.                                           *)
(*                                                                         *)
(* Two tasks share the rings without a lock.  The loop polls the target    *)
(* console, which fills the data ring, and drains both.  The Bluetooth     *)
(* task runs the callbacks: a command is dispatched, and answered, in      *)
(* onWrite, a macro polls the console while it waits, and a disconnect     *)
(* empties the rings.  A push and a drain are steps of their own wherever  *)
(* the other task can come in between.                                     *)
(*                                                                         *)
(* The bytes given to a ring are numbered.                                 *)
(***************************************************************************)
EXTENDS Naturals, Sequences, FiniteSets

CONSTANTS
  N,         \* size of a ring (1024, 768)
  Chunk,     \* most bytes of a notification
  Passes,    \* notifications of a drain (8)
  MaxBytes,  \* bound: bytes given to the rings
  MaxConns   \* bound: connections

\* What the constants are; the module that instantiates this one assumes it.
BleAssumption ==
  /\ N \in Nat /\ N > 1 /\ Chunk \in Nat \ {0} /\ Passes \in Nat \ {0}
  /\ MaxBytes \in Nat /\ MaxConns \in Nat

VARIABLES
  connected,   \* g_connected
  buf, head, tail, \* g_cmd_q, g_data_q
  loop,        \* where the loop is: in the poll, or in a drain
  bt,          \* what the Bluetooth task does
  push,        \* for each task, its unfinished push
  tmp,         \* what the drain has copied
  pass,
  made,        \* bytes given to each ring
  sent,        \* history: the bytes notified, in order
  gone,        \* history: the bytes that found no room or were reset
  raced,       \* history: a ring was reset while the drain held bytes of it
  shared,      \* history: both tasks were in a push to one ring
  conns

ringVars == <<buf, head, tail>>
vars == <<connected, ringVars, loop, bt, push, tmp, pass, made, sent, gone, raced,
          shared, conns>>

Rings == {"cmd", "data"}
Tasks == {"loop", "bt"}
Slots == 0..N-1
None  == [ring |-> "none"]

Init ==
  /\ connected = FALSE
  /\ buf = [q \in Rings |-> [i \in Slots |-> 0]]
  /\ head = [q \in Rings |-> 0] /\ tail = [q \in Rings |-> 0]
  /\ loop = <<"poll">> /\ bt = "idle" /\ push = [t \in Tasks |-> None]
  /\ tmp = <<>> /\ pass = 0
  /\ made = [q \in Rings |-> 0] /\ sent = [q \in Rings |-> <<>>]
  /\ gone = [q \in Rings |-> {}] /\ raced = {} /\ shared = FALSE /\ conns = 0

-----------------------------------------------------------------------------
(* Ring                                                                    *)

After(i, n) == (i + n) % N
Length(q)   == (head[q] + N - tail[q]) % N

\* "full: bounded drop of the tail"
Full(q) == After(head[q], 1) = tail[q]

\* push: the byte is stored, and then the head moves.
PushBegin(t, q) ==
  /\ push[t] = None /\ made["cmd"] + made["data"] < MaxBytes
  /\ made' = [made EXCEPT ![q] = @ + 1]
  /\ IF Full(q)
     THEN gone' = [gone EXCEPT ![q] = @ \union {made[q] + 1}] /\ UNCHANGED <<buf, push>>
     ELSE /\ buf' = [buf EXCEPT ![q][head[q]] = made[q] + 1]
          /\ push' = [push EXCEPT ![t] = [ring |-> q, next |-> After(head[q], 1)]]
          /\ UNCHANGED gone
  /\ shared' = (shared \/ \E u \in Tasks \ {t} : push[u].ring = q)
  /\ UNCHANGED <<connected, head, tail, loop, bt, tmp, pass, sent, raced, conns>>

PushEnd(t) ==
  /\ push[t] # None
  /\ head' = [head EXCEPT ![push[t].ring] = push[t].next]
  /\ push' = [push EXCEPT ![t] = None]
  /\ UNCHANGED <<connected, buf, tail, loop, bt, tmp, pass, made, sent, gone, raced,
                 shared, conns>>

Waiting(q) == {buf[q][After(tail[q], i)] : i \in 0..(Length(q) - 1)}

-----------------------------------------------------------------------------
(* The Bluetooth task                                                      *)

BtSame == UNCHANGED <<buf, head, loop, push, tmp, pass, made, sent, shared>>

OnConnect ==
  /\ bt = "idle" /\ ~connected /\ conns < MaxConns
  /\ connected' = TRUE /\ conns' = conns + 1
  /\ BtSame /\ UNCHANGED <<tail, bt, gone, raced>>

OnDisconnect ==
  /\ bt = "idle" /\ connected
  /\ connected' = FALSE /\ bt' = "reset"
  /\ BtSame /\ UNCHANGED <<tail, gone, raced, conns>>

Drains(q) == loop \in {<<"notify", q>>, <<"free", q>>}

Reset ==
  /\ bt = "reset" /\ bt' = "idle"
  /\ tail' = head
  /\ gone' = [q \in Rings |-> gone[q] \union Waiting(q)]
  /\ raced' = raced \union {q \in Rings : Drains(q)}
  /\ BtSame /\ UNCHANGED <<connected, conns>>

\* CmdRxCb::onWrite: the answers of the commands go to the ring; a macro that
\* waits polls the console.  (Writes of the central to the console only reach the
\* target.)
OnWrite(act) ==
  /\ bt = "idle" /\ connected /\ bt' = act
  /\ BtSame /\ UNCHANGED <<connected, tail, gone, raced, conns>>

Answer == bt = "answer" /\ PushBegin("bt", "cmd")
Wait   == bt = "macro" /\ PushBegin("bt", "data")

Written ==
  /\ bt \in {"answer", "macro"} /\ push["bt"] = None /\ bt' = "idle"
  /\ BtSame /\ UNCHANGED <<connected, tail, gone, raced, conns>>

-----------------------------------------------------------------------------
(* The loop                                                                *)

LoopSame == UNCHANGED <<connected, buf, head, bt, push, made, raced, shared, conns>>

\* skrit_dev_poll: console_out, host_write, data_notify.
Poll == loop = <<"poll">> /\ PushBegin("loop", "data")

EnterDrain(q, at) ==
  /\ loop = at /\ push["loop"] = None
  /\ loop' = IF connected THEN <<"copy", q>> ELSE <<"over", q>>
  /\ pass' = 0
  /\ LoopSame /\ UNCHANGED <<tail, tmp, sent, gone>>

\* Mutant: a notification waits until it is full.
LazyCopies(q) == pass < Passes /\ Length(q) >= Chunk

\* The condition of the loop of drain.
Copies(q) == pass < Passes /\ Length(q) > 0

Copied(q) == LET n == IF Length(q) < Chunk THEN Length(q) ELSE Chunk
             IN  [i \in 1..n |-> buf[q][After(tail[q], i - 1)]]

DrainCopy(q) ==
  /\ loop = <<"copy", q>>
  /\ IF Copies(q) THEN loop' = <<"notify", q>> /\ tmp' = Copied(q)
                  ELSE loop' = <<"over", q>> /\ UNCHANGED tmp
  /\ LoopSame /\ UNCHANGED <<tail, pass, sent, gone>>

\* A notification without a connection goes nowhere.
DrainNotify(q) ==
  /\ loop = <<"notify", q>> /\ loop' = <<"free", q>>
  /\ IF connected
     THEN sent' = [sent EXCEPT ![q] = @ \o tmp] /\ UNCHANGED gone
     ELSE /\ gone' = [gone EXCEPT ![q] = @ \union {tmp[i] : i \in DOMAIN tmp}]
          /\ UNCHANGED sent
  /\ LoopSame /\ UNCHANGED <<tail, tmp, pass>>

\* Mutant: all that waited is freed.
FreeAll(q) == tail' = [tail EXCEPT ![q] = head[q]]

Free(q) == tail' = [tail EXCEPT ![q] = After(@, Len(tmp))]

DrainFree(q) ==
  /\ loop = <<"free", q>> /\ loop' = <<"copy", q>>
  /\ Free(q) /\ pass' = pass + 1 /\ tmp' = <<>>
  /\ LoopSame /\ UNCHANGED <<sent, gone>>

LoopEnd ==
  /\ loop = <<"over", "data">> /\ loop' = <<"poll">>
  /\ LoopSame /\ UNCHANGED <<tail, tmp, pass, sent, gone>>

\* duta_ble::loop: the answers before the console.
Drain == \/ EnterDrain("cmd", <<"poll">>) \/ EnterDrain("data", <<"over", "cmd">>)
         \/ \E q \in Rings : DrainCopy(q) \/ DrainNotify(q) \/ DrainFree(q)
         \/ LoopEnd \/ PushEnd("loop")

Callback == OnConnect \/ OnDisconnect \/ Reset \/ Answer \/ Wait \/ Written
            \/ PushEnd("bt") \/ \E act \in {"answer", "macro"} : OnWrite(act)

Next == Poll \/ Drain \/ Callback

Spec == Init /\ [][Next]_vars

\* The loop runs, and a callback that began ends.
LiveSpec == Spec /\ WF_vars(Drain) /\ WF_vars(Reset \/ Written \/ PushEnd("bt"))

-----------------------------------------------------------------------------
(* Properties                                                              *)

\* The rings are used as they are meant to: one task at a time pushes, and no
\* reset comes while the drain has bytes of the ring.  The code keeps to neither:
\* a macro polls the console in the other task, and onDisconnect comes when it
\* comes, after which the drain moves the tail past the head.
Undisturbed(q) == q \notin raced /\ ~shared

\* Whatever the two tasks interleave, the central gets the bytes of a ring in
\* order and none twice, over all its connections; missing are only bytes that
\* found the ring full or were waiting at a disconnect.
NotifiedOnce ==
  \A q \in Rings : Undisturbed(q) =>
    LET s == sent[q] IN
    /\ \A i, j \in DOMAIN s : i < j => s[i] < s[j]
    /\ s # <<>> => \A n \in 1..s[Len(s)] :
         n \in gone[q] \/ \E i \in DOMAIN s : s[i] = n

\* "keep the controller fed": every byte given to a ring is notified while the
\* connection lasts, however few there are.
Notified ==
  \A q \in Rings :
    connected
      ~> (\/ ~connected \/ ~Undisturbed(q)
          \/ \A n \in 1..made[q] : n \in gone[q] \/ \E i \in DOMAIN sent[q] : sent[q][i] = n)
=============================================================================
