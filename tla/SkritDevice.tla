----------------------------- MODULE SkritDevice -----------------------------
(***************************************************************************)
(* A Duta with several links, each with a skrit_dev of its own, on one set *)
(* of outputs, one stored password and one bridged target UART.  A command *)
(* frame that arrived whole goes through skrit__dispatch; console bytes    *)
(* are read once and teed to every link, except inside a command that      *)
(* waits, where skrit__wait polls the UART for its own link alone.         *)
(*                                                                         *)
(* Two builds run this core: the Arduino super-loop of                     *)
(* platforms/espressif/src/main.cpp (Threaded = FALSE) and the ESP-IDF     *)
(* tasks of main_idf.c (Threaded = TRUE), where usb_rx_task holds DEV_LOCK *)
(* around a command and bridge_task takes it only to tee.                  *)
(***************************************************************************)
EXTENDS Naturals, Sequences, FiniteSets

CONSTANTS
  Links,        \* the skrit_devs
  Networked,    \* those whose HAL says auth_required
  Bridger,      \* the link pumped by the task that bridges the UART
  Threaded,     \* one task per link, or one loop for all
  NOutputs,     \* hal.n_outputs
  Passwords,    \* passwords a host may send
  NoPassword,   \* an empty AUTH or AUTH_SET body
  Default,      \* SKRIT_DEFAULT_PASSWORD
  MaxBytes,     \* bound: console bytes the target sends
  MaxSessions,  \* bound: connections per link
  MaxCmds       \* bound: commands handled

ASSUME DeviceAssumption ==
  /\ Networked \subseteq Links /\ Bridger \in Links
  /\ Threaded \in BOOLEAN
  /\ NOutputs \in Nat /\ MaxBytes \in Nat /\ MaxSessions \in Nat
  /\ MaxCmds \in Nat
  /\ Default \in Passwords /\ NoPassword \notin Passwords

VARIABLES
  authed,    \* skrit_dev.authed
  forward,   \* skrit_dev.forward
  reply,     \* STATUS of the last response on each link
  pulse,     \* the OUT_PULSE a link is waiting in, if any
  out,       \* output levels
  pw,        \* the stored password
  arrived,   \* console bytes the target has sent, numbered 1, 2, ...
  unread,    \* those still in the UART driver
  held,      \* those bridge_task has read and not yet teed
  tee,       \* console bytes sent to the host of each link, in order
  session,   \* the connection a link is in
  cmds,      \* commands handled
  wanted,    \* history: the level each output was last commanded to
  proven,    \* history: connections that gave the right password
  served     \* history: connections that saw or changed anything

devVars  == <<authed, forward, reply>>
consVars == <<arrived, unread, held, tee>>
outVars  == <<out, wanted, pulse>>
authVars == <<pw, session, proven>>
vars     == <<devVars, consVars, outVars, authVars, served, cmds>>

Outputs == 0..(NOutputs - 1)
Levels  == {0, 1}
Status  == {"none", "OK", "BADARGS", "STORAGE", "UNAUTH", "UNSUPPORTED"}
NoPulse == [idx |-> NOutputs, prev |-> 0]

-----------------------------------------------------------------------------
(* The session                                                             *)

\* skrit__gated
Gated(l) == l \in Networked /\ ~authed[l]

Listening(l) == forward[l] /\ ~Gated(l)

\* skrit_dev_init, at power-up and after a reboot; the password persists and
\* the outputs fall back to off.
Init ==
  /\ authed = [l \in Links |-> FALSE] /\ forward = [l \in Links |-> TRUE]
  /\ reply = [l \in Links |-> "none"] /\ pulse = [l \in Links |-> NoPulse]
  /\ out = [i \in Outputs |-> 0] /\ wanted = [i \in Outputs |-> 0]
  /\ pw = Default /\ session = [l \in Links |-> 1]
  /\ arrived = 0 /\ unread = <<>> /\ held = <<>>
  /\ tee = [l \in Links |-> <<>>] /\ cmds = 0
  /\ proven = [l \in Links |-> {}] /\ served = [l \in Links |-> {}]

SameTask(l, m) == ~Threaded \/ l = m

\* Mutant: a command between the bridge's read and its tee.
FreeWhileHeld(l) == \A m \in Links : SameTask(l, m) => pulse[m] = NoPulse

\* The task that serves link l is not inside a command and not teeing.
Free(l) == /\ \A m \in Links : SameTask(l, m) => pulse[m] = NoPulse
           /\ SameTask(l, Bridger) => held = <<>>

\* Mutant: a takeover keeps the session of the host before.
ResetNothing(l) == UNCHANGED authed

\* skrit_dev_reset_auth
ResetAuth(l) == authed' = [authed EXCEPT ![l] = FALSE]

\* A host connects, taking the link over from the one before: ws_drop_client.
\* A USB host comes and goes without the device noticing.
Connect(l) ==
  /\ Free(l) /\ session[l] < MaxSessions
  /\ session' = [session EXCEPT ![l] = @ + 1]
  /\ IF l \in Networked THEN ResetAuth(l) ELSE UNCHANGED authed
  /\ UNCHANGED <<forward, reply, consVars, outVars, pw, proven, served, cmds>>

-----------------------------------------------------------------------------
(* Commands: skrit__dispatch                                               *)

Command(l) == Free(l) /\ cmds < MaxCmds /\ cmds' = cmds + 1

Reply(l, status) == reply' = [reply EXCEPT ![l] = status]

Serve(l) == served' = [served EXCEPT ![l] = @ \union {session[l]}]

\* The gate at the top of skrit__dispatch, for every type that is not PING,
\* INFO or AUTH.
Refuse(l) ==
  /\ Command(l) /\ Gated(l)
  /\ Reply(l, "UNAUTH")
  /\ UNCHANGED <<authed, forward, consVars, outVars, authVars, served>>

\* PING and INFO: for everybody.
Greet(l) ==
  /\ Command(l)
  /\ Reply(l, "OK")
  /\ UNCHANGED <<authed, forward, consVars, outVars, authVars, served>>

\* auth_check of the WiFi backends: compares with the stored password.  The USB
\* HAL has none, and a wrong password leaves authed as it was.
AuthCheck(l, p) == l \in Networked /\ p = pw

Auth(l, p) ==
  /\ Command(l)
  /\ IF AuthCheck(l, p)
     THEN authed' = [authed EXCEPT ![l] = TRUE] /\ Reply(l, "OK")
     ELSE UNCHANGED authed /\ Reply(l, "UNAUTH")
  /\ proven' = [proven EXCEPT ![l] = IF p = pw THEN @ \union {session[l]} ELSE @]
  /\ UNCHANGED <<forward, consVars, outVars, pw, session, served>>

\* The gate of the commands below.
Admitted(l) == Command(l) /\ ~Gated(l)

\* AUTH_SET: the store may fail, and say so only when it cannot be opened; other
\* sessions keep their authed flag.
AuthSet(l, p) ==
  /\ Admitted(l)
  /\ \/ l \notin Networked /\ Reply(l, "UNSUPPORTED") /\ UNCHANGED <<pw, served>>
     \/ l \in Networked /\ p = NoPassword
        /\ Reply(l, "BADARGS") /\ UNCHANGED <<pw, served>>
     \/ l \in Networked /\ p # NoPassword
        /\ pw' \in {p, pw} /\ Reply(l, "OK") /\ Serve(l)
     \/ l \in Networked /\ p # NoPassword
        /\ Reply(l, "STORAGE") /\ UNCHANGED <<pw, served>>
  /\ UNCHANGED <<authed, forward, consVars, outVars, session, proven>>

\* A handler that names no output of the table.
BadIndex(l) ==
  /\ Admitted(l)
  /\ Reply(l, "BADARGS")
  /\ UNCHANGED <<authed, forward, consVars, outVars, authVars, served>>

Drive(i, v) == out' = [out EXCEPT ![i] = v]

\* A description or a read-back.
Describe(l) ==
  /\ Admitted(l)
  /\ Reply(l, "OK") /\ Serve(l)
  /\ UNCHANGED <<authed, forward, consVars, outVars, authVars>>

\* PWM, RGB, signals, provisioning, settings, I2C and INVOKE: the handler hands
\* over to a hook of the HAL, whose state is no part of this module, or answers
\* that there is none.
HalCall(l) ==
  /\ Admitted(l)
  /\ \E status \in {"OK", "STORAGE"} : Reply(l, status) /\ Serve(l)
  /\ UNCHANGED <<authed, forward, consVars, outVars, authVars>>

NoHook(l) ==
  /\ Admitted(l)
  /\ Reply(l, "UNSUPPORTED")
  /\ UNCHANGED <<authed, forward, consVars, outVars, authVars, served>>

OutSet(l, i, v) ==
  /\ Admitted(l)
  /\ Drive(i, v) /\ wanted' = [wanted EXCEPT ![i] = v]
  /\ Reply(l, "OK") /\ Serve(l)
  /\ UNCHANGED <<authed, forward, consVars, pulse, authVars>>

OutToggle(l, i) ==
  /\ Admitted(l)
  /\ Drive(i, 1 - out[i]) /\ wanted' = [wanted EXCEPT ![i] = 1 - out[i]]
  /\ Reply(l, "OK") /\ Serve(l)
  /\ UNCHANGED <<authed, forward, consVars, pulse, authVars>>

\* OUT_PULSE: drive the opposite level, answer, then wait with the task.
OutPulse(l, i) ==
  /\ Admitted(l)
  /\ pulse' = [pulse EXCEPT ![l] = [idx |-> i, prev |-> out[i]]]
  /\ Drive(i, 1 - out[i])
  /\ Reply(l, "OK") /\ Serve(l)
  /\ UNCHANGED <<authed, forward, consVars, wanted, authVars>>

\* Mutant: a pulse always ends low.
RestoreLow(l) == Drive(pulse[l].idx, 0)

\* The end of the wait: the level read before it is written back.
Restore(l) == Drive(pulse[l].idx, pulse[l].prev)

PulseEnd(l) ==
  /\ pulse[l] # NoPulse
  /\ Restore(l)
  /\ pulse' = [pulse EXCEPT ![l] = NoPulse]
  /\ UNCHANGED <<devVars, consVars, wanted, authVars, served, cmds>>

\* PROTO_SET: FORWARD is bit 0 of the flags.
ProtoSet(l, f) ==
  /\ Admitted(l)
  /\ forward' = [forward EXCEPT ![l] = f]
  /\ Reply(l, "OK") /\ Serve(l)
  /\ UNCHANGED <<authed, consVars, outVars, authVars>>

\* A mux DATA frame: dropped while gated, else written to the target.
DataIn(l) ==
  /\ Command(l)
  /\ IF Gated(l) THEN UNCHANGED served ELSE Serve(l)
  /\ UNCHANGED <<devVars, consVars, outVars, authVars>>

\* REBOOT: the chip restarts under every task; bytes on the way are lost.
Reboot(l) ==
  /\ Admitted(l) /\ \A m \in Links : session[m] < MaxSessions
  /\ authed' = [m \in Links |-> FALSE] /\ forward' = [m \in Links |-> TRUE]
  /\ reply' = [m \in Links |-> IF m = l THEN "OK" ELSE "none"]
  /\ pulse' = [m \in Links |-> NoPulse]
  /\ out' = [i \in Outputs |-> 0] /\ wanted' = [i \in Outputs |-> 0]
  /\ unread' = <<>> /\ held' = <<>>
  /\ session' = [m \in Links |-> session[m] + 1]
  /\ Serve(l)
  /\ UNCHANGED <<arrived, tee, pw, proven>>

-----------------------------------------------------------------------------
(* The console                                                             *)

\* The target sends a byte.
Arrive ==
  /\ arrived < MaxBytes
  /\ arrived' = arrived + 1
  /\ unread' = Append(unread, arrived + 1)
  /\ UNCHANGED <<devVars, outVars, authVars, served, cmds, held, tee>>

\* skrit_dev_feed_data of the links in D: tee to those that listen.
Feed(D, bytes) ==
  LET Teed == {l \in D : Listening(l)} IN
  /\ tee' = [l \in Links |-> IF l \in Teed THEN tee[l] \o bytes ELSE tee[l]]
  /\ served' = [l \in Links |-> IF l \in Teed THEN served[l] \union {session[l]}
                                              ELSE served[l]]

\* hal_data_read takes what the driver has, up to the size of the buffer.
DataRead(n) == n \in 1..Len(unread) /\ unread' = SubSeq(unread, n + 1, Len(unread))

\* The bridge reads the UART once ...
BridgeRead(n) ==
  /\ Free(Bridger)
  /\ DataRead(n) /\ held' = SubSeq(unread, 1, n)
  /\ UNCHANGED <<devVars, outVars, authVars, served, cmds, arrived, tee>>

\* ... and feeds every link, in the threaded build with DEV_LOCK held: not
\* while usb_rx_task is in a command.
DevLockFree == Threaded => \A l \in Links \ {Bridger} : pulse[l] = NoPulse

BridgeFeed ==
  /\ held # <<>> /\ DevLockFree
  /\ Feed(Links, held) /\ held' = <<>>
  /\ UNCHANGED <<devVars, outVars, authVars, cmds, arrived, unread>>

\* skrit_dev_poll inside skrit__wait: what it reads goes to the command's own
\* link only.
WaitPoll(l, n) ==
  /\ pulse[l] # NoPulse
  /\ DataRead(n) /\ Feed({l}, SubSeq(unread, 1, n))
  /\ UNCHANGED <<devVars, outVars, authVars, cmds, arrived, held>>

-----------------------------------------------------------------------------
Dispatch(l) ==
  \/ Refuse(l) \/ Greet(l) \/ BadIndex(l) \/ DataIn(l) \/ Reboot(l)
  \/ Describe(l) \/ HalCall(l) \/ NoHook(l)
  \/ \E p \in Passwords \union {NoPassword} : Auth(l, p) \/ AuthSet(l, p)
  \/ \E i \in Outputs : OutToggle(l, i) \/ OutPulse(l, i)
  \/ \E i \in Outputs, v \in Levels : OutSet(l, i, v)
  \/ \E f \in BOOLEAN : ProtoSet(l, f)

Console == \/ Arrive \/ BridgeFeed
           \/ \E n \in 1..MaxBytes : BridgeRead(n)
           \/ \E l \in Links, n \in 1..MaxBytes : WaitPoll(l, n)

Next == Console \/ \E l \in Links : Connect(l) \/ Dispatch(l) \/ PulseEnd(l)

Spec == Init /\ [][Next]_vars

-----------------------------------------------------------------------------
(* Properties                                                              *)

TypeOK ==
  /\ authed \in [Links -> BOOLEAN] /\ forward \in [Links -> BOOLEAN]
  /\ reply \in [Links -> Status]
  /\ pulse \in [Links -> [idx : Outputs, prev : Levels] \union {NoPulse}]
  /\ out \in [Outputs -> Levels] /\ wanted \in [Outputs -> Levels]
  /\ pw \in Passwords
  /\ arrived \in 0..MaxBytes
  /\ unread \in Seq(1..MaxBytes) /\ held \in Seq(1..MaxBytes)
  /\ tee \in [Links -> Seq(1..MaxBytes)]
  /\ session \in [Links -> Nat] /\ cmds \in 0..MaxCmds
  /\ proven \in [Links -> SUBSET Nat] /\ served \in [Links -> SUBSET Nat]

\* The auth gate: a connection of a networked link sees no console byte and
\* changes nothing (outputs, password, forwarding, target input) unless it has
\* itself given the password stored at that time, whatever happened on the link
\* or on other links before it connected.
OnlyAuthenticated == \A l \in Networked : served[l] \subseteq proven[l]

\* Between commands every output has the level it was last commanded to: a
\* pulse restores it and no command that was answered OK is undone.  (Where two
\* tasks run commands it is undone: see CoreSerialised.)
OutputsAsCommanded ==
  \A i \in Outputs : (\A l \in Links : pulse[l].idx # i) => out[i] = wanted[i]

\* Console bytes reach each host in the order the target sent them, none twice.
TeeInOrder ==
  \A l \in Links : \A i, j \in DOMAIN tee[l] : i < j => tee[l][i] < tee[l][j]

\* main_idf.c: "serializes all access to the single-threaded core".
CoreSerialised ==
  Cardinality({l \in Links : pulse[l] # NoPulse}) <= 1
=============================================================================
