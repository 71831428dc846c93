------------------------------ MODULE WsSession ------------------------------
(***************************************************************************)
(* The WebSocket server of a networked Duta: ws_pump of                    *)
(* platforms/espressif/src/duta_wifi_idf.h, which serves one client at a   *)
(* time.  A connection is accepted into the pending slot and takes the     *)
(* session over once it has sent something; what it sends after the HTTP   *)
(* upgrade goes to the skrit_dev of the session.  bridge_task calls it     *)
(* while WiFi is connected.                                                *)
(*                                                                         *)
(* A client's bytes are grouped to what the server tells apart: "hello" an *)
(* upgrade request, "bad" a request without a key, "auth" the password,    *)
(* "cmd" another command, "end" what ends the session: a CLOSE frame, one  *)
(* that does not decode, more than the buffer holds.  One pump reads at    *)
(* most one of them; the rest has not arrived yet.                         *)
(***************************************************************************)
EXTENDS Naturals, Sequences, FiniteSets, Functions

CONSTANTS
  NClients,   \* bound: clients that connect, numbered in the order they do
  MaxSends,   \* bound: what all clients send
  MaxFlaps,   \* bound: times WiFi goes away
  Backlog     \* connections that wait in the listening socket

\* What the constants are; the module that instantiates this one assumes it.
SessionAssumption ==
  NClients \in Nat \ {0} /\ MaxSends \in Nat /\ MaxFlaps \in Nat
  /\ Backlog \in Nat \ {0}

VARIABLES
  ws,        \* the sockets and flags of the server, see Servers
  up,        \* wifi_state is CONNECTED
  listening, \* ws_listen is open
  came,      \* clients that have connected so far
  inbox,     \* for each client, what has arrived and is not read
  said,      \* history: all that a client has sent
  gone,      \* clients whose FIN has arrived
  prover,    \* history: the client whose AUTH set the flag, 0 for none
  served,    \* history: <<client, prover>> of each command executed
  flaps

envVars == <<came, inbox, said, gone>>
vars    == <<ws, up, listening, envVars, prover, served, flaps>>

Clients == 1..NClients
Nobody  == 0
First   == {"hello", "bad"}
Later   == {"auth", "cmd", "end"}

\* backlog: the listening socket's queue; pending: ws_pending_fd; fd: ws_fd;
\* shaken: ws_handshaken; authed: ws_dev.authed; closed: sockets closed.
Servers == [backlog : Seq(Clients), pending : Clients \union {Nobody},
            fd : Clients \union {Nobody}, shaken : BOOLEAN, authed : BOOLEAN,
            closed : SUBSET Clients]

Init ==
  /\ ws = [backlog |-> <<>>, pending |-> Nobody, fd |-> Nobody,
           shaken |-> FALSE, authed |-> FALSE, closed |-> {}]
  /\ up = TRUE /\ listening = FALSE /\ came = 0
  /\ inbox = [c \in Clients |-> <<>>] /\ said = [c \in Clients |-> <<>>]
  /\ gone = {} /\ prover = Nobody /\ served = {} /\ flaps = 0

-----------------------------------------------------------------------------
(* Clients                                                                 *)

Connect ==
  /\ came < NClients /\ listening /\ up /\ Len(ws.backlog) < Backlog
  /\ came' = came + 1
  /\ ws' = [ws EXCEPT !.backlog = Append(@, came + 1)]
  /\ UNCHANGED <<up, listening, inbox, said, gone, prover, served, flaps>>

Alive(c) == c <= came /\ c \notin gone /\ c \notin ws.closed

Send(c, m) ==
  /\ Alive(c) /\ FoldFunction(LAMBDA q, n : n + Len(q), 0, said) < MaxSends
  /\ said[c] = <<>> <=> m \in First
  /\ inbox' = [inbox EXCEPT ![c] = Append(@, m)]
  /\ said' = [said EXCEPT ![c] = Append(@, m)]
  /\ UNCHANGED <<ws, up, listening, came, gone, prover, served, flaps>>

Leave(c) ==
  /\ Alive(c) /\ gone' = gone \union {c}
  /\ UNCHANGED <<ws, up, listening, came, inbox, said, prover, served, flaps>>

-----------------------------------------------------------------------------
(* The server                                                              *)

Close(s, c) == IF c = Nobody THEN s ELSE [s EXCEPT !.closed = @ \union {c}]

\* ws_drop_client
Drop(s) == [Close(s, s.fd) EXCEPT !.fd = Nobody, !.shaken = FALSE, !.authed = FALSE]

\* Mutants: the newcomer waits while there is a session; the pending connection
\* is forgotten.
AcceptWhenFree(s) ==
  IF s.backlog = <<>> \/ s.fd # Nobody THEN s
  ELSE [Close(s, s.pending) EXCEPT !.pending = Head(s.backlog), !.backlog = Tail(@)]

AcceptOver(s) ==
  IF s.backlog = <<>> THEN s
  ELSE [s EXCEPT !.pending = Head(s.backlog), !.backlog = Tail(@)]

\* The accept queue is always drained, one connection a turn; a newcomer takes
\* the pending slot.
Accept(s) ==
  IF s.backlog = <<>> THEN s
  ELSE [Close(s, s.pending) EXCEPT !.pending = Head(s.backlog), !.backlog = Tail(@)]

\* Mutant: the flags of the session before stay.
TakeOverOnly(s) ==
  [Close(s, s.fd) EXCEPT !.fd = s.pending, !.pending = Nobody]

\* A pending client that has sent something takes the session over.
TakeOver(s) == [Drop(s) EXCEPT !.fd = s.pending, !.pending = Nobody]

\* Mutant: a connection takes over at once.
PromoteSilent(s) ==
  IF s.pending = Nobody THEN {s} ELSE {TakeOver(s)}

\* One that has not is closed when it leaves, or after 3 s.
Promote(s) ==
  IF s.pending = Nobody THEN {s}
  ELSE IF inbox[s.pending] # <<>> THEN {TakeOver(s)}
  ELSE LET shut == [Close(s, s.pending) EXCEPT !.pending = Nobody]
       IN  IF s.pending \in gone THEN {shut} ELSE {s, shut}

Same == UNCHANGED <<inbox, prover, served>>

\* Nothing to read: the end of the stream drops the session.
ReadNothing(s) ==
  /\ s.fd # Nobody => inbox[s.fd] = <<>>
  /\ ws' = IF s.fd \in gone THEN Drop(s) ELSE s
  /\ Same

Consume(c) == inbox' = [inbox EXCEPT ![c] = Tail(@)]

\* Before the handshake: the HTTP request.
ReadRequest(s) ==
  /\ s.fd # Nobody /\ inbox[s.fd] # <<>> /\ ~s.shaken
  /\ Consume(s.fd)
  /\ ws' = IF Head(inbox[s.fd]) = "hello" THEN [s EXCEPT !.shaken = TRUE] ELSE Drop(s)
  /\ UNCHANGED <<prover, served>>

\* After it: frames, whose payload is the stream of skrit_dev_rx.
ReadFrame(s) ==
  /\ s.fd # Nobody /\ inbox[s.fd] # <<>> /\ s.shaken
  /\ Consume(s.fd)
  /\ LET m == Head(inbox[s.fd]) IN
     /\ ws' = CASE m = "auth" -> [s EXCEPT !.authed = TRUE]
                [] m = "end"  -> Drop(s)
                [] OTHER      -> s
     /\ prover' = IF m = "auth" THEN s.fd ELSE prover
     /\ served' = IF m = "cmd" /\ s.authed THEN served \union {<<s.fd, prover>>}
                                           ELSE served

\* ws_pump
Pump ==
  /\ up
  /\ listening' = TRUE
  /\ \E s \in Promote(Accept(ws)) : ReadNothing(s) \/ ReadRequest(s) \/ ReadFrame(s)
  /\ UNCHANGED <<up, came, said, gone, flaps>>

\* duta_wifi_loop finds the address gone: the session is dropped and the
\* listening socket closed, with all that waited in it.
LinkLost ==
  /\ up /\ flaps < MaxFlaps /\ flaps' = flaps + 1
  /\ up' = FALSE /\ listening' = FALSE
  /\ LET d == Drop(ws) IN
     ws' = [d EXCEPT !.closed = @ \union {d.backlog[i] : i \in DOMAIN d.backlog},
                     !.backlog = <<>>]
  /\ UNCHANGED <<envVars, prover, served>>

\* CFG_SET of WiFi credentials: wifi_join leaves the session alone.
Rejoin ==
  /\ up /\ flaps < MaxFlaps /\ flaps' = flaps + 1
  /\ up' = FALSE
  /\ UNCHANGED <<ws, listening, envVars, prover, served>>

LinkBack == /\ ~up /\ up' = TRUE
            /\ UNCHANGED <<ws, listening, envVars, prover, served, flaps>>

Next == \/ Connect \/ Pump \/ LinkLost \/ Rejoin \/ LinkBack
        \/ \E c \in Clients : Leave(c) \/ \E m \in First \union Later : Send(c, m)

Spec == Init /\ [][Next]_vars

\* bridge_task pumps every 2 ms.
LiveSpec == Spec /\ WF_vars(Pump)

-----------------------------------------------------------------------------
(* Properties                                                              *)

TypeOK ==
  /\ ws \in Servers /\ (ws.shaken => ws.fd # Nobody)
  /\ up \in BOOLEAN /\ listening \in BOOLEAN
  /\ came \in 0..NClients /\ gone \subseteq Clients
  /\ inbox \in [Clients -> Seq(First \union Later)]
  /\ said \in [Clients -> Seq(First \union Later)]
  /\ prover \in Clients \union {Nobody}
  /\ served \subseteq Clients \X (Clients \union {Nobody})

\* duta_wifi_idf.h: a takeover "always resets auth + buffers".  A command is
\* executed only for the client that has itself given the password, and frames
\* are decoded only for one that made the handshake, in every order of
\* connections, takeovers, drops and losses of the network.
SessionOwned ==
  /\ TypeOK
  /\ \A x \in served : x[1] = x[2]
  /\ ws.shaken => said[ws.fd] # <<>> /\ said[ws.fd][1] = "hello"
  /\ ws.authed => ws.shaken /\ prover = ws.fd

\* "Junk probes / dead backlog entries never kick anyone": a session ends for a
\* client that has sent something, by its own doing, or with the network.
EndsItself(c) == c \in gone \/ \E i \in DOMAIN said[c] : said[c][i] \in {"bad", "end"}
ProbesHarmless ==
  [][(ws.fd # Nobody /\ ws'.fd # ws.fd) =>
        \/ EndsItself(ws.fd) \/ ~up'
        \/ ws'.fd # Nobody /\ said[ws'.fd] # <<>>
        \/ \E c \in ws'.closed \ (ws.closed \union {ws.fd}) :
              said[c] # <<>> /\ EndsItself(c)]_vars

\* A connection is either closed or held, in one place only: no descriptor is
\* lost and none is used after it was closed, however often connections displace
\* each other.
Held(c) == \/ c = ws.pending \/ c = ws.fd
           \/ \E i \in DOMAIN ws.backlog : ws.backlog[i] = c
NoDescriptorLost ==
  /\ \A c \in 1..came : c \in ws.closed <=> ~Held(c)
  /\ ws.pending = ws.fd => ws.fd = Nobody

\* "a real reconnect wins immediately": the newest client, once it has sent its
\* request, gets the session, though the one before never closed its own.
NewestWins ==
  ((came = NClients /\ inbox[NClients] # <<>> /\ up
      /\ \E i \in DOMAIN ws.backlog : ws.backlog[i] = NClients)
     ~> (ws.fd = NClients \/ ~up \/ (NClients \in ws.closed /\ EndsItself(NClients))))
=============================================================================
