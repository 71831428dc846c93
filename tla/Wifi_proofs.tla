---------------------------- MODULE Wifi_proofs -----------------------------
(***************************************************************************)
(* Theorems about the WiFi of the ESP-IDF build: the WebSocket servers     *)
(* (MCWebSocket, with WsSession and WsStream) and the station (WifiJoin).  *)
(* The modules of the two have no name in common; each theorem is about    *)
(* the specification of one of them.                                       *)
(***************************************************************************)
EXTENDS MCWebSocket, WifiJoin, SequenceTheorems, WellFoundedInduction, TLAPS

-----------------------------------------------------------------------------
(***************************************************************************)
(* The WebSocket servers: a command is executed only for the client that   *)
(* gave the password, every descriptor is held in one place or closed, a   *)
(* silent connection ends nothing, and the bytes of a session are exact.   *)
(***************************************************************************)

Clients  == Session!Clients
Nobody   == Session!Nobody
Messages == Session!First \union Session!Later

-----------------------------------------------------------------------------
(* Where a connection is                                                   *)

Queued(s, c) == \E i \in DOMAIN s.backlog : s.backlog[i] = c
HeldBy(s, c) == c = s.pending \/ c = s.fd \/ Queued(s, c)

\* Each of the n clients that came is closed or held, and held in one place;
\* the flags are those of a session.
Placed(s, n) ==
  /\ s \in Session!Servers
  /\ s.shaken => s.fd # Nobody
  /\ s.authed => s.shaken
  /\ s.pending = s.fd => s.fd = Nobody
  /\ \A i, j \in DOMAIN s.backlog : s.backlog[i] = s.backlog[j] => i = j
  /\ \A i \in DOMAIN s.backlog : s.backlog[i] # s.pending /\ s.backlog[i] # s.fd
  /\ \A c \in Clients : c \in s.closed => c <= n /\ ~HeldBy(s, c)
  /\ \A c \in Clients : c <= n /\ c \notin s.closed => HeldBy(s, c)
  /\ \A c \in Clients : HeldBy(s, c) => c <= n

\* What a client sends: the request first.  What has arrived and is not read was
\* sent.
Spoken ==
  /\ inbox \in [Clients -> Seq(Messages)] /\ said \in [Clients -> Seq(Messages)]
  /\ \A c \in Clients : \A i \in DOMAIN inbox[c] :
        \E j \in DOMAIN said[c] : said[c][j] = inbox[c][i]
  /\ \A c \in Clients : said[c] # <<>> => said[c][1] \in Session!First

\* Nothing has been read from a connection that is open and not past its
\* handshake; the session is of a client that made it, authenticated by itself.
Earned(s) ==
  /\ \A c \in Clients : c \notin s.closed /\ ~(c = s.fd /\ s.shaken) => inbox[c] = said[c]
  /\ s.shaken => said[s.fd] # <<>> /\ said[s.fd][1] = "hello"
  /\ s.authed => prover = s.fd

SessionInv ==
  /\ Placed(ws, came) /\ Spoken /\ Earned(ws)
  /\ up \in BOOLEAN /\ listening \in BOOLEAN /\ came \in 0..NClients
  /\ gone \subseteq Clients
  /\ prover \in Clients \union {Nobody}
  /\ served \subseteq Clients \X (Clients \union {Nobody})
  /\ \A x \in served : x[1] = x[2]

-----------------------------------------------------------------------------
(* The operations of the server on its sockets                             *)

\* The first of a queue without repetitions is not behind itself.
LEMMA QueueTail ==
  ASSUME NEW q \in Seq(Clients), q # <<>>,
         \A i, j \in DOMAIN q : q[i] = q[j] => i = j
  PROVE  /\ Head(q) \in Clients /\ Tail(q) \in Seq(Clients)
         /\ Head(q) = q[1] /\ 1 \in DOMAIN q
         /\ \A i, j \in DOMAIN Tail(q) : Tail(q)[i] = Tail(q)[j] => i = j
         /\ \A i \in DOMAIN Tail(q) : i + 1 \in DOMAIN q /\ Tail(q)[i] = q[i + 1]
         /\ \A i \in DOMAIN Tail(q) : Tail(q)[i] # Head(q)
         /\ \A i \in DOMAIN q : i # 1 => i - 1 \in DOMAIN Tail(q) /\ Tail(q)[i - 1] = q[i]
<1>1. /\ Len(q) \in Nat \ {0} /\ DOMAIN q = 1..Len(q) /\ Head(q) = q[1] /\ q[1] \in Clients
      /\ Tail(q) \in Seq(Clients) /\ Len(Tail(q)) = Len(q) - 1
      /\ DOMAIN Tail(q) = 1..(Len(q) - 1)
      /\ \A i \in 1..(Len(q) - 1) : Tail(q)[i] = q[i + 1]
  OBVIOUS
<1> QED
  BY <1>1

\* A number of a client is not 0.
LEMMA Somebody == Nobody = 0 /\ Nobody \notin Clients /\ Clients \subseteq Nat
  BY DEF Nobody, Clients, Session!Nobody, Session!Clients

\* What the type of a server says of its parts.
LEMMA ServerParts ==
  ASSUME NEW s \in Session!Servers
  PROVE  /\ s.backlog \in Seq(Clients) /\ s.pending \in Clients \union {Nobody}
         /\ s.fd \in Clients \union {Nobody} /\ s.shaken \in BOOLEAN /\ s.authed \in BOOLEAN
         /\ s.closed \in SUBSET Clients
         /\ \A i \in DOMAIN s.backlog : s.backlog[i] \in Clients
<1>1. /\ s.backlog \in Seq(Clients) /\ s.pending \in Clients \union {Nobody}
      /\ s.fd \in Clients \union {Nobody} /\ s.shaken \in BOOLEAN /\ s.authed \in BOOLEAN
      /\ s.closed \in SUBSET Clients
  BY DEF Session!Servers, Clients, Nobody
<1> QED
  BY <1>1

\* ws_drop_client closes the session's socket and resets the flags.
LEMMA DropPlaced ==
  ASSUME NEW s, NEW n, Placed(s, n)
  PROVE  /\ Placed(Session!Drop(s), n)
         /\ Session!Drop(s).fd = Nobody /\ ~Session!Drop(s).shaken /\ ~Session!Drop(s).authed
         /\ Session!Drop(s).pending = s.pending /\ Session!Drop(s).backlog = s.backlog
         /\ Session!Drop(s).closed = s.closed \union ({s.fd} \ {Nobody})
<1> DEFINE d == Session!Drop(s)
<1>0. s \in Session!Servers
  BY DEF Placed
<1>1. /\ d \in Session!Servers /\ d.fd = Nobody /\ d.shaken = FALSE /\ d.authed = FALSE
      /\ d.pending = s.pending /\ d.backlog = s.backlog
      /\ d.closed = s.closed \union ({s.fd} \ {Nobody})
  BY <1>0, Somebody DEF Session!Drop, Session!Close, Session!Servers, Clients, Nobody
<1> HIDE DEF d
<1>2. \A c \in Clients : HeldBy(d, c) <=> HeldBy(s, c) /\ c # s.fd
  BY <1>0, <1>1, Somebody, ServerParts DEF HeldBy, Queued, Placed
<1>3. Placed(d, n)
  BY <1>0, <1>1, <1>2, Somebody, ServerParts DEF Placed, HeldBy
<1> QED
  BY <1>1, <1>3 DEF d

\* The accept queue moves into the pending slot, whose connection is closed.
LEMMA AcceptPlaced ==
  ASSUME NEW s, NEW n, Placed(s, n)
  PROVE  LET a == Session!Accept(s) IN
         /\ Placed(a, n)
         /\ a.fd = s.fd /\ a.shaken = s.shaken /\ a.authed = s.authed
         /\ s.closed \subseteq a.closed /\ s.fd \notin a.closed
<1> DEFINE a == Session!Accept(s)
<1>0. s \in Session!Servers
  BY DEF Placed
<1>1. CASE s.backlog = <<>>
  BY <1>0, <1>1, ServerParts, Somebody DEF Session!Accept, Placed, HeldBy
<1>2. CASE s.backlog # <<>>
  <2>1. /\ s.backlog \in Seq(Clients) /\ \A i, j \in DOMAIN s.backlog :
                                              s.backlog[i] = s.backlog[j] => i = j
    BY <1>0, ServerParts DEF Placed
  <2>2. /\ Head(s.backlog) \in Clients /\ Tail(s.backlog) \in Seq(Clients)
    BY <1>2, <2>1, QueueTail
  <2>3. /\ a \in Session!Servers /\ a.fd = s.fd /\ a.shaken = s.shaken /\ a.authed = s.authed
        /\ a.pending = Head(s.backlog) /\ a.backlog = Tail(s.backlog)
        /\ a.closed = s.closed \union ({s.pending} \ {Nobody})
    BY <1>0, <1>2, <2>2, Somebody
       DEF Session!Accept, Session!Close, Session!Servers, Clients, Nobody
  <2> HIDE DEF a
  <2>4. /\ \A i, j \in DOMAIN a.backlog : a.backlog[i] = a.backlog[j] => i = j
        /\ \A i \in DOMAIN a.backlog : a.backlog[i] # a.pending /\ a.backlog[i] # a.fd
        /\ a.pending # a.fd
    BY <1>2, <2>1, <2>3, QueueTail DEF Placed
  <2>5. \A c \in Clients : Queued(s, c) <=> c = a.pending \/ Queued(a, c)
    <3>1. /\ a.pending = s.backlog[1] /\ 1 \in DOMAIN s.backlog
          /\ \A i \in DOMAIN a.backlog : i + 1 \in DOMAIN s.backlog /\ a.backlog[i] = s.backlog[i + 1]
          /\ \A i \in DOMAIN s.backlog :
                i # 1 => i - 1 \in DOMAIN a.backlog /\ a.backlog[i - 1] = s.backlog[i]
      BY <1>2, <2>1, <2>3, QueueTail
    <3> QED
      BY <3>1 DEF Queued
  <2>6. \A c \in Clients : HeldBy(a, c) <=> HeldBy(s, c) /\ c # s.pending
    <3>1. ASSUME NEW c \in Clients, c = s.pending PROVE ~HeldBy(a, c)
      BY <1>2, <2>3, <2>5, <3>1, Somebody DEF HeldBy, Placed, Queued
    <3> QED
      BY <2>3, <2>5, <3>1 DEF HeldBy
  <2>7. Placed(a, n)
    <3>1. \A c \in Clients : c \in a.closed <=> c \in s.closed \/ c = s.pending
      BY <2>3, Somebody
    <3>2. \A c \in Clients : c \in a.closed => c <= n /\ ~HeldBy(a, c)
      BY <2>6, <3>1 DEF Placed, HeldBy
    <3>3. \A c \in Clients : c <= n /\ c \notin a.closed => HeldBy(a, c)
      BY <2>6, <3>1 DEF Placed
    <3>4. \A c \in Clients : HeldBy(a, c) => c <= n
      BY <2>6 DEF Placed
    <3>5. (a.shaken => a.fd # Nobody) /\ (a.authed => a.shaken)
      BY <2>3 DEF Placed
    <3> QED
      BY <2>3, <2>4, <3>2, <3>3, <3>4, <3>5 DEF Placed
  <2>8. s.fd \notin a.closed
    BY <1>0, <2>3, Somebody, ServerParts DEF Placed, HeldBy
  <2> QED
    BY <2>3, <2>7, <2>8 DEF a
<1> QED
  BY <1>1, <1>2

\* A pending client takes the session over, and the one before is closed.
LEMMA TakeOverPlaced ==
  ASSUME NEW s, NEW n, Placed(s, n), s.pending # Nobody
  PROVE  LET t == Session!TakeOver(s) IN
         /\ Placed(t, n)
         /\ t.fd = s.pending /\ ~t.shaken /\ ~t.authed
         /\ t.closed = s.closed \union ({s.fd} \ {Nobody})
<1> DEFINE d == Session!Drop(s)
           t == Session!TakeOver(s)
<1>0. s \in Session!Servers
  BY DEF Placed
<1>1. /\ Placed(d, n) /\ d.fd = Nobody /\ ~d.shaken /\ ~d.authed
      /\ d.pending = s.pending /\ d.backlog = s.backlog
      /\ d.closed = s.closed \union ({s.fd} \ {Nobody})
  BY DropPlaced
<1>2. t = [d EXCEPT !.fd = s.pending, !.pending = Nobody]
  BY Somebody DEF Session!TakeOver, Session!Nobody, Nobody
<1> HIDE DEF d, t
<1>3. /\ t \in Session!Servers /\ t.fd = d.pending /\ t.pending = Nobody
      /\ t.backlog = d.backlog /\ t.closed = d.closed
      /\ t.shaken = d.shaken /\ t.authed = d.authed
  BY <1>0, <1>1, <1>2 DEF Placed, Session!Servers, Clients, Nobody
<1>4. \A c \in Clients : HeldBy(t, c) <=> HeldBy(d, c)
  BY <1>1, <1>3, Somebody DEF HeldBy, Queued
<1>5. \A i \in DOMAIN t.backlog : t.backlog[i] # t.pending /\ t.backlog[i] # t.fd
  BY <1>1, <1>3, Somebody, ServerParts DEF Placed
<1>6. Placed(t, n)
  BY <1>1, <1>3, <1>4, <1>5 DEF Placed
<1> QED
  BY <1>1, <1>3, <1>6 DEF t

\* A pending client that left, or waited 3 s in silence, is closed.
LEMMA ShutPlaced ==
  ASSUME NEW s, NEW n, Placed(s, n), s.pending # Nobody,
         NEW t, t = [Session!Close(s, s.pending) EXCEPT !.pending = Nobody]
  PROVE  /\ Placed(t, n)
         /\ t.fd = s.fd /\ t.shaken = s.shaken /\ t.authed = s.authed
         /\ t.closed = s.closed \union {s.pending}
<1>0. s \in Session!Servers
  BY DEF Placed
<1>1. /\ t \in Session!Servers /\ t.fd = s.fd /\ t.pending = Nobody
      /\ t.backlog = s.backlog /\ t.closed = s.closed \union {s.pending}
      /\ t.shaken = s.shaken /\ t.authed = s.authed
  BY <1>0 DEF Session!Close, Session!Servers, Session!Nobody, Clients, Nobody
<1>2. \A c \in Clients : HeldBy(t, c) <=> HeldBy(s, c) /\ c # s.pending
  BY <1>1, Somebody DEF HeldBy, Queued, Placed
<1>3. \A i \in DOMAIN t.backlog : t.backlog[i] # t.pending /\ t.backlog[i] # t.fd
  BY <1>0, <1>1, Somebody, ServerParts DEF Placed
<1>4. \A c \in Clients : c \in t.closed <=> c \in s.closed \/ c = s.pending
  BY <1>1
<1>5. \A c \in Clients : c \in t.closed => c <= n /\ ~HeldBy(t, c)
  BY <1>2, <1>4 DEF Placed, HeldBy
<1>6. \A c \in Clients : c <= n /\ c \notin t.closed => HeldBy(t, c)
  BY <1>2, <1>4 DEF Placed
<1>7. \A c \in Clients : HeldBy(t, c) => c <= n
  BY <1>2 DEF Placed
<1> QED
  BY <1>1, <1>3, <1>5, <1>6, <1>7 DEF Placed

\* The flags of a session that goes on do not move a connection.
LEMMA FlagsPlaced ==
  ASSUME NEW s, NEW n, Placed(s, n), NEW t \in Session!Servers,
         t.fd = s.fd, t.pending = s.pending, t.backlog = s.backlog, t.closed = s.closed,
         t.shaken => t.fd # Nobody, t.authed => t.shaken
  PROVE  Placed(t, n)
<1>1. \A c \in Clients : HeldBy(t, c) <=> HeldBy(s, c)
  BY DEF HeldBy, Queued
<1> QED
  BY <1>1 DEF Placed

\* The three ways a pump leaves the pending slot.
LEMMA PromoteWays ==
  ASSUME NEW s, NEW n, Placed(s, n), NEW r \in Session!Promote(s)
  PROVE  /\ Placed(r, n) /\ s.closed \subseteq r.closed
         /\ \/ r.fd = s.fd /\ r.shaken = s.shaken /\ r.authed = s.authed
            \/ /\ s.pending # Nobody /\ inbox[s.pending] # <<>>
               /\ r.fd = s.pending /\ ~r.shaken /\ ~r.authed
               /\ s.fd # Nobody => s.fd \in r.closed
               /\ s.pending \notin s.closed /\ s.pending # s.fd
<1>1. CASE s.pending = Nobody
  BY <1>1 DEF Session!Promote, Nobody
<1>2. CASE s.pending # Nobody /\ inbox[s.pending] # <<>>
  <2>1. r = Session!TakeOver(s)
    BY <1>2 DEF Session!Promote, Nobody
  <2>2. s.pending \in Clients /\ HeldBy(s, s.pending)
    BY <1>2, ServerParts DEF Placed, HeldBy
  <2> QED
    BY <1>2, <2>1, <2>2, TakeOverPlaced, ZenonT(20) DEF Placed
<1>3. CASE s.pending # Nobody /\ inbox[s.pending] = <<>>
  <2>1. r = s \/ r = [Session!Close(s, s.pending) EXCEPT !.pending = Nobody]
    BY <1>3 DEF Session!Promote, Nobody
  <2>2. CASE r = s
    BY <2>2
  <2>3. CASE r = [Session!Close(s, s.pending) EXCEPT !.pending = Nobody]
    BY <1>3, <2>3, ShutPlaced
  <2> QED
    BY <2>1, <2>2, <2>3
<1> QED
  BY <1>1, <1>2, <1>3

\* What a session has earned stays with it, and a new one begins with nothing.
LEMMA EarnedStays ==
  ASSUME NEW s, NEW t, Earned(s), s.closed \subseteq t.closed,
         \/ t.fd = s.fd /\ t.shaken = s.shaken /\ t.authed = s.authed
         \/ ~t.shaken /\ ~t.authed /\ (s.shaken => s.fd \in t.closed)
  PROVE  Earned(t)
BY DEF Earned

\* One pump up to its read: what it may find, and whose session it is then.
LEMMA PumpBegins ==
  ASSUME SessionInv, NEW r \in Session!Promote(Session!Accept(ws))
  PROVE  /\ Placed(r, came) /\ Earned(r) /\ ws.closed \subseteq r.closed
         /\ \/ r.fd = ws.fd /\ r.shaken = ws.shaken /\ r.authed = ws.authed
            \/ /\ r.fd # Nobody /\ r.fd \notin ws.closed /\ r.fd # ws.fd
               /\ inbox[r.fd] # <<>> /\ ~r.shaken /\ ~r.authed
<1> DEFINE a == Session!Accept(ws)
<1>1. Placed(ws, came) /\ Earned(ws)
  BY DEF SessionInv
<1>2. /\ Placed(a, came) /\ ws.closed \subseteq a.closed
      /\ a.fd = ws.fd /\ a.shaken = ws.shaken /\ a.authed = ws.authed
  BY <1>1, AcceptPlaced
<1> HIDE DEF a
<1>3. /\ Placed(r, came) /\ a.closed \subseteq r.closed
      /\ \/ r.fd = a.fd /\ r.shaken = a.shaken /\ r.authed = a.authed
         \/ /\ a.pending # Nobody /\ inbox[a.pending] # <<>>
            /\ r.fd = a.pending /\ ~r.shaken /\ ~r.authed
            /\ a.fd # Nobody => a.fd \in r.closed
            /\ a.pending \notin a.closed /\ a.pending # a.fd
  BY <1>2, PromoteWays DEF a
<1>4. Earned(a)
  BY <1>1, <1>2, EarnedStays
<1>5. Earned(r)
  BY <1>2, <1>3, <1>4, EarnedStays DEF Placed
<1> QED
  BY <1>2, <1>3, <1>5

\* What is read was sent, and so is what remains.
LEMMA ReadWasSent ==
  ASSUME Spoken, NEW c \in Clients, inbox[c] # <<>>,
         inbox' = [inbox EXCEPT ![c] = Tail(inbox[c])], said' = said
  PROVE  /\ Spoken'
         /\ Head(inbox[c]) = inbox[c][1]
         /\ \E j \in DOMAIN said[c] : said[c][j] = Head(inbox[c])
<1>1. inbox[c] \in Seq(Messages) /\ inbox[c] # <<>> /\ inbox \in [Clients -> Seq(Messages)]
  BY DEF Spoken
<1>2. /\ Head(inbox[c]) = inbox[c][1] /\ 1 \in DOMAIN inbox[c]
      /\ Tail(inbox[c]) \in Seq(Messages)
      /\ \A i \in DOMAIN Tail(inbox[c]) :
            i + 1 \in DOMAIN inbox[c] /\ Tail(inbox[c])[i] = inbox[c][i + 1]
  BY <1>1
<1>3. inbox' \in [Clients -> Seq(Messages)]
  BY <1>1, <1>2
<1>4. ASSUME NEW d \in Clients, NEW i \in DOMAIN inbox'[d]
      PROVE  \E j \in DOMAIN said'[d] : said'[d][j] = inbox'[d][i]
  <2>1. CASE d = c
    <3>1. inbox'[d] = Tail(inbox[c])
      BY <1>1, <2>1
    <3> QED
      BY <1>2, <1>4, <2>1, <3>1 DEF Spoken
  <2>2. CASE d # c
    <3>1. inbox'[d] = inbox[d]
      BY <1>1, <2>2
    <3> QED
      BY <1>4, <3>1 DEF Spoken
  <2> QED
    BY <2>1, <2>2
<1>5. Spoken'
  BY <1>3, <1>4 DEF Spoken
<1> QED
  BY <1>2, <1>5 DEF Spoken

\* The parts of SessionInv that no step of the server touches by itself.
LEMMA EnvParts ==
  ASSUME SessionInv
  PROVE  /\ Placed(ws, came) /\ Spoken /\ Earned(ws)
         /\ up \in BOOLEAN /\ listening \in BOOLEAN /\ came \in 0..NClients
         /\ gone \subseteq Clients
         /\ prover \in Clients \union {Nobody}
         /\ served \subseteq Clients \X (Clients \union {Nobody})
         /\ \A x \in served : x[1] = x[2]
BY DEF SessionInv

\* The end of the stream, or nothing to read.
LEMMA NothingKeeps ==
  ASSUME SessionInv, NEW r \in Session!Promote(Session!Accept(ws)), Session!ReadNothing(r),
         UNCHANGED <<up, came, said, gone>>, listening' = TRUE
  PROVE  SessionInv'
<1>1. Placed(r, came) /\ Earned(r)
  BY PumpBegins
<1>2. /\ ws' = r \/ ws' = Session!Drop(r)
      /\ UNCHANGED <<inbox, prover, served>>
  BY DEF Session!ReadNothing, Session!Same
<1>3. Placed(ws', came')
  BY <1>1, <1>2, DropPlaced
<1>4. Earned(ws')
  <2>1. CASE ws' = r
    BY <1>1, <2>1
  <2>2. CASE ws' = Session!Drop(r)
    <3>1. /\ r.closed \subseteq ws'.closed /\ ~ws'.shaken /\ ~ws'.authed
          /\ r.shaken => r.fd \in ws'.closed
      BY <1>1, <2>2, DropPlaced DEF Placed
    <3> QED
      BY <1>1, <3>1, EarnedStays
  <2> QED
    BY <1>2, <2>1, <2>2
<1>5. Earned(ws)' /\ Spoken'
  BY <1>2, <1>4, EnvParts DEF Earned, Spoken
<1> QED
  BY <1>2, <1>3, <1>5, EnvParts DEF SessionInv

\* The HTTP request of the session's client: its first word.
LEMMA RequestKeeps ==
  ASSUME SessionInv, NEW r \in Session!Promote(Session!Accept(ws)), Session!ReadRequest(r),
         UNCHANGED <<up, came, said, gone>>, listening' = TRUE
  PROVE  /\ SessionInv'
         /\ ws' = Session!Drop(r) =>
              r.fd \in Clients /\ \E i \in DOMAIN said[r.fd] : said[r.fd][i] = "bad"
         /\ ws' = Session!Drop(r) \/ ws' = [r EXCEPT !.shaken = TRUE]
<1>1. Placed(r, came) /\ Earned(r) /\ r \in Session!Servers
  BY PumpBegins DEF Placed
<1>2. /\ r.fd # Nobody /\ inbox[r.fd] # <<>> /\ ~r.shaken
      /\ inbox' = [inbox EXCEPT ![r.fd] = Tail(inbox[r.fd])]
      /\ ws' = IF Head(inbox[r.fd]) = "hello" THEN [r EXCEPT !.shaken = TRUE]
                                              ELSE Session!Drop(r)
      /\ UNCHANGED <<prover, served>>
  BY DEF Session!ReadRequest, Session!Consume, Nobody
<1>3. r.fd \in Clients /\ r.fd \notin r.closed
  BY <1>1, <1>2, ServerParts DEF Placed, HeldBy
<1>4. inbox[r.fd] = said[r.fd]
  BY <1>1, <1>2, <1>3 DEF Earned
<1>5. /\ Spoken' /\ Head(inbox[r.fd]) = said[r.fd][1] /\ said[r.fd] # <<>>
      /\ said[r.fd][1] \in {"hello", "bad"}
      /\ \E j \in DOMAIN said[r.fd] : said[r.fd][j] = said[r.fd][1]
  <2>1. Spoken
    BY EnvParts
  <2>2. /\ Spoken' /\ Head(inbox[r.fd]) = inbox[r.fd][1]
        /\ \E j \in DOMAIN said[r.fd] : said[r.fd][j] = Head(inbox[r.fd])
    BY <1>2, <1>3, <2>1, ReadWasSent
  <2> QED
    BY <1>2, <1>3, <1>4, <2>1, <2>2 DEF Spoken, Session!First
<1>6. \A c \in Clients : c # r.fd => inbox'[c] = inbox[c]
  BY <1>2, EnvParts DEF Spoken
<1>7. CASE said[r.fd][1] = "hello"
  <2>1. ws' = [r EXCEPT !.shaken = TRUE]
    BY <1>2, <1>5, <1>7
  <2>2. /\ ws' \in Session!Servers /\ ws'.fd = r.fd /\ ws'.pending = r.pending
        /\ ws'.backlog = r.backlog /\ ws'.closed = r.closed
        /\ ws'.shaken = TRUE /\ ws'.authed = r.authed
    BY <1>1, <2>1 DEF Session!Servers
  <2>3. Placed(ws', came')
    BY <1>1, <1>2, <2>2, FlagsPlaced
  <2>4. ~r.authed
    BY <1>1, <1>2 DEF Placed
  <2>5. Earned(ws)'
    BY <1>1, <1>5, <1>6, <1>7, <2>2, <2>4 DEF Earned
  <2>6. ws' # Session!Drop(r)
    <3>1. ~Session!Drop(r).shaken
      BY <1>1, DropPlaced
    <3> QED
      BY <2>2, <3>1
  <2> QED
    BY <1>2, <1>5, <2>1, <2>3, <2>5, <2>6, EnvParts DEF SessionInv
<1>8. CASE said[r.fd][1] = "bad"
  <2>1. ws' = Session!Drop(r)
    BY <1>2, <1>5, <1>8
  <2>2. /\ Placed(ws', came') /\ ~ws'.shaken /\ ~ws'.authed
        /\ ws'.closed = r.closed \union {r.fd}
    BY <1>1, <1>2, <2>1, DropPlaced, ZenonT(20)
  <2>3. Earned(ws)'
    BY <1>1, <1>2, <1>6, <2>2 DEF Earned
  <2> QED
    BY <1>2, <1>3, <1>5, <1>8, <2>1, <2>2, <2>3, EnvParts DEF SessionInv
<1> QED
  BY <1>5, <1>7, <1>8

\* A frame of the session's client: the password, a command, an end.
LEMMA FrameKeeps ==
  ASSUME SessionInv, NEW r \in Session!Promote(Session!Accept(ws)), Session!ReadFrame(r),
         UNCHANGED <<up, came, said, gone>>, listening' = TRUE
  PROVE  /\ SessionInv'
         /\ r.shaken
         /\ ws'.fd # r.fd => r.fd \in Clients /\ \E i \in DOMAIN said[r.fd] : said[r.fd][i] = "end"
<1>1. Placed(r, came) /\ Earned(r) /\ r \in Session!Servers
  BY PumpBegins DEF Placed
<1> DEFINE m == Head(inbox[r.fd])
<1>2. /\ r.fd # Nobody /\ inbox[r.fd] # <<>> /\ r.shaken
      /\ inbox' = [inbox EXCEPT ![r.fd] = Tail(inbox[r.fd])]
      /\ ws' = CASE m = "auth" -> [r EXCEPT !.authed = TRUE]
                 [] m = "end"  -> Session!Drop(r)
                 [] OTHER      -> r
      /\ prover' = IF m = "auth" THEN r.fd ELSE prover
      /\ served' = IF m = "cmd" /\ r.authed THEN served \union {<<r.fd, prover>>} ELSE served
  BY DEF Session!ReadFrame, Session!Consume, Nobody
<1>3. r.fd \in Clients /\ r.fd \notin r.closed
  BY <1>1, <1>2, ServerParts DEF Placed, HeldBy
<1>4. /\ Spoken' /\ \E j \in DOMAIN said[r.fd] : said[r.fd][j] = m
  BY <1>2, <1>3, EnvParts, ReadWasSent
<1>5. \A c \in Clients : c # r.fd => inbox'[c] = inbox[c]
  BY <1>2, EnvParts DEF Spoken
<1> HIDE DEF m
<1>6. CASE m = "auth"
  <2>1. ws' = [r EXCEPT !.authed = TRUE] /\ prover' = r.fd /\ served' = served
    BY <1>2, <1>6
  <2>2. /\ ws' \in Session!Servers /\ ws'.fd = r.fd /\ ws'.pending = r.pending
        /\ ws'.backlog = r.backlog /\ ws'.closed = r.closed
        /\ ws'.shaken = r.shaken /\ ws'.authed = TRUE
    BY <1>1, <2>1 DEF Session!Servers
  <2>3. Placed(ws', came')
    BY <1>1, <1>2, <2>2, FlagsPlaced
  <2>4. Earned(ws)'
    BY <1>1, <1>2, <1>5, <2>1, <2>2 DEF Earned
  <2> QED
    BY <1>2, <1>3, <1>4, <2>1, <2>2, <2>3, <2>4, EnvParts DEF SessionInv
<1>7. CASE m = "end"
  <2>1. ws' = Session!Drop(r) /\ prover' = prover /\ served' = served
    BY <1>2, <1>7
  <2>2. /\ Placed(ws', came') /\ ~ws'.shaken /\ ~ws'.authed
        /\ ws'.closed = r.closed \union {r.fd}
    <3>1. /\ Placed(Session!Drop(r), came)
          /\ ~Session!Drop(r).shaken /\ ~Session!Drop(r).authed
          /\ Session!Drop(r).closed = r.closed \union ({r.fd} \ {Nobody})
      BY <1>1, DropPlaced
    <3>2. r.fd # Nobody
      BY <1>2
    <3> QED
      BY <2>1, <3>1, <3>2
  <2>3. Earned(ws)'
    BY <1>1, <1>2, <1>5, <2>2 DEF Earned
  <2> QED
    BY <1>2, <1>3, <1>4, <1>7, <2>1, <2>2, <2>3, EnvParts DEF SessionInv
<1>8. CASE m # "auth" /\ m # "end"
  <2>1. ws' = r /\ prover' = prover
    BY <1>2, <1>8
  <2>2. Earned(ws)'
    BY <1>1, <1>2, <1>5, <2>1 DEF Earned
  <2>3. /\ served' \subseteq Clients \X (Clients \union {Nobody})
        /\ \A x \in served' : x[1] = x[2]
    BY <1>1, <1>2, <1>3, EnvParts DEF Earned
  <2> QED
    BY <1>1, <1>2, <1>4, <2>1, <2>2, <2>3, EnvParts DEF SessionInv
<1> QED
  BY <1>6, <1>7, <1>8

-----------------------------------------------------------------------------
(* The steps of the session                                                *)

\* ws_pump as a whole.
LEMMA PumpKeeps == ASSUME SessionInv, Session!Pump PROVE SessionInv'
<1>1. PICK r \in Session!Promote(Session!Accept(ws)) :
         Session!ReadNothing(r) \/ Session!ReadRequest(r) \/ Session!ReadFrame(r)
  BY DEF Session!Pump
<1>2. UNCHANGED <<up, came, said, gone>> /\ listening' = TRUE
  BY DEF Session!Pump
<1> QED
  BY <1>1, <1>2, NothingKeeps, RequestKeeps, FrameKeeps

\* A client connects: it enters the queue of the listening socket.
LEMMA ConnectKeeps == ASSUME SessionInv, Session!Connect PROVE SessionInv'
<1>0. /\ Placed(ws, came) /\ ws \in Session!Servers /\ came \in Nat /\ NClients \in Nat
      /\ came < NClients /\ came' = came + 1
      /\ ws' = [ws EXCEPT !.backlog = Append(ws.backlog, came + 1)]
      /\ UNCHANGED <<up, listening, inbox, said, gone, prover, served>>
  BY EnvParts, SessionConstants DEF Session!Connect, Placed, Session!SessionAssumption
<1>1. came + 1 \in Clients /\ came + 1 # Nobody
  BY <1>0 DEF Clients, Session!Clients, Nobody, Session!Nobody
<1>2. ws.backlog \in Seq(Clients)
  BY <1>0, ServerParts
<1>3. /\ ws'.backlog \in Seq(Clients) /\ ws'.fd = ws.fd /\ ws'.pending = ws.pending
      /\ ws'.closed = ws.closed /\ ws'.shaken = ws.shaken /\ ws'.authed = ws.authed
      /\ ws'.backlog = Append(ws.backlog, came + 1) /\ ws' \in Session!Servers
  <2> DEFINE q == Append(ws.backlog, came + 1)
  <2>1. q \in Seq(Clients) /\ ws' = [ws EXCEPT !.backlog = q]
    BY <1>0, <1>1, <1>2
  <2> HIDE DEF q
  <2>2. /\ ws'.backlog = q /\ ws'.fd = ws.fd /\ ws'.pending = ws.pending
        /\ ws'.closed = ws.closed /\ ws'.shaken = ws.shaken /\ ws'.authed = ws.authed
        /\ ws' \in Session!Servers
    BY <1>0, <2>1 DEF Session!Servers, Clients
  <2> QED
    BY <2>1, <2>2 DEF q
<1>4. /\ DOMAIN ws.backlog = 1..Len(ws.backlog) /\ Len(ws.backlog) \in Nat
      /\ DOMAIN ws'.backlog = 1..(Len(ws.backlog) + 1)
      /\ \A i \in DOMAIN ws.backlog : ws'.backlog[i] = ws.backlog[i]
      /\ ws'.backlog[Len(ws.backlog) + 1] = came + 1
  BY <1>1, <1>2, <1>3
<1>5. ~HeldBy(ws, came + 1)
  BY <1>0, <1>1 DEF Placed
<1>6. \A c \in Clients : HeldBy(ws', c) <=> HeldBy(ws, c) \/ c = came + 1
  <2>1. \A c \in Clients : Queued(ws', c) <=> Queued(ws, c) \/ c = came + 1
    BY <1>4 DEF Queued
  <2> QED
    BY <1>3, <2>1 DEF HeldBy
<1>7. /\ \A i, j \in DOMAIN ws'.backlog : ws'.backlog[i] = ws'.backlog[j] => i = j
      /\ \A i \in DOMAIN ws'.backlog : ws'.backlog[i] # ws'.pending /\ ws'.backlog[i] # ws'.fd
  <2>1. \A i \in DOMAIN ws'.backlog : i \in DOMAIN ws.backlog \/ i = Len(ws.backlog) + 1
    BY <1>4
  <2>2. \A i \in DOMAIN ws.backlog : ws.backlog[i] # came + 1
    BY <1>5 DEF HeldBy, Queued
  <2>3. came + 1 # ws.pending /\ came + 1 # ws.fd
    BY <1>5 DEF HeldBy
  <2> QED
    BY <1>0, <1>3, <1>4, <2>1, <2>2, <2>3 DEF Placed
<1>8. Placed(ws', came')
  <2>1. \A c \in Clients : c <= came + 1 <=> c <= came \/ c = came + 1
    BY <1>0, Somebody
  <2>2. ASSUME NEW c \in Clients, c \in ws'.closed PROVE c <= came' /\ ~HeldBy(ws', c)
    <3>1. c <= came /\ ~HeldBy(ws, c)
      BY <1>0, <1>3, <2>2 DEF Placed
    <3>2. c # came + 1
      BY <1>0, <3>1
    <3> QED
      BY <1>0, <1>6, <2>1, <3>1, <3>2
  <2>3. \A c \in Clients : c <= came' /\ c \notin ws'.closed => HeldBy(ws', c)
    BY <1>0, <1>3, <1>6, <2>1 DEF Placed
  <2>4. \A c \in Clients : HeldBy(ws', c) => c <= came'
    BY <1>0, <1>6, <2>1 DEF Placed
  <2> QED
    BY <1>0, <1>3, <1>7, <2>2, <2>3, <2>4 DEF Placed
<1>9. Earned(ws)' /\ Spoken'
  BY <1>0, <1>3, EnvParts DEF Earned, Spoken
<1> QED
  BY <1>0, <1>8, <1>9, EnvParts DEF SessionInv

\* A client sends: its request first, other words later.
LEMMA SendKeeps ==
  ASSUME SessionInv, NEW c \in Clients, NEW m \in Messages, Session!Send(c, m)
  PROVE  SessionInv'
<1>0. /\ said[c] = <<>> <=> m \in Session!First
      /\ inbox' = [inbox EXCEPT ![c] = Append(inbox[c], m)]
      /\ said' = [said EXCEPT ![c] = Append(said[c], m)]
      /\ c \notin ws.closed
      /\ UNCHANGED <<ws, up, listening, came, gone, prover, served>>
  BY DEF Session!Send, Session!Alive
<1>1. Spoken /\ inbox[c] \in Seq(Messages) /\ said[c] \in Seq(Messages)
  BY EnvParts DEF Spoken
<1>2. /\ Append(inbox[c], m) \in Seq(Messages) /\ Append(said[c], m) \in Seq(Messages)
      /\ \A i \in DOMAIN said[c] : i \in DOMAIN Append(said[c], m)
                                    /\ Append(said[c], m)[i] = said[c][i]
      /\ \E j \in DOMAIN Append(said[c], m) : Append(said[c], m)[j] = m
      /\ \A i \in DOMAIN Append(inbox[c], m) :
            \/ i \in DOMAIN inbox[c] /\ Append(inbox[c], m)[i] = inbox[c][i]
            \/ Append(inbox[c], m)[i] = m
      /\ said[c] = <<>> => Append(said[c], m)[1] = m
      /\ said[c] # <<>> => 1 \in DOMAIN said[c]
  <2>1. /\ Len(said[c]) \in Nat /\ DOMAIN said[c] = 1..Len(said[c])
        /\ DOMAIN Append(said[c], m) = 1..(Len(said[c]) + 1)
        /\ \A i \in 1..Len(said[c]) : Append(said[c], m)[i] = said[c][i]
        /\ Append(said[c], m)[Len(said[c]) + 1] = m
        /\ said[c] = <<>> <=> Len(said[c]) = 0
    BY <1>1
  <2>2. /\ Len(inbox[c]) \in Nat /\ DOMAIN inbox[c] = 1..Len(inbox[c])
        /\ DOMAIN Append(inbox[c], m) = 1..(Len(inbox[c]) + 1)
        /\ \A i \in 1..Len(inbox[c]) : Append(inbox[c], m)[i] = inbox[c][i]
        /\ Append(inbox[c], m)[Len(inbox[c]) + 1] = m
    BY <1>1
  <2>3. Append(inbox[c], m) \in Seq(Messages) /\ Append(said[c], m) \in Seq(Messages)
    BY <1>1
  <2> QED
    BY <2>1, <2>2, <2>3
<1>3. /\ inbox'[c] = Append(inbox[c], m) /\ said'[c] = Append(said[c], m)
      /\ \A d \in Clients : d # c => inbox'[d] = inbox[d] /\ said'[d] = said[d]
      /\ inbox' \in [Clients -> Seq(Messages)] /\ said' \in [Clients -> Seq(Messages)]
  BY <1>0, <1>1, <1>2 DEF Spoken
<1>4. Spoken'
  <2>1. ASSUME NEW d \in Clients, NEW i \in DOMAIN inbox'[d]
        PROVE  \E j \in DOMAIN said'[d] : said'[d][j] = inbox'[d][i]
    <3>1. CASE d # c
      BY <1>1, <1>3, <2>1, <3>1 DEF Spoken
    <3>2. CASE d = c /\ inbox'[d][i] = m
      BY <1>2, <1>3, <3>2
    <3>3. CASE d = c /\ i \in DOMAIN inbox[c] /\ inbox'[d][i] = inbox[c][i]
      <4>1. PICK j \in DOMAIN said[c] : said[c][j] = inbox[c][i]
        BY <1>1, <3>3 DEF Spoken
      <4> QED
        BY <1>2, <1>3, <3>3, <4>1
    <3>4. d # c \/ (d = c /\ inbox'[d][i] = m)
          \/ (d = c /\ i \in DOMAIN inbox[c] /\ inbox'[d][i] = inbox[c][i])
      BY <1>2, <1>3, <2>1
    <3> QED
      BY <3>1, <3>2, <3>3, <3>4
  <2>2. \A d \in Clients : said'[d] # <<>> => said'[d][1] \in Session!First
    BY <1>0, <1>1, <1>2, <1>3 DEF Spoken
  <2> QED
    BY <1>3, <2>1, <2>2 DEF Spoken
<1>5. Earned(ws)'
  <2>1. Earned(ws)
    BY EnvParts
  <2>2. \A d \in Clients : inbox[d] = said[d] => inbox'[d] = said'[d]
    BY <1>3
  <2>3. ws.shaken => said'[ws.fd] # <<>> /\ said'[ws.fd][1] = "hello"
    <3>1. ws.shaken => ws.fd \in Clients
      BY EnvParts, ServerParts DEF Placed
    <3>2. CASE ws.fd = c
      BY <1>2, <1>3, <2>1, <3>2 DEF Earned
    <3>3. CASE ws.fd # c
      BY <1>3, <2>1, <3>1, <3>3 DEF Earned
    <3> QED
      BY <3>2, <3>3
  <2> QED
    BY <1>0, <2>1, <2>2, <2>3 DEF Earned
<1>6. Placed(ws, came)'
  BY <1>0, EnvParts DEF Placed, HeldBy, Queued
<1> QED
  BY <1>0, <1>4, <1>5, <1>6, EnvParts DEF SessionInv

\* The network goes: the session and all that waits are closed.
LEMMA LostKeeps == ASSUME SessionInv, Session!LinkLost PROVE SessionInv'
<1> DEFINE d == Session!Drop(ws)
<1>0. /\ ws' = [d EXCEPT !.closed = d.closed \union {d.backlog[i] : i \in DOMAIN d.backlog},
                         !.backlog = <<>>]
      /\ up' = FALSE /\ listening' = FALSE
      /\ UNCHANGED <<came, inbox, said, gone, prover, served>>
  BY DEF Session!LinkLost, Session!envVars
<1>1. Placed(ws, came) /\ Earned(ws)
  BY EnvParts
<1>2. /\ Placed(d, came) /\ d.fd = Nobody /\ ~d.shaken /\ ~d.authed
      /\ d.closed = ws.closed \union ({ws.fd} \ {Nobody})
  BY <1>1, DropPlaced
<1> HIDE DEF d
<1>3. d \in Session!Servers /\ {d.backlog[i] : i \in DOMAIN d.backlog} \subseteq Clients
  BY <1>2, ServerParts DEF Placed
<1>4. /\ ws' \in Session!Servers /\ ws'.fd = d.fd /\ ws'.pending = d.pending
      /\ ws'.backlog = <<>> /\ ws'.shaken = d.shaken /\ ws'.authed = d.authed
      /\ ws'.closed = d.closed \union {d.backlog[i] : i \in DOMAIN d.backlog}
  <2> DEFINE q == {d.backlog[i] : i \in DOMAIN d.backlog}
  <2>1. ws' = [d EXCEPT !.closed = d.closed \union q, !.backlog = <<>>] /\ q \subseteq Clients
    BY <1>0, <1>3
  <2> HIDE DEF q
  <2>2. <<>> \in Seq(Clients)
    OBVIOUS
  <2>3. /\ ws' \in Session!Servers /\ ws'.fd = d.fd /\ ws'.pending = d.pending
        /\ ws'.backlog = <<>> /\ ws'.shaken = d.shaken /\ ws'.authed = d.authed
        /\ ws'.closed = d.closed \union q
    BY <1>3, <2>1, <2>2 DEF Session!Servers, Clients
  <2> QED
    BY <2>3 DEF q
<1>5. \A c \in Clients : c \in ws'.closed <=> c \in d.closed \/ Queued(d, c)
  BY <1>4 DEF Queued
<1>6. \A c \in Clients : HeldBy(ws', c) <=> HeldBy(d, c) /\ ~Queued(d, c)
  BY <1>2, <1>4 DEF HeldBy, Queued, Placed
<1>7. Placed(ws', came')
  <2>1. \A c \in Clients : c \in ws'.closed => c <= came' /\ ~HeldBy(ws', c)
    BY <1>0, <1>2, <1>5, <1>6 DEF Placed, HeldBy
  <2>2. \A c \in Clients : c <= came' /\ c \notin ws'.closed => HeldBy(ws', c)
    BY <1>0, <1>2, <1>5, <1>6 DEF Placed
  <2>3. \A c \in Clients : HeldBy(ws', c) => c <= came'
    BY <1>0, <1>2, <1>6 DEF Placed
  <2> QED
    BY <1>2, <1>4, <2>1, <2>2, <2>3 DEF Placed
<1>8. Earned(ws')
  BY <1>1, <1>2, <1>4, EarnedStays DEF Placed
<1>9. Earned(ws)' /\ Spoken'
  BY <1>0, <1>8, EnvParts DEF Earned, Spoken
<1> QED
  BY <1>0, <1>7, <1>9, EnvParts DEF SessionInv

\* Every step of the session keeps its invariant.
LEMMA SessionStep == SessionInv /\ [Session!Next]_sessionVars => SessionInv'
<1> SUFFICES ASSUME SessionInv, [Session!Next]_sessionVars PROVE SessionInv'
  OBVIOUS
<1>1. ASSUME UNCHANGED <<ws, listening, came, inbox, said, prover, served>>,
             gone' \subseteq Clients, up' \in BOOLEAN
      PROVE  SessionInv'
  BY <1>1, EnvParts DEF SessionInv, Placed, Spoken, Earned, HeldBy, Queued
<1>2. CASE Session!Rejoin \/ Session!LinkBack \/ UNCHANGED sessionVars
  BY <1>1, <1>2, EnvParts DEF Session!Rejoin, Session!LinkBack, Session!envVars, sessionVars
<1>3. ASSUME NEW c \in Clients, Session!Leave(c) PROVE SessionInv'
  BY <1>1, <1>3, EnvParts DEF Session!Leave
<1> QED
  BY <1>2, <1>3, PumpKeeps, ConnectKeeps, SendKeeps, LostKeeps
     DEF Session!Next, Clients, Messages

\* The server begins with no connection.
LEMMA SessionBegins == Session!Init => SessionInv
<1> SUFFICES ASSUME Session!Init PROVE SessionInv
  OBVIOUS
<1>1. /\ ws.backlog = <<>> /\ ws.pending = Nobody /\ ws.fd = Nobody
      /\ ~ws.shaken /\ ~ws.authed /\ ws.closed = {} /\ ws \in Session!Servers
      /\ came = 0 /\ up = TRUE /\ listening = FALSE /\ gone = {} /\ prover = Nobody /\ served = {}
      /\ inbox = [c \in Clients |-> <<>>] /\ said = [c \in Clients |-> <<>>]
  BY DEF Session!Init, Session!Servers, Session!Nobody, Nobody, Clients
<1>2. Placed(ws, came)
  BY <1>1, Somebody DEF Placed, HeldBy, Queued
<1>3. Spoken /\ Earned(ws)
  BY <1>1 DEF Spoken, Earned
<1>4. came \in 0..NClients
  BY <1>1, SessionConstants DEF Session!SessionAssumption
<1> QED
  BY <1>1, <1>2, <1>3, <1>4 DEF SessionInv

\* Only one of the two views moves in a step.
LEMMA SessionPart == ASSUME [ViewNext]_viewVars PROVE [Session!Next]_sessionVars
BY DEF ViewNext, viewVars, OnBytes, OnSession, sessionVars

\* SessionInv holds throughout.
LEMMA SessionAlways == ViewSpec => []SessionInv
<1>1. ViewInit => SessionInv
  BY SessionBegins DEF ViewInit
<1>2. SessionInv /\ [ViewNext]_viewVars => SessionInv'
  BY SessionPart, SessionStep
<1> QED
  BY <1>1, <1>2, PTL DEF ViewSpec

-----------------------------------------------------------------------------
(* The theorems                                                            *)

\* Whatever the order of connections, takeovers, drops and losses of the network,
\* a command is executed only for the client that has itself given the password
\* (ws_drop_client resets the flags before the descriptor changes hands).
THEOREM CommandsAreOwned == ViewSpec => []SessionOwned
<1>1. SessionInv => SessionOwned
  <2> SUFFICES ASSUME SessionInv PROVE SessionOwned
    OBVIOUS
  <2>1. ws \in Session!Servers /\ (ws.shaken => ws.fd # Session!Nobody)
    BY EnvParts DEF Placed, Nobody
  <2>2. Session!TypeOK
    BY <2>1, EnvParts DEF Session!TypeOK, Spoken, Messages, Clients, Nobody
  <2>3. /\ ws.shaken => said[ws.fd] # <<>> /\ said[ws.fd][1] = "hello"
        /\ ws.authed => ws.shaken /\ prover = ws.fd
    BY EnvParts DEF Placed, Earned
  <2> QED
    BY <2>2, <2>3, EnvParts DEF SessionOwned, Session!SessionOwned
<1> QED
  BY <1>1, SessionAlways, PTL

\* A connection is closed or held by one of the queue, the pending slot and the
\* session, however often they displace each other: no descriptor leaks.
THEOREM DescriptorsKept == ViewSpec => []NoDescriptorLost
<1>1. SessionInv => NoDescriptorLost
  <2> SUFFICES ASSUME SessionInv PROVE NoDescriptorLost
    OBVIOUS
  <2>1. Placed(ws, came) /\ came \in 0..NClients
    BY EnvParts
  <2>2. \A c \in 1..came : c \in Clients /\ c <= came
    BY <2>1, SessionConstants DEF Clients, Session!Clients, Session!SessionAssumption
  <2>3. \A c : Session!Held(c) <=> HeldBy(ws, c)
    BY DEF Session!Held, HeldBy, Queued
  <2>4. \A c \in 1..came : c \in ws.closed <=> ~Session!Held(c)
    BY <2>1, <2>2, <2>3 DEF Placed
  <2>5. ws.pending = ws.fd => ws.fd = Session!Nobody
    BY <2>1 DEF Placed, Nobody
  <2> QED
    BY <2>4, <2>5 DEF NoDescriptorLost, Session!NoDescriptorLost
<1> QED
  BY <1>1, SessionAlways, PTL

\* How a session may end for its client, as ProbesHarmless has it.
MayEnd ==
  (ws.fd # Nobody /\ ws'.fd # ws.fd) =>
     \/ Session!EndsItself(ws.fd) \/ ~up'
     \/ ws'.fd # Nobody /\ said[ws'.fd] # <<>>
     \/ \E c \in ws'.closed \ (ws.closed \union {ws.fd}) :
           said[c] # <<>> /\ Session!EndsItself(c)

\* A pump ends a session for the client's own doing, or for one that spoke.
LEMMA PumpMayEnd == ASSUME SessionInv, Session!Pump PROVE MayEnd
<1>1. PICK r \in Session!Promote(Session!Accept(ws)) :
         Session!ReadNothing(r) \/ Session!ReadRequest(r) \/ Session!ReadFrame(r)
  BY DEF Session!Pump
<1>2. UNCHANGED <<up, came, said, gone>> /\ listening' = TRUE
  BY DEF Session!Pump
<1>3. /\ Placed(r, came) /\ Earned(r) /\ ws.closed \subseteq r.closed
      /\ \/ r.fd = ws.fd
         \/ /\ r.fd # Nobody /\ r.fd \notin ws.closed /\ r.fd # ws.fd
            /\ inbox[r.fd] # <<>> /\ ~r.shaken
  BY PumpBegins
<1>4. CASE Session!ReadNothing(r)
  <2>1. /\ r.fd # Nobody => inbox[r.fd] = <<>>
        /\ ws' = IF r.fd \in gone THEN Session!Drop(r) ELSE r
    BY <1>4 DEF Session!ReadNothing, Nobody
  <2>2. r.fd = ws.fd
    BY <1>3, <2>1
  <2> QED
    BY <2>1, <2>2 DEF MayEnd, Session!EndsItself
<1>5. CASE Session!ReadRequest(r)
  <2>1. /\ r.fd # Nobody /\ inbox[r.fd] # <<>> /\ ~r.shaken
        /\ r.fd \in Clients /\ r.fd \notin r.closed
    BY <1>3, <1>5, ServerParts DEF Session!ReadRequest, Nobody, Placed, HeldBy
  <2>2. said[r.fd] # <<>>
    BY <1>3, <2>1 DEF Earned
  <2>3. CASE ws' = [r EXCEPT !.shaken = TRUE]
    <3>1. ws'.fd = r.fd
      BY <1>3, <2>3 DEF Placed, Session!Servers
    <3> QED
      BY <2>1, <2>2, <3>1 DEF MayEnd
  <2>4. CASE ws' = Session!Drop(r)
    <3>1. Session!EndsItself(r.fd)
      BY <1>1, <1>2, <1>5, <2>4, RequestKeeps DEF Session!EndsItself
    <3>2. r.fd \in ws'.closed
      BY <1>3, <2>1, <2>4, DropPlaced
    <3>3. CASE r.fd = ws.fd
      BY <3>1, <3>3 DEF MayEnd
    <3>4. CASE r.fd # ws.fd
      BY <1>3, <2>2, <3>1, <3>2, <3>4 DEF MayEnd
    <3> QED
      BY <3>3, <3>4
  <2> QED
    BY <1>1, <1>2, <1>5, <2>3, <2>4, RequestKeeps
<1>6. CASE Session!ReadFrame(r)
  <2>1. r.shaken /\ (ws'.fd # r.fd => Session!EndsItself(r.fd))
    BY <1>1, <1>2, <1>6, FrameKeeps DEF Session!EndsItself
  <2> QED
    BY <1>3, <2>1 DEF MayEnd
<1> QED
  BY <1>1, <1>4, <1>5, <1>6

\* Junk probes and dead backlog entries never kick anyone: a step that ends a
\* session follows what its client did, the loss of the network, or another
\* client that has sent something.
THEOREM ProbesEndNothing == ViewSpec => ProbesHarmless
<1>1. SessionInv /\ [ViewNext]_viewVars => [MayEnd]_(Session!vars)
  <2> SUFFICES ASSUME SessionInv, [ViewNext]_viewVars PROVE MayEnd
    OBVIOUS
  <2>1. [Session!Next]_sessionVars
    BY SessionPart
  <2>2. CASE Session!LinkLost
    BY <2>2 DEF Session!LinkLost, MayEnd
  <2>3. CASE Session!Connect
    <3>1. ws'.fd = ws.fd
      BY <2>3, EnvParts DEF Session!Connect, Placed, Session!Servers
    <3> QED
      BY <3>1 DEF MayEnd
  <2>4. CASE UNCHANGED ws
    BY <2>4 DEF MayEnd
  <2> QED
    BY <2>1, <2>2, <2>3, <2>4, PumpMayEnd
       DEF Session!Next, Session!Rejoin, Session!LinkBack, Session!Leave, Session!Send, sessionVars
<1> QED
  BY <1>1, SessionAlways, PTL
     DEF ViewSpec, ProbesHarmless, Session!ProbesHarmless, MayEnd, Nobody

-----------------------------------------------------------------------------
(* Induction                                                               *)
(*                                                                         *)
(* The induction theorems of the library have an operator as a parameter;  *)
(* WFMin has a set instead, and from it follows induction for sets.        *)

\* A set of numbers that is not empty has a least one.
LEMMA Least ==
  ASSUME NEW T, T \subseteq Nat, T # {}
  PROVE  \E x \in T : \A y \in T : x <= y
<1> DEFINE R == {z \in Nat \X Nat : z[1] < z[2]}
<1>1. IsWellFoundedOn(R, Nat)
  BY NatLessThanWellFounded DEF OpToRel
<1>2. PICK x \in T : \A y \in T : <<y, x>> \notin R
  <2> HIDE DEF R
  <2> QED
    BY <1>1, WFMin
<1>3. ASSUME NEW y \in T
      PROVE  x <= y
  <2>1. ~(y < x)
    BY <1>2
  <2> QED
    BY <2>1
<1> QED
  BY <1>3

\* Induction over the natural numbers.
LEMMA SetInduction ==
  ASSUME NEW T, 0 \in T, \A n \in Nat : n \in T => n + 1 \in T
  PROVE  \A n \in Nat : n \in T
<1> DEFINE U == {n \in Nat : n \notin T}
<1>1. CASE U = {}
  BY <1>1
<1>2. CASE U # {}
  <2>1. PICK x \in U : \A y \in U : x <= y
    <3>1. U \subseteq Nat
      OBVIOUS
    <3> HIDE DEF U
    <3> QED
      BY <1>2, <3>1, Least
  <2>2. x # 0 /\ x \in Nat
    OBVIOUS
  <2>3. x - 1 \in Nat /\ ~(x <= x - 1) /\ (x - 1) + 1 = x
    BY <2>2
  <2>4. x - 1 \in T
    BY <2>1, <2>3
  <2> QED
    BY <2>2, <2>3, <2>4
<1> QED
  BY <1>1, <1>2

\* The maximum of a set of small numbers is its largest element.
LEMMA MaxOf ==
  ASSUME NEW n \in Nat, NEW s \in SUBSET (1..n), s # {}
  PROVE  Max(s) \in s /\ \A y \in s : y <= Max(s)
<1> DEFINE T == {i \in Nat : n - i \in s}
<1>1. T # {}
  <2>1. PICK y \in s : TRUE
    OBVIOUS
  <2>2. n - y \in Nat /\ n - (n - y) = y
    OBVIOUS
  <2> QED
    BY <2>1, <2>2
<1>2. PICK i \in T : \A j \in T : i <= j
  <2>1. T \subseteq Nat
    OBVIOUS
  <2> HIDE DEF T
  <2> QED
    BY <1>1, <2>1, Least
<1>3. ASSUME NEW y \in s
      PROVE  n - i >= y
  <2>1. n - y \in Nat /\ n - (n - y) = y
    OBVIOUS
  <2>2. i <= n - y
    BY <1>2, <2>1
  <2> QED
    BY <2>2
<1>4. \E x \in s : \A y \in s : x >= y
  BY <1>2, <1>3
<1>5. Max(s) \in s /\ \A y \in s : Max(s) >= y
  BY <1>4 DEF Max
<1> QED
  BY <1>5

-----------------------------------------------------------------------------
(* What Feed computes: DevRx for one byte after the other                  *)

\* f is the result of the fold for every set of the first k positions of ps.
Folded(f, base, ps, k) ==
  f = [s \in SUBSET (1..k) |->
         IF s = {} THEN base ELSE DevRx(f[s \ {Max(s)}], ps[Max(s)])]

\* The recursion of the fold has a solution.
LEMMA FoldExists ==
  ASSUME NEW base, NEW ps
  PROVE  \A k \in Nat : \E f : Folded(f, base, ps, k)
<1> DEFINE T == {k \in Nat : \E f : Folded(f, base, ps, k)}
<1>1. 0 \in T
  <2> DEFINE f == [s \in SUBSET (1..0) |-> base]
  <2>1. \A s \in SUBSET (1..0) : s = {}
    OBVIOUS
  <2>2. f = [s \in SUBSET (1..0) |->
               IF s = {} THEN base ELSE DevRx(f[s \ {Max(s)}], ps[Max(s)])]
    BY <2>1
  <2> QED
    BY <2>2 DEF Folded
<1>2. ASSUME NEW k \in T
      PROVE  k + 1 \in T
  <2>1. PICK f : Folded(f, base, ps, k)
    OBVIOUS
  <2> DEFINE G(s) == IF s \in SUBSET (1..k) THEN f[s] ELSE DevRx(f[s \ {k + 1}], ps[k + 1])
             g == [s \in SUBSET (1..(k + 1)) |-> G(s)]
  <2>2. ASSUME NEW s \in SUBSET (1..(k + 1))
        PROVE  g[s] = IF s = {} THEN base ELSE DevRx(g[s \ {Max(s)}], ps[Max(s)])
    <3>1. g[s] = G(s)
      OBVIOUS
    <3>2. CASE s \in SUBSET (1..k)
      <4>1. f[s] = IF s = {} THEN base ELSE DevRx(f[s \ {Max(s)}], ps[Max(s)])
        <5> HIDE DEF g
        <5> QED
          BY <2>1, <3>2 DEF Folded
      <4>2. s \ {Max(s)} \in SUBSET (1..k) /\ s \ {Max(s)} \in SUBSET (1..(k + 1))
        BY <3>2
      <4>3. g[s \ {Max(s)}] = f[s \ {Max(s)}]
        BY <4>2
      <4> HIDE DEF g
      <4> QED
        BY <3>1, <3>2, <4>1, <4>3
    <3>3. CASE s \notin SUBSET (1..k)
      <4>1. k + 1 \in s /\ s # {}
        BY <3>3
      <4>2. Max(s) = k + 1
        <5>1. k + 1 \in Nat
          OBVIOUS
        <5>2. Max(s) \in s /\ \A y \in s : y <= Max(s)
          BY <4>1, <5>1, MaxOf
        <5>3. Max(s) \in 1..(k + 1) /\ k + 1 <= Max(s)
          BY <5>2, <4>1
        <5> QED
          BY <5>3
      <4>3. s \ {k + 1} \in SUBSET (1..k) /\ s \ {k + 1} \in SUBSET (1..(k + 1))
        OBVIOUS
      <4>4. g[s \ {k + 1}] = f[s \ {k + 1}]
        BY <4>3
      <4>5. G(s) = DevRx(f[s \ {k + 1}], ps[k + 1])
        BY <3>3
      <4> HIDE DEF g
      <4> QED
        BY <3>1, <4>1, <4>2, <4>4, <4>5
    <3> QED
      BY <3>2, <3>3
  <2>3. Folded(g, base, ps, k + 1)
    <3>1. g = [s \in SUBSET (1..(k + 1)) |-> g[s]]
      OBVIOUS
    <3> HIDE DEF g
    <3>2. [s \in SUBSET (1..(k + 1)) |-> g[s]]
            = [s \in SUBSET (1..(k + 1)) |->
                 IF s = {} THEN base ELSE DevRx(g[s \ {Max(s)}], ps[Max(s)])]
      BY <2>2
    <3> QED
      BY <3>1, <3>2 DEF Folded
  <2> QED
    BY <2>3
<1>3. \A n \in Nat : n \in T
  <2> HIDE DEF T
  <2> QED
    BY <1>1, <1>2, SetInduction
<1> QED
  BY <1>3

\* skrit_dev_rx after the bytes ps.
FedState(base, ps) == FoldLeft(DevRx, base, ps)

\* A chain of states from base along n bytes.
IsChain(base, ps, n) ==
  \E g : /\ g[0] = base
         /\ \A k \in 0..(n - 1) : g[k + 1] = DevRx(g[k], ps[k + 1])
         /\ FedState(base, ps) = g[n]

\* The fold over n bytes is the last of a chain of states, each DevRx of the one
\* before.
LEMMA FoldIsChain ==
  ASSUME NEW base, NEW n \in Nat, NEW ps, DOMAIN ps = 1..n
  PROVE  IsChain(base, ps, n)
<1>1. FoldLeft(DevRx, base, ps) =
        (CHOOSE f : f = [s \in SUBSET DOMAIN ps |->
                           IF s = {} THEN base
                           ELSE DevRx(f[s \ {Max(s)}], ps[Max(s)])])[DOMAIN ps]
  BY DEF FoldLeft, MapThenFoldSet
<1> DEFINE f == CHOOSE h : Folded(h, base, ps, n)
<1>2. Folded(f, base, ps, n)
  BY FoldExists
<1>3. FoldLeft(DevRx, base, ps) = f[1..n]
  BY <1>1 DEF Folded
<1> HIDE DEF f
<1> DEFINE g == [k \in 0..n |-> f[1..k]]
<1>4. g[0] = base
  <2>1. 1..0 = {} /\ 1..0 \in SUBSET (1..n)
    OBVIOUS
  <2>2. f[1..0] = base
    BY <1>2, <2>1 DEF Folded
  <2> QED
    BY <2>2
<1>5. ASSUME NEW k \in 0..(n - 1)
      PROVE  g[k + 1] = DevRx(g[k], ps[k + 1])
  <2>1. k + 1 \in 1..n /\ k \in Nat /\ k + 1 \in Nat
    OBVIOUS
  <2>2. 1..(k + 1) \in SUBSET (1..n) /\ k + 1 \in 1..(k + 1)
    BY <2>1
  <2>3. 1..(k + 1) # {} /\ 1..(k + 1) \in SUBSET (1..(k + 1))
    BY <2>2
  <2>4. Max(1..(k + 1)) = k + 1
    <3>1. Max(1..(k + 1)) \in 1..(k + 1) /\ k + 1 <= Max(1..(k + 1))
      BY <2>1, <2>2, <2>3, MaxOf
    <3> QED
      BY <3>1
  <2>5. (1..(k + 1)) \ {k + 1} = 1..k
    BY <2>1
  <2>6. f[1..(k + 1)] = DevRx(f[1..k], ps[k + 1])
    BY <1>2, <2>2, <2>3, <2>4, <2>5 DEF Folded
  <2>7. g[k + 1] = f[1..(k + 1)] /\ g[k] = f[1..k]
    BY <2>1
  <2> HIDE DEF g
  <2> QED
    BY <2>6, <2>7
<1>6. g[n] = f[1..n]
  OBVIOUS
<1> HIDE DEF g
<1>7. FedState(base, ps) = g[n]
  BY <1>3, <1>6 DEF FedState
<1> QED
  BY <1>4, <1>5, <1>7 DEF IsChain

-----------------------------------------------------------------------------
(* The receiver along the mux stream                                       *)

\* The state of skrit_dev_rx after L positions of the stream of session n, if the
\* session began between two frames.
DevAt(s, L, n) ==
  /\ s = [mode |-> s.mode, rx |-> s.rx, ran |-> s.ran]
  /\ s.mode = IF L % Period = 0 THEN "idle" ELSE "frame"
  /\ L % Period = 1 => s.rx = <<>>
  /\ L % Period = 2 => s.rx = << <<n, L>> >>
  /\ L % Period = 3 => s.rx = << <<n, L - 1>>, <<n, L>> >>
  /\ s.ran \in Seq(Nat \X Nat) /\ Len(s.ran) = L \div Period
  /\ \A m \in 1..(L \div Period) : s.ran[m] = <<n, m>>

\* One and two bytes of a command.
LEMMA TwoBytes ==
  ASSUME NEW S, NEW a \in S, NEW b \in S
  PROVE  /\ Append(<<>>, a) = <<a>>
         /\ Append(<<a>>, b) = <<a, b>>
<1>1. /\ <<>> \in Seq(S) /\ Len(<<>>) = 0 /\ <<a>> \in Seq(S) /\ Len(<<a>>) = 1
      /\ <<a>>[1] = a
  OBVIOUS
<1>2. <<a, b>> \in Seq(S) /\ Len(<<a, b>>) = 2 /\ <<a, b>>[1] = a /\ <<a, b>>[2] = b
  OBVIOUS
<1>3. Append(<<>>, a) = <<a>>
  <2>1. Append(<<>>, a) \in Seq(S) /\ Len(Append(<<>>, a)) = 1 /\ Append(<<>>, a)[1] = a
    BY <1>1, AppendProperties
  <2>2. \A i \in 1..Len(Append(<<>>, a)) : Append(<<>>, a)[i] = <<a>>[i]
    BY <1>1, <2>1
  <2> QED
    BY <1>1, <2>1, <2>2, SeqEqual
<1>4. Append(<<a>>, b) = <<a, b>>
  <2>1. /\ Append(<<a>>, b) \in Seq(S) /\ Len(Append(<<a>>, b)) = 2
        /\ Append(<<a>>, b)[1] = a /\ Append(<<a>>, b)[2] = b
    BY <1>1, AppendProperties
  <2>2. \A i \in 1..Len(Append(<<a>>, b)) : Append(<<a>>, b)[i] = <<a, b>>[i]
    <3>1. 1..Len(Append(<<a>>, b)) = {1, 2}
      BY <2>1
    <3> QED
      BY <1>2, <2>1, <3>1
  <2> QED
    BY <1>2, <2>1, <2>2, SeqEqual
<1> QED
  BY <1>3, <1>4

\* The bytes of a command are one.
LEMMA CommandBytes ==
  ASSUME NEW s, NEW n \in Nat, NEW p \in Nat, p % Period = 2, s.rx = << <<n, p>>, <<n, p + 1>> >>
  PROVE  Segment(s) = Append(s.ran, <<n, 1 + p \div Period>>)
<1>1. Len(s.rx) = 2 /\ s.rx[1] = <<n, p>> /\ s.rx[2] = <<n, p + 1>>
  OBVIOUS
<1>2. s.rx[1][1] = n /\ s.rx[1][2] = p
  BY <1>1
<1> QED
  BY <1>1, <1>2 DEF Segment

\* The byte that ends a command.
LEMMA EndOfFrame ==
  ASSUME NEW s, NEW p, s.mode = "frame", Delimiter(p)
  PROVE  DevRx(s, p) = [mode |-> "idle", rx |-> <<>>, ran |-> Segment(s)]
<1>1. s.mode # "idle"
  OBVIOUS
<1> QED
  BY <1>1 DEF DevRx

\* The next byte takes it to the next state.
LEMMA DevStep ==
  ASSUME sess \in Nat, NEW s, NEW L \in Nat, DevAt(s, L, sess)
  PROVE  DevAt(DevRx(s, L + 1), L + 1, sess)
<1> DEFINE t == DevRx(s, L + 1)
<1>0. /\ s = [mode |-> s.mode, rx |-> s.rx, ran |-> s.ran]
      /\ s.ran \in Seq(Nat \X Nat) /\ Len(s.ran) = L \div 4
      /\ \A m \in 1..(L \div 4) : s.ran[m] = <<sess, m>>
  BY DEF DevAt, Period
<1>1. CASE L % 4 = 0
  <2>1. (L + 1) % 4 = 1 /\ (L + 1) \div 4 = L \div 4
    BY <1>1
  <2>2. s.mode = "idle"
    BY <1>1 DEF DevAt, Period
  <2>3. Delimiter(L + 1)
    BY <2>1 DEF Delimiter, Period
  <2>4. t = [s EXCEPT !.mode = "frame", !.rx = <<>>]
    BY <2>2, <2>3 DEF DevRx
  <2>5. t = [mode |-> "frame", rx |-> <<>>, ran |-> s.ran]
    BY <1>0, <2>4
  <2> HIDE DEF t
  <2>6. t.mode = "frame" /\ t.rx = <<>> /\ t.ran = s.ran
    BY <2>5
  <2>7. t = [mode |-> t.mode, rx |-> t.rx, ran |-> t.ran]
    BY <2>5, <2>6
  <2>8. /\ ~((L + 1) % 4 = 0) /\ ~((L + 1) % 4 = 2) /\ ~((L + 1) % 4 = 3)
        /\ Len(t.ran) = (L + 1) \div 4
        /\ \A m \in 1..((L + 1) \div 4) : t.ran[m] = <<sess, m>>
    <3>1. ~((L + 1) % 4 = 0) /\ ~((L + 1) % 4 = 2) /\ ~((L + 1) % 4 = 3)
      BY <2>1
    <3>2. (L + 1) \div 4 = L \div 4
      BY <2>1
    <3> QED
      BY <1>0, <2>6, <3>1, <3>2
  <2>9. DevAt(t, L + 1, sess)
    BY <1>0, <2>6, <2>7, <2>8 DEF DevAt, Period
  <2> QED
    BY <2>9 DEF t
<1>2. CASE L % 4 = 1
  <2>1. (L + 1) % 4 = 2 /\ (L + 1) \div 4 = L \div 4
    BY <1>2
  <2>2. s.mode = "frame" /\ s.rx = <<>>
    BY <1>2 DEF DevAt, Period
  <2>3. ~Delimiter(L + 1)
    BY <2>1 DEF Delimiter, Period
  <2>4. t = [s EXCEPT !.rx = Append(@, <<sess, L + 1>>)]
    BY <2>2, <2>3 DEF DevRx
  <2>5. Append(<<>>, <<sess, L + 1>>) = << <<sess, L + 1>> >>
    BY TwoBytes
  <2>6. t = [mode |-> "frame", rx |-> << <<sess, L + 1>> >>, ran |-> s.ran]
    BY <1>0, <2>2, <2>4, <2>5
  <2> HIDE DEF t
  <2>7. t.mode = "frame" /\ t.rx = << <<sess, L + 1>> >> /\ t.ran = s.ran
    BY <2>6
  <2>8. t = [mode |-> t.mode, rx |-> t.rx, ran |-> t.ran]
    BY <2>6, <2>7
  <2>9. /\ ~((L + 1) % 4 = 0) /\ ~((L + 1) % 4 = 1) /\ ~((L + 1) % 4 = 3)
        /\ Len(t.ran) = (L + 1) \div 4
        /\ \A m \in 1..((L + 1) \div 4) : t.ran[m] = <<sess, m>>
    <3>1. ~((L + 1) % 4 = 0) /\ ~((L + 1) % 4 = 1) /\ ~((L + 1) % 4 = 3)
      BY <2>1
    <3>2. (L + 1) \div 4 = L \div 4
      BY <2>1
    <3> QED
      BY <1>0, <2>7, <3>1, <3>2
  <2>10. DevAt(t, L + 1, sess)
    BY <1>0, <2>1, <2>7, <2>8, <2>9 DEF DevAt, Period
  <2> QED
    BY <2>10 DEF t
<1>3. CASE L % 4 = 2
  <2>1. (L + 1) % 4 = 3 /\ (L + 1) \div 4 = L \div 4 /\ (L + 1) - 1 = L
    BY <1>3
  <2>2. s.mode = "frame" /\ s.rx = << <<sess, L>> >>
    BY <1>3 DEF DevAt, Period
  <2>3. ~Delimiter(L + 1)
    BY <2>1 DEF Delimiter, Period
  <2>4. t = [s EXCEPT !.rx = Append(@, <<sess, L + 1>>)]
    BY <2>2, <2>3 DEF DevRx
  <2>5. Append(<< <<sess, L>> >>, <<sess, L + 1>>) = << <<sess, L>>, <<sess, L + 1>> >>
    <3>1. <<sess, L>> \in Nat \X Nat /\ <<sess, L + 1>> \in Nat \X Nat
      OBVIOUS
    <3> QED
      BY <3>1, TwoBytes
  <2>6. t = [mode |-> "frame", rx |-> << <<sess, L>>, <<sess, L + 1>> >>, ran |-> s.ran]
    BY <1>0, <2>2, <2>4, <2>5
  <2> HIDE DEF t
  <2>7. t.mode = "frame" /\ t.rx = << <<sess, L>>, <<sess, L + 1>> >> /\ t.ran = s.ran
    BY <2>6
  <2>8. t = [mode |-> t.mode, rx |-> t.rx, ran |-> t.ran]
    BY <2>6, <2>7
  <2>9. /\ ~((L + 1) % 4 = 0) /\ ~((L + 1) % 4 = 1) /\ ~((L + 1) % 4 = 2)
        /\ Len(t.ran) = (L + 1) \div 4
        /\ \A m \in 1..((L + 1) \div 4) : t.ran[m] = <<sess, m>>
    <3>1. ~((L + 1) % 4 = 0) /\ ~((L + 1) % 4 = 1) /\ ~((L + 1) % 4 = 2)
      BY <2>1
    <3>2. (L + 1) \div 4 = L \div 4
      BY <2>1
    <3> QED
      BY <1>0, <2>7, <3>1, <3>2
  <2>10. DevAt(t, L + 1, sess)
    BY <1>0, <2>1, <2>7, <2>8, <2>9 DEF DevAt, Period
  <2> QED
    BY <2>10 DEF t
<1>4. CASE L % 4 = 3
  <2>1. /\ (L + 1) % 4 = 0 /\ (L + 1) \div 4 = L \div 4 + 1 /\ L - 1 \in Nat
        /\ (L - 1) % 4 = 2 /\ L = (L - 1) + 1 /\ 1 + (L - 1) \div 4 = L \div 4 + 1
        /\ L \div 4 \in Nat
    BY <1>4
  <2>2. s.mode = "frame" /\ s.rx = << <<sess, L - 1>>, <<sess, L>> >>
    BY <1>4 DEF DevAt, Period
  <2>3. Delimiter(L + 1)
    BY <2>1 DEF Delimiter, Period
  <2>4. t = [mode |-> "idle", rx |-> <<>>, ran |-> Segment(s)]
    BY <2>2, <2>3, EndOfFrame
  <2>5. Segment(s) = Append(s.ran, <<sess, L \div 4 + 1>>)
    <3> DEFINE p == L - 1
    <3>1. p \in Nat /\ p % Period = 2 /\ L = p + 1 /\ 1 + p \div Period = L \div 4 + 1
      BY <2>1 DEF Period
    <3>2. s.rx = << <<sess, p>>, <<sess, p + 1>> >>
      BY <2>2, <3>1
    <3> HIDE DEF p
    <3>3. Segment(s) = Append(s.ran, <<sess, 1 + p \div Period>>)
      BY <3>1, <3>2, CommandBytes
    <3> QED
      BY <3>1, <3>3
  <2> DEFINE r == Append(s.ran, <<sess, L \div 4 + 1>>)
  <2>6. <<sess, L \div 4 + 1>> \in Nat \X Nat
    BY <2>1
  <2>7. /\ r \in Seq(Nat \X Nat) /\ Len(r) = L \div 4 + 1
        /\ r[L \div 4 + 1] = <<sess, L \div 4 + 1>>
        /\ \A m \in 1..(L \div 4) : r[m] = s.ran[m]
    BY <1>0, <2>6, AppendProperties
  <2>8. \A m \in 1..(L \div 4 + 1) : m \in 1..(L \div 4) \/ m = L \div 4 + 1
    BY <2>1
  <2>9. \A m \in 1..(L \div 4 + 1) : r[m] = <<sess, m>>
    BY <1>0, <2>7, <2>8
  <2>10. t = [mode |-> "idle", rx |-> <<>>, ran |-> r]
    BY <2>4, <2>5
  <2> HIDE DEF t, r
  <2>11. t.mode = "idle" /\ t.rx = <<>> /\ t.ran = r
    BY <2>10
  <2>12. t = [mode |-> t.mode, rx |-> t.rx, ran |-> t.ran]
    BY <2>10, <2>11
  <2>13. /\ ~((L + 1) % 4 = 1) /\ ~((L + 1) % 4 = 2) /\ ~((L + 1) % 4 = 3)
         /\ Len(t.ran) = (L + 1) \div 4 /\ t.ran \in Seq(Nat \X Nat)
         /\ \A m \in 1..((L + 1) \div 4) : t.ran[m] = <<sess, m>>
    <3>1. ~((L + 1) % 4 = 1) /\ ~((L + 1) % 4 = 2) /\ ~((L + 1) % 4 = 3)
      BY <2>1
    <3>2. (L + 1) \div 4 = L \div 4 + 1
      BY <2>1
    <3> QED
      BY <2>7, <2>9, <2>11, <3>1, <3>2
  <2>14. DevAt(t, L + 1, sess)
    BY <2>1, <2>11, <2>12, <2>13 DEF DevAt, Period
  <2> QED
    BY <2>14 DEF t
<1>5. L % 4 \in {0, 1, 2, 3}
  OBVIOUS
<1> QED
  BY <1>1, <1>2, <1>3, <1>4, <1>5

\* The payload of a frame takes it along its positions.
LEMMA FeedSteps ==
  ASSUME sess \in Nat, NEW s, NEW L \in Nat, DevAt(s, L, sess), NEW n \in Nat
  PROVE  DevAt(FedState(s, [i \in 1..n |-> L + i]), L + n, sess)
<1> DEFINE ps == [i \in 1..n |-> L + i]
<1>1. PICK g : /\ g[0] = s
               /\ \A k \in 0..(n - 1) : g[k + 1] = DevRx(g[k], ps[k + 1])
               /\ FedState(s, ps) = g[n]
  <2>1. DOMAIN ps = 1..n
    OBVIOUS
  <2> HIDE DEF ps
  <2>2. IsChain(s, ps, n)
    BY <2>1, FoldIsChain
  <2> QED
    BY <2>2 DEF IsChain
<1> DEFINE T == {k \in Nat : k <= n => DevAt(g[k], L + k, sess)}
<1>2. 0 \in T
  BY <1>1
<1>3. ASSUME NEW k \in Nat, k \in T
      PROVE  k + 1 \in T
  <2> SUFFICES ASSUME k + 1 <= n PROVE DevAt(g[k + 1], L + (k + 1), sess)
    OBVIOUS
  <2>1. k <= n /\ k \in 0..(n - 1) /\ k + 1 \in 1..n
    OBVIOUS
  <2>2. L + k \in Nat /\ (L + k) + 1 = L + (k + 1) /\ ps[k + 1] = L + (k + 1)
    BY <2>1
  <2>3. DevAt(g[k], L + k, sess)
    BY <1>3, <2>1
  <2>4. g[k + 1] = DevRx(g[k], (L + k) + 1)
    BY <1>1, <2>1, <2>2
  <2> HIDE DEF ps, T
  <2>5. DevAt(DevRx(g[k], (L + k) + 1), (L + k) + 1, sess)
    BY <2>2, <2>3, DevStep
  <2> QED
    BY <2>2, <2>4, <2>5
<1>4. n \in T
  <2> HIDE DEF T
  <2> QED
    BY <1>2, <1>3, SetInduction
<1> HIDE DEF ps
<1>5. DevAt(FedState(s, ps), L + n, sess)
  BY <1>1, <1>4
<1> QED
  BY <1>5 DEF ps

-----------------------------------------------------------------------------
(* The stream of a session                                                 *)

FrameType == [op : {"bin", "ping", "close"}, len : Nat, end : Nat, upto : Nat]

\* What holds of every session: the frames follow one another, none is empty, and
\* the server has read no more than was sent.
FramesInv ==
  /\ server \in Servers /\ sess \in Nat
  /\ frames \in Seq(FrameType)
  /\ got \in Nat /\ got <= Total
  /\ \A k \in DOMAIN frames :
       /\ frames[k].end = Bytes(k - 1) + Size(frames[k])
       /\ frames[k].upto = Payload(k - 1) + IF Carries(frames[k]) THEN frames[k].len ELSE 0
  /\ \A j, k \in 0..Len(frames) : j < k => Bytes(j) < Bytes(k)

\* What has been decoded ends where a frame does, and what was fed is its payload.
Decoded == \E k \in 0..Len(frames) : Bytes(k) = lo /\ Payload(k) = Len(fed)

\* skrit_dev_rx, as DevRx sees it.
Receiver == [mode |-> mode, rx |-> rx, ran |-> ran]

\* The simulator waits for more only when it holds less than the longest frame.
RoomLeft == (server = "host" /\ phase = "open" /\ pc = "recv") => Held < Hdr + OutCap

\* What holds while everything fits.
FitInv ==
  /\ ~astray
  /\ lo \in Nat /\ lo <= got
  /\ fed \in Seq(Nat) /\ fed = [i \in 1..Len(fed) |-> i]
  /\ Decoded
  /\ RoomLeft
  /\ clean => DevAt(Receiver, Len(fed), sess)

StreamInv == FramesInv /\ (Sound => FitInv)

-----------------------------------------------------------------------------
(* Frames and where they end                                               *)

\* Bytes and positions are natural numbers.
LEMMA EndsAreNat ==
  ASSUME FramesInv, NEW k \in 0..Len(frames)
  PROVE  Bytes(k) \in Nat /\ Payload(k) \in Nat
<1>1. CASE k = 0
  BY <1>1 DEF Bytes, Payload
<1>2. CASE k # 0
  <2>1. k \in DOMAIN frames /\ frames[k] \in FrameType
    BY <1>2 DEF FramesInv
  <2>2. frames[k].end \in Nat /\ frames[k].upto \in Nat
    BY <2>1 DEF FrameType
  <2> QED
    BY <1>2, <2>2 DEF Bytes, Payload
<1> QED
  BY <1>1, <1>2

\* A frame ends its size after the one before it.
LEMMA NextEnd ==
  ASSUME FramesInv, NEW k \in 0..Len(frames), k # Len(frames)
  PROVE  /\ k + 1 \in DOMAIN frames /\ frames[k + 1] \in FrameType
         /\ frames[k + 1].len \in Nat
         /\ Bytes(k + 1) = Bytes(k) + Size(frames[k + 1])
         /\ Payload(k + 1) = Payload(k) + IF Carries(frames[k + 1]) THEN frames[k + 1].len ELSE 0
         /\ Size(frames[k + 1]) \in Nat /\ Hdr + frames[k + 1].len = Size(frames[k + 1])
<1>1. k \in Nat /\ k + 1 \in 1..Len(frames) /\ k + 1 # 0 /\ (k + 1) - 1 = k
  BY DEF FramesInv
<1>2. k + 1 \in DOMAIN frames /\ frames[k + 1] \in FrameType
  BY <1>1 DEF FramesInv
<1>3. frames[k + 1].len \in Nat
  BY <1>2 DEF FrameType
<1>4. /\ frames[k + 1].end = Bytes(k) + Size(frames[k + 1])
      /\ frames[k + 1].upto = Payload(k) + IF Carries(frames[k + 1]) THEN frames[k + 1].len ELSE 0
  BY <1>1, <1>2 DEF FramesInv
<1>5. Bytes(k + 1) = frames[k + 1].end /\ Payload(k + 1) = frames[k + 1].upto
  BY <1>1 DEF Bytes, Payload
<1>6. Size(frames[k + 1]) \in Nat /\ Hdr + frames[k + 1].len = Size(frames[k + 1])
  BY <1>3, RoomAssumption DEF Size
<1> QED
  BY <1>2, <1>3, <1>4, <1>5, <1>6

\* The frame at the start of the buffer is the one behind those decoded.
LEMMA CurrentIsNext ==
  ASSUME FramesInv, NEW k \in 0..Len(frames), k # Len(frames), Bytes(k) = lo
  PROVE  Current = k + 1
<1>1. k \in Nat /\ k + 1 \in DOMAIN frames /\ (k + 1) - 1 = k
  BY DEF FramesInv
<1>2. \E j \in DOMAIN frames : Bytes(j - 1) = lo
  BY <1>1
<1>3. Current \in DOMAIN frames /\ Bytes(Current - 1) = lo
  BY <1>2 DEF Current
<1> DEFINE j == Current - 1
<1>4. j \in 0..Len(frames) /\ Current = j + 1
  BY <1>3 DEF FramesInv
<1>5. Bytes(j) = Bytes(k) /\ Bytes(j) \in Nat
  BY <1>3, <1>4, EndsAreNat
<1> HIDE DEF j
<1>6. ~(j < k) /\ ~(k < j)
  BY <1>4, <1>5 DEF FramesInv
<1>7. j = k
  BY <1>1, <1>4, <1>6
<1> QED
  BY <1>4, <1>7

\* What is left to read ends with the last frame.
LEMMA UnreadFrame ==
  ASSUME FramesInv, NEW k \in 0..Len(frames), Bytes(k) = lo, lo < got
  PROVE  k # Len(frames)
<1>1. got <= Bytes(Len(frames)) /\ got \in Nat
  BY DEF FramesInv, Total
<1>2. Bytes(k) \in Nat
  BY EndsAreNat
<1> QED
  BY <1>1, <1>2

\* A step that leaves frames and session alone.
LEMMA FramesStay ==
  ASSUME FramesInv, UNCHANGED <<server, sess, frames>>, got' \in Nat, got' <= Total
  PROVE  FramesInv'
BY DEF FramesInv, Total, Bytes, Payload, Size, Carries

\* A step that decodes nothing.
LEMMA DecodedStays ==
  ASSUME Decoded, UNCHANGED <<frames, lo, fed>>
  PROVE  Decoded'
BY DEF Decoded, Bytes, Payload

\* What fits stays so.
LEMMA SoundStays ==
  ASSUME UNCHANGED <<server, request, frames>>
  PROVE  Sound' <=> Sound
BY DEF Sound, Over, Oversized, Size

-----------------------------------------------------------------------------
(* The steps                                                               *)

\* The servers begin between frames, with nothing read.
LEMMA StreamStarts == ASSUME Init PROVE StreamInv
<1>1. frames = <<>> /\ Len(frames) = 0 /\ DOMAIN frames = {} /\ 0..Len(frames) = {0}
  BY DEF Init
<1>2. /\ Bytes(0) = 0 /\ Payload(0) = 0
      /\ frames \in Seq(FrameType)
  BY <1>1 DEF Bytes, Payload
<1>3. Total = 0
  BY <1>1, <1>2 DEF Total
<1>4. FramesInv
  BY <1>1, <1>2, <1>3 DEF FramesInv, Init
<1>5. fed = <<>> /\ Len(fed) = 0 /\ fed \in Seq(Nat) /\ fed = [i \in 1..Len(fed) |-> i]
  BY DEF Init
<1>6. Decoded
  BY <1>1, <1>2, <1>5 DEF Decoded, Init
<1>7. DevAt(Receiver, Len(fed), sess)
  <2>1. Receiver.mode = "idle" /\ Receiver.ran = <<>> /\ Receiver.rx = rx
    BY DEF Init, Receiver
  <2>2. Receiver = [mode |-> Receiver.mode, rx |-> Receiver.rx, ran |-> Receiver.ran]
    BY DEF Receiver
  <2>3. <<>> \in Seq(Nat \X Nat) /\ Len(<<>>) = 0
    OBVIOUS
  <2>4. 0 % 4 = 0 /\ 0 \div 4 = 0
    OBVIOUS
  <2> QED
    BY <1>5, <2>1, <2>2, <2>3, <2>4 DEF DevAt, Period
<1>8. FitInv
  BY <1>5, <1>6, <1>7 DEF FitInv, RoomLeft, Init
<1> QED
  BY <1>4, <1>8 DEF StreamInv

\* A new session begins between frames; the receiver keeps its mode.
LEMMA ConnectFits == ASSUME StreamInv, NEW r, Connect(r) PROVE StreamInv'
<1>1. frames' = <<>> /\ Len(frames') = 0 /\ DOMAIN frames' = {} /\ 0..Len(frames') = {0}
  BY DEF Connect
<1>2. /\ server' \in Servers /\ sess' \in Nat
      /\ frames' \in Seq(FrameType) /\ got' = 0 /\ lo' = 0
      /\ fed' = <<>> /\ ran' = <<>>
  BY DEF StreamInv, FramesInv, Connect
<1>3. Total' = 0
  BY <1>1 DEF Total, Bytes
<1>4. \A j, k \in 0..Len(frames') : ~(j < k)
  BY <1>1
<1>5. FramesInv'
  BY <1>1, <1>2, <1>3, <1>4 DEF FramesInv
<1>6. ASSUME Sound' PROVE FitInv'
  <2>1. astray' = FALSE /\ r # "long"
    BY <1>6 DEF Connect, Sound
  <2>2. Len(fed') = 0 /\ fed' \in Seq(Nat) /\ fed' = [i \in 1..Len(fed') |-> i]
    BY <1>2
  <2>3. Decoded'
    BY <1>1, <1>2, <2>2 DEF Decoded, Bytes, Payload
  <2>4. RoomLeft'
    BY <1>2, RoomAssumption DEF RoomLeft, Held
  <2>5. ASSUME clean' PROVE DevAt(Receiver, Len(fed), sess)'
    <3>1. mode' = "idle"
      BY <2>5 DEF Connect
    <3>2. Receiver'.mode = "idle" /\ Receiver'.ran = <<>>
      BY <1>2, <3>1 DEF Receiver
    <3>3. Receiver' = [mode |-> Receiver'.mode, rx |-> Receiver'.rx, ran |-> Receiver'.ran]
      BY DEF Receiver
    <3>4. <<>> \in Seq(Nat \X Nat) /\ Len(<<>>) = 0
      OBVIOUS
    <3>5. 0 % 4 = 0 /\ 0 \div 4 = 0
      OBVIOUS
    <3> QED
      BY <2>2, <3>2, <3>3, <3>4, <3>5 DEF DevAt, Period
  <2> QED
    BY <1>2, <2>1, <2>2, <2>3, <2>4, <2>5 DEF FitInv
<1> QED
  BY <1>5, <1>6 DEF StreamInv

\* A frame behind the ones sent.
LEMMA SendFits ==
  ASSUME StreamInv, NEW op \in {"bin", "ping", "close"}, NEW len \in Nat, Send(op, len)
  PROVE  StreamInv'
<1> DEFINE l == Len(frames)
           f == [op |-> op, len |-> len, end |-> Total + Hdr + len,
                 upto |-> Payload(l) + IF op = "bin" THEN len ELSE 0]
<1>0. FramesInv /\ l \in Nat /\ l \in 0..l /\ frames \in Seq(FrameType)
  BY DEF StreamInv, FramesInv
<1>1. Total \in Nat /\ Payload(l) \in Nat /\ Hdr \in Nat \ {0}
  BY <1>0, EndsAreNat, RoomAssumption DEF Total
<1>2. f \in FrameType
  <2>1. Total + Hdr + len \in Nat /\ Payload(l) + (IF op = "bin" THEN len ELSE 0) \in Nat
    BY <1>1
  <2> QED
    BY <2>1 DEF FrameType
<1>3. /\ f.op = op /\ f.len = len /\ f.end = Total + Hdr + len
      /\ f.upto = Payload(l) + IF op = "bin" THEN len ELSE 0
  OBVIOUS
<1>4. frames' = Append(frames, f)
  BY DEF Send
<1> HIDE DEF f
<1>5. /\ frames' \in Seq(FrameType) /\ Len(frames') = l + 1 /\ frames'[l + 1] = f
      /\ \A k \in 1..l : frames'[k] = frames[k]
  BY <1>0, <1>2, <1>4, AppendProperties
<1> HIDE DEF l
<1>6. DOMAIN frames' = 1..(l + 1) /\ DOMAIN frames = 1..l /\ l + 1 # 0
  BY <1>0, <1>5 DEF l
<1> DEFINE B(k) == IF k = 0 THEN 0 ELSE frames'[k].end
           P(k) == IF k = 0 THEN 0 ELSE frames'[k].upto
<1>7. \A k \in 0..l : B(k) = Bytes(k) /\ P(k) = Payload(k)
  BY <1>0, <1>5 DEF Bytes, Payload
<1>8. /\ B(l + 1) = Bytes(l) + Hdr + len
      /\ P(l + 1) = Payload(l) + IF op = "bin" THEN len ELSE 0
  BY <1>0, <1>3, <1>5 DEF Total, l
<1>9. \A k \in 0..l : Bytes(k) \in Nat
  BY <1>0, EndsAreNat DEF l
<1>10. \A j, k \in 0..l : j < k => Bytes(j) < Bytes(k)
  BY <1>0 DEF FramesInv, l
<1> HIDE DEF B, P
<1>11. \A j, k \in 0..(l + 1) : j < k => B(j) < B(k)
  <2> SUFFICES ASSUME NEW j \in 0..(l + 1), NEW k \in 0..(l + 1), j < k PROVE B(j) < B(k)
    OBVIOUS
  <2>1. j \in 0..l
    BY <1>0
  <2>2. CASE k \in 0..l
    BY <1>7, <1>10, <2>1, <2>2
  <2>3. CASE k = l + 1
    <3>1. Bytes(j) <= Bytes(l) /\ Bytes(j) \in Nat /\ Bytes(l) \in Nat
      <4>1. j = l \/ j < l
        BY <1>0, <2>1
      <4> QED
        BY <1>0, <1>9, <1>10, <2>1, <4>1
    <3>2. B(j) = Bytes(j) /\ B(k) = Bytes(l) + Hdr + len
      BY <1>7, <1>8, <2>1, <2>3
    <3> QED
      BY <1>1, <3>1, <3>2
  <2> QED
    BY <1>0, <2>2, <2>3
<1>12. \A k \in 1..(l + 1) :
         /\ frames'[k].end = B(k - 1) + (Hdr + frames'[k].len)
         /\ frames'[k].upto = P(k - 1) + IF frames'[k].op = "bin" THEN frames'[k].len ELSE 0
  <2> SUFFICES ASSUME NEW k \in 1..(l + 1)
               PROVE  /\ frames'[k].end = B(k - 1) + (Hdr + frames'[k].len)
                      /\ frames'[k].upto =
                           P(k - 1) + IF frames'[k].op = "bin" THEN frames'[k].len ELSE 0
    OBVIOUS
  <2>1. k - 1 \in 0..l
    BY <1>0
  <2>2. B(k - 1) = Bytes(k - 1) /\ P(k - 1) = Payload(k - 1)
    BY <1>7, <2>1
  <2>3. CASE k \in 1..l
    <3>1. /\ frames[k].end = Bytes(k - 1) + (Hdr + frames[k].len)
          /\ frames[k].upto = Payload(k - 1) + IF frames[k].op = "bin" THEN frames[k].len ELSE 0
      BY <1>0, <1>6, <2>3 DEF FramesInv, Size, Carries
    <3>2. frames'[k] = frames[k]
      BY <1>5, <2>3
    <3> QED
      BY <2>2, <3>1, <3>2
  <2>4. CASE k = l + 1
    <3>1. k - 1 = l /\ frames'[k] = f
      BY <1>0, <1>5, <2>4
    <3>2. f.upto = P(k - 1) + IF f.op = "bin" THEN f.len ELSE 0
      BY <1>3, <2>2, <3>1
    <3>3. f.end = B(k - 1) + (Hdr + f.len)
      <4>1. Total = Bytes(l) /\ Bytes(l) \in Nat
        BY <1>0, <1>9 DEF Total, l
      <4> QED
        BY <1>1, <1>3, <2>2, <3>1, <4>1
    <3> QED
      BY <3>1, <3>2, <3>3
  <2> QED
    BY <1>0, <2>3, <2>4
<1>13. got' = got /\ got' \in Nat /\ got' <= B(l + 1)
  <2>1. got' = got /\ got \in Nat /\ got <= Bytes(l)
    BY <1>0 DEF Send, FramesInv, Total, l
  <2> QED
    BY <1>0, <1>1, <1>8, <1>9, <2>1
<1>14. FramesInv'
  <2>1. server' \in Servers /\ sess' \in Nat
    BY <1>0 DEF Send, FramesInv
  <2>2. Total' = B(l + 1)
    BY <1>5, <1>6 DEF Total, Bytes, B
  <2>3. \A k \in DOMAIN frames' :
          /\ frames'[k].end = Bytes(k - 1)' + Size(frames'[k])
          /\ frames'[k].upto = Payload(k - 1)' + IF Carries(frames'[k]) THEN frames'[k].len ELSE 0
    BY <1>6, <1>12 DEF Bytes, Payload, Size, Carries, B, P
  <2>4. \A j, k \in 0..Len(frames') : j < k => Bytes(j)' < Bytes(k)'
    BY <1>5, <1>11 DEF Bytes, B
  <2> QED
    BY <1>5, <1>13, <2>1, <2>2, <2>3, <2>4 DEF FramesInv
<1>15. ASSUME Sound' PROVE FitInv'
  <2>1. Sound
    BY <1>5, <1>6, <1>15, <1>0 DEF Sound, Over, Oversized, Size, Send
  <2>2. FitInv
    BY <2>1 DEF StreamInv
  <2>3. UNCHANGED <<server, sess, phase, pc, got, lo, astray, fed, mode, rx, ran, clean>>
    BY DEF Send, devVars
  <2>4. Decoded'
    <3>1. PICK k \in 0..l : Bytes(k) = lo /\ Payload(k) = Len(fed)
      BY <2>2 DEF FitInv, Decoded, l
    <3>2. k \in 0..(l + 1) /\ B(k) = lo' /\ P(k) = Len(fed')
      BY <1>0, <1>7, <2>3, <3>1
    <3> QED
      BY <1>5, <3>2 DEF Decoded, Bytes, Payload, B, P
  <2> QED
    BY <2>2, <2>3, <2>4 DEF FitInv, RoomLeft, Held, DevAt, Receiver
<1> QED
  BY <1>14, <1>15 DEF StreamInv

\* A client that goes away changes nothing that was decoded.
LEMMA LeaveFits == ASSUME StreamInv, Leave PROVE StreamInv'
<1>1. /\ UNCHANGED <<server, sess, request, frames, got, lo, astray, fed, mode, rx, ran, clean>>
      /\ phase' = "none"
  BY DEF Leave, tcpVars, devVars
<1>2. FramesInv'
  BY <1>1, FramesStay DEF StreamInv, FramesInv, Total, Bytes
<1>3. ASSUME Sound' PROVE FitInv'
  <2>1. FitInv
    BY <1>1, <1>3, SoundStays DEF StreamInv
  <2>2. Decoded'
    BY <1>1, <2>1, DecodedStays DEF FitInv
  <2> QED
    BY <1>1, <2>1, <2>2 DEF FitInv, RoomLeft, DevAt, Receiver
<1> QED
  BY <1>2, <1>3 DEF StreamInv

\* While the frames fit, no portion that recv returns finds the buffer too full.
LEMMA RecvFits == ASSUME StreamInv, NEW n \in Portion, Recv(n) PROVE StreamInv'
<1>1. n \in Nat /\ (server = "host" => n <= RecvMax)
  BY RoomAssumption DEF Portion
<1>2. /\ UNCHANGED <<server, sess, request, phase, frames, fed, mode, rx, ran, clean>>
      /\ got' = got + n /\ got + n <= Total /\ pc = "recv" /\ phase = "open" /\ pc' = "decode"
  BY DEF Recv, devVars
<1>3. got \in Nat /\ got' \in Nat /\ got' <= Total
  BY <1>1, <1>2 DEF StreamInv, FramesInv
<1>4. FramesInv'
  BY <1>2, <1>3, FramesStay DEF StreamInv
<1>5. ASSUME Sound' PROVE FitInv'
  <2>1. FitInv
    BY <1>2, <1>5, SoundStays DEF StreamInv
  <2>2. lo \in Nat /\ lo <= got /\ (server = "host" => got - lo < Hdr + OutCap)
    BY <1>2, <2>1 DEF FitInv, RoomLeft, Held
  <2>3. ~Flushes(n)
    <3> SUFFICES ASSUME server = "host" PROVE ~(got - lo + n > AccCap)
      BY DEF Flushes, Held
    <3>1. got - lo < Hdr + OutCap /\ n <= RecvMax
      BY <1>1, <2>2
    <3> QED
      BY <1>1, <1>3, <2>2, <3>1, RoomAssumption
  <2>4. UNCHANGED <<lo, astray>>
    BY <2>3 DEF Recv
  <2>5. Decoded'
    BY <1>2, <2>1, <2>4, DecodedStays DEF FitInv
  <2>6. lo' \in Nat /\ lo' <= got'
    BY <1>1, <1>2, <1>3, <2>2, <2>4
  <2> QED
    BY <1>2, <2>1, <2>4, <2>5, <2>6 DEF FitInv, RoomLeft, DevAt, Receiver
<1> QED
  BY <1>4, <1>5 DEF StreamInv

\* The payload of a frame behind what was fed before.
LEMMA FedOn ==
  ASSUME NEW s \in Seq(Nat), s = [i \in 1..Len(s) |-> i], NEW n \in Nat
  PROVE  LET t == s \o [i \in 1..n |-> Len(s) + i] IN
         t \in Seq(Nat) /\ Len(t) = Len(s) + n /\ t = [i \in 1..Len(t) |-> i]
<1> DEFINE p == [i \in 1..n |-> Len(s) + i]
           t == s \o p
           m == Len(s)
<1>1. m \in Nat /\ p \in Seq(Nat) /\ Len(p) = n /\ \A i \in 1..n : p[i] = m + i
  OBVIOUS
<1> HIDE DEF p
<1>2. /\ t \in Seq(Nat) /\ Len(t) = m + n
      /\ \A i \in 1..m : t[i] = s[i]
      /\ \A i \in (m + 1)..(m + n) : t[i] = p[i - m]
  <2>1. s \in Seq(Nat) /\ Len(s) = m
    OBVIOUS
  <2>2. /\ s \o p \in Seq(Nat) /\ Len(s \o p) = m + n
        /\ \A i \in 1..(m + n) : (s \o p)[i] = IF i <= m THEN s[i] ELSE p[i - m]
    <3>1. p \in Seq(Nat) /\ Len(p) = n
      BY <1>1
    <3>2. /\ s \o p \in Seq(Nat) /\ Len(s \o p) = Len(s) + Len(p)
          /\ \A i \in 1..(Len(s) + Len(p)) :
               (s \o p)[i] = IF i <= Len(s) THEN s[i] ELSE p[i - Len(s)]
      BY <2>1, <3>1, ConcatProperties
    <3> QED
      BY <3>1, <3>2
  <2>3. \A i \in 1..m : i \in 1..(m + n) /\ i <= m
    BY <1>1
  <2>4. \A i \in (m + 1)..(m + n) : i \in 1..(m + n) /\ ~(i <= m)
    BY <1>1
  <2> QED
    BY <2>2, <2>3, <2>4
<1>3. \A i \in 1..(m + n) : t[i] = i
  <2> SUFFICES ASSUME NEW i \in 1..(m + n) PROVE t[i] = i
    OBVIOUS
  <2>1. CASE i \in 1..m
    <3>1. s[i] = i
      BY <2>1
    <3> QED
      BY <1>2, <2>1, <3>1
  <2>2. CASE i \notin 1..m
    <3>1. i \in (m + 1)..(m + n) /\ i - m \in 1..n /\ m + (i - m) = i
      BY <1>1, <2>2
    <3> QED
      BY <1>1, <1>2, <3>1
  <2> QED
    BY <2>1, <2>2
<1>4. DOMAIN t = 1..Len(t)
  BY <1>2
<1> HIDE DEF t, m
<1>5. t = [i \in 1..Len(t) |-> i]
  <2>1. t = [i \in DOMAIN t |-> t[i]]
    BY <1>2
  <2> QED
    BY <1>2, <1>3, <1>4, <2>1
<1> QED
  BY <1>2, <1>5 DEF t, p, m

\* A frame that fits: its payload is the next of the stream.
LEMMA ConsumeFits ==
  ASSUME FramesInv, FitInv, Complete, Consume, phase = "open", pc = "decode",
         UNCHANGED <<server, sess, request, frames, got, clean>>
  PROVE  FitInv'
<1>1. PICK k \in 0..Len(frames) : Bytes(k) = lo /\ Payload(k) = Len(fed)
  BY DEF FitInv, Decoded
<1>2. lo < got
  BY DEF Complete
<1>3. k # Len(frames) /\ Current = k + 1
  BY <1>1, <1>2, UnreadFrame, CurrentIsNext
<1> DEFINE f == frames[k + 1]
<1>4. /\ k + 1 \in 0..Len(frames) /\ f.len \in Nat /\ Size(f) \in Nat
      /\ Bytes(k + 1) = lo + Size(f)
      /\ Payload(k + 1) = Len(fed) + IF Carries(f) THEN f.len ELSE 0
  <2>1. /\ k \in Nat /\ k + 1 \in DOMAIN frames
        /\ Len(frames) \in Nat /\ DOMAIN frames = 1..Len(frames)
    BY <1>3, NextEnd DEF FramesInv
  <2>2. k + 1 \in 0..Len(frames)
    BY <2>1
  <2> QED
    BY <1>1, <1>3, <2>2, NextEnd
<1>5. /\ lo' = lo + Size(f) /\ UNCHANGED <<phase, pc, astray>>
      /\ IF Carries(f) THEN Feed(Payload(k), f.len) ELSE UNCHANGED devVars
  <2>1. (k + 1) - 1 = k
    OBVIOUS
  <2> QED
    BY <1>3, <2>1 DEF Consume
<1>6. lo' \in Nat /\ lo' <= got'
  <2>1. lo \in Nat /\ got \in Nat /\ got - lo >= Size(f)
    BY <1>3 DEF FitInv, FramesInv, Complete, Held
  <2> QED
    BY <1>4, <1>5, <2>1
<1>7. Bytes(k + 1)' = lo' /\ Payload(k + 1)' = Payload(k + 1) /\ k + 1 \in 0..Len(frames')
  BY <1>4, <1>5 DEF Bytes, Payload
<1>8. RoomLeft'
  BY <1>5 DEF RoomLeft
<1> HIDE DEF f
<1>9. CASE ~Carries(f)
  <2>1. UNCHANGED <<fed, mode, rx, ran>>
    BY <1>5, <1>9 DEF devVars
  <2>2. fed \in Seq(Nat) /\ Len(fed) \in Nat
    BY DEF FitInv
  <2>3. Payload(k + 1)' = Len(fed')
    BY <1>4, <1>7, <1>9, <2>1, <2>2
  <2>4. Decoded'
    BY <1>7, <2>3 DEF Decoded
  <2> QED
    BY <1>5, <1>6, <1>8, <2>1, <2>4 DEF FitInv, DevAt, Receiver
<1>10. CASE Carries(f)
  <2> DEFINE L == Len(fed)
             n == f.len
             ps == [i \in 1..n |-> L + i]
             t == FedState(Receiver, ps)
  <2>0. fed \in Seq(Nat) /\ L \in Nat /\ n \in Nat /\ fed = [i \in 1..L |-> i]
    BY <1>4 DEF FitInv
  <2>1. fed' = fed \o ps /\ mode' = t.mode /\ rx' = t.rx /\ ran' = t.ran
    BY <1>1, <1>5, <1>10 DEF Feed, Receiver, FedState
  <2>2. fed' \in Seq(Nat) /\ Len(fed') = L + n /\ fed' = [i \in 1..Len(fed') |-> i]
    BY <2>0, <2>1, FedOn
  <2>3. Payload(k + 1)' = Len(fed')
    BY <1>4, <1>7, <1>10, <2>2
  <2>4. Decoded'
    BY <1>7, <2>3 DEF Decoded
  <2>5. ASSUME clean' PROVE DevAt(Receiver, Len(fed), sess)'
    <3>1. DevAt(Receiver, L, sess) /\ sess \in Nat
      BY <2>5 DEF FitInv, FramesInv
    <3>2. DevAt(t, L + n, sess)
      BY <2>0, <3>1, FeedSteps
    <3> HIDE DEF t
    <3>3. t = [mode |-> t.mode, rx |-> t.rx, ran |-> t.ran]
      BY <3>2 DEF DevAt
    <3>4. Receiver' = t
      BY <2>1, <3>3 DEF Receiver
    <3>5. DevAt(t, L + n, sess')
      BY <3>2
    <3> QED
      BY <2>2, <3>4, <3>5 DEF DevAt
  <2> HIDE DEF t, ps
  <2> QED
    BY <1>5, <1>6, <1>8, <2>2, <2>4, <2>5 DEF FitInv
<1> QED
  BY <1>9, <1>10

\* With no whole frame to decode the simulator holds less than the longest one.
LEMMA WaitFits ==
  ASSUME FramesInv, FitInv, Sound, ~Complete, Wait, phase = "open", pc = "decode",
         UNCHANGED <<server, sess, request, frames, got, clean>>
  PROVE  FitInv'
<1>1. UNCHANGED <<lo, astray, fed, mode, rx, ran>>
  BY DEF Wait, devVars
<1>2. ASSUME server = "host" PROVE Held < Hdr + OutCap
  <2>1. lo \in Nat /\ got \in Nat /\ lo <= got /\ Hdr \in Nat \ {0} /\ OutCap \in Nat
    BY RoomAssumption DEF FitInv, FramesInv
  <2>2. CASE lo = got
    BY <2>1, <2>2 DEF Held
  <2>3. CASE lo < got
    <3>1. PICK k \in 0..Len(frames) : Bytes(k) = lo /\ Payload(k) = Len(fed)
      BY DEF FitInv, Decoded
    <3>2. k # Len(frames) /\ Current = k + 1
      BY <3>1, <2>3, UnreadFrame, CurrentIsNext
    <3>3. /\ k + 1 \in DOMAIN frames /\ frames[k + 1].len \in Nat
          /\ Size(frames[k + 1]) \in Nat /\ Hdr + frames[k + 1].len = Size(frames[k + 1])
      BY <3>2, NextEnd
    <3>4. ~(Held >= Size(frames[k + 1]))
      BY <2>3, <3>2 DEF Complete
    <3>5. ~(frames[k + 1].len > OutCap)
      BY <1>2, <3>3 DEF Sound, Over, Oversized
    <3>6. Held \in Nat
      BY <2>1 DEF Held
    <3> QED
      BY <2>1, <3>3, <3>4, <3>5, <3>6
  <2> QED
    BY <2>1, <2>2, <2>3
<1>3. RoomLeft'
  BY <1>1, <1>2 DEF RoomLeft, Held
<1>4. Decoded'
  BY <1>1, DecodedStays DEF FitInv
<1> QED
  BY <1>1, <1>3, <1>4 DEF FitInv, DevAt, Receiver

\* A CLOSE frame ends the session where it was.
LEMMA EndFits ==
  ASSUME FitInv, End("none"), UNCHANGED <<server, sess, frames, got, clean>>
  PROVE  FitInv'
<1>1. UNCHANGED <<lo, astray, fed, mode, rx, ran>> /\ phase' = "none"
  BY DEF End, devVars
<1>2. Decoded'
  BY <1>1, DecodedStays DEF FitInv
<1> QED
  BY <1>1, <1>2 DEF FitInv, RoomLeft, DevAt, Receiver

\* A turn of the decoding loop: what fits is neither stray nor a bad frame.
LEMMA DecodeFits == ASSUME StreamInv, Decode PROVE StreamInv'
<1>1. /\ phase = "open" /\ pc = "decode"
      /\ UNCHANGED <<server, sess, request, frames, got, clean>>
  BY DEF Decode
<1>2. FramesInv /\ FramesInv'
  BY <1>1, FramesStay DEF StreamInv, FramesInv, Total, Bytes
<1>3. ASSUME Sound' PROVE FitInv'
  <2>1. Sound /\ FitInv /\ ~astray
    BY <1>1, <1>3, SoundStays DEF StreamInv, FitInv
  <2>2. CASE ~Complete
    <3>1. Wait
      BY <2>1, <2>2 DEF Decode
    <3> QED
      BY <1>1, <1>2, <2>1, <2>2, <3>1, WaitFits
  <2>3. CASE Complete
    <3> DEFINE f == frames[Current]
    <3>1. Current \in DOMAIN frames
      <4>1. PICK k \in 0..Len(frames) : Bytes(k) = lo /\ Payload(k) = Len(fed)
        BY <2>1 DEF FitInv, Decoded
      <4>2. k # Len(frames) /\ Current = k + 1
        BY <1>2, <2>3, <4>1, UnreadFrame, CurrentIsNext DEF Complete
      <4> QED
        BY <1>2, <4>2, NextEnd
    <3>2. ~Oversized(f)
      BY <2>1, <3>1 DEF Sound, Over
    <3>3. IF f.op = "close" THEN End("none") ELSE Consume
      BY <2>1, <2>3, <3>2 DEF Decode
    <3>4. CASE f.op = "close"
      BY <1>1, <2>1, <3>3, <3>4, EndFits
    <3>5. CASE f.op # "close"
      BY <1>1, <1>2, <2>1, <2>3, <3>3, <3>5, ConsumeFits
    <3> QED
      BY <3>4, <3>5
  <2> QED
    BY <2>2, <2>3
<1> QED
  BY <1>2, <1>3 DEF StreamInv

\* A step of the servers' bytes keeps the stream.
LEMMA StepFits == ASSUME StreamInv, Next PROVE StreamInv'
<1>1. CASE \E r \in {"hello", "nokey", "long"} : Connect(r)
  BY <1>1, ConnectFits
<1>2. CASE \E len \in Lens : Send("bin", len)
  BY <1>2, SendFits, BoundAssumption
<1>3. CASE \E len \in Pings : Send("ping", len)
  BY <1>3, SendFits, BoundAssumption
<1>4. CASE Send("close", 0)
  BY <1>4, SendFits
<1>5. CASE Leave
  BY <1>5, LeaveFits
<1>6. CASE \E n \in Portion : Recv(n)
  BY <1>6, RecvFits
<1>7. CASE Decode
  BY <1>7, DecodeFits
<1> QED
  BY <1>1, <1>2, <1>3, <1>4, <1>5, <1>6, <1>7 DEF Next

\* Steps of the other view leave the stream alone.
LEMMA StillFits == ASSUME StreamInv, UNCHANGED vars PROVE StreamInv'
<1>1. /\ UNCHANGED <<server, sess, request, phase, pc, frames, got, lo, astray>>
      /\ UNCHANGED <<fed, mode, rx, ran, clean>>
  BY DEF vars, tcpVars, devVars
<1>2. FramesInv'
  BY <1>1, FramesStay DEF StreamInv, FramesInv, Total, Bytes
<1>3. ASSUME Sound' PROVE FitInv'
  <2>1. FitInv
    BY <1>1, <1>3, SoundStays DEF StreamInv
  <2>2. Decoded'
    BY <1>1, <2>1, DecodedStays DEF FitInv
  <2> QED
    BY <1>1, <2>1, <2>2 DEF FitInv, RoomLeft, Held, DevAt, Receiver
<1> QED
  BY <1>2, <1>3 DEF StreamInv

\* The invariant gives the property.
LEMMA FitGivesExact == ASSUME StreamInv PROVE StreamExact
<1> SUFFICES ASSUME Sound
             PROVE  /\ fed = [i \in 1..Len(fed) |-> i]
                    /\ \E k \in 0..Len(frames) : Bytes(k) = lo /\ Payload(k) = Len(fed)
                    /\ clean => ran = [n \in 1..(Len(fed) \div Period) |-> <<sess, n>>]
  BY DEF StreamExact
<1>1. FitInv
  BY DEF StreamInv
<1>2. ASSUME clean PROVE ran = [n \in 1..(Len(fed) \div Period) |-> <<sess, n>>]
  <2> DEFINE q == Len(fed) \div Period
  <2>1. DevAt(Receiver, Len(fed), sess)
    BY <1>1, <1>2 DEF FitInv
  <2>2. Receiver.ran = ran
    BY DEF Receiver
  <2>3. ran \in Seq(Nat \X Nat) /\ Len(ran) = q /\ \A m \in 1..q : ran[m] = <<sess, m>>
    BY <2>1, <2>2 DEF DevAt
  <2> HIDE DEF q
  <2>4. ran = [n \in 1..q |-> ran[n]]
    BY <2>3
  <2>5. ran = [n \in 1..q |-> <<sess, n>>]
    BY <2>3, <2>4
  <2> QED
    BY <2>5 DEF q
<1> QED
  BY <1>1, <1>2 DEF FitInv, Decoded

\* However TCP and the client cut the stream, on each of the three servers, the
\* device gets the payload of the frames decoded, in order and once, as long as
\* everything fits; a session that begins between two mux frames executes its
\* commands, each once and in order.
THEOREM StreamIsExact == ViewSpec => []StreamExact
<1>1. ViewInit => StreamInv
  BY StreamStarts DEF ViewInit
<1>2. StreamInv /\ [ViewNext]_viewVars => StreamInv'
  <2> SUFFICES ASSUME StreamInv, [ViewNext]_viewVars PROVE StreamInv'
    OBVIOUS
  <2>1. Next \/ UNCHANGED vars
    BY DEF ViewNext, OnBytes, OnSession, viewVars
  <2> QED
    BY <2>1, StepFits, StillFits
<1>3. StreamInv => StreamExact
  BY FitGivesExact
<1> QED
  BY <1>1, <1>2, <1>3, PTL DEF ViewSpec

-----------------------------------------------------------------------------
(***************************************************************************)
(* What CFG_GET 0x12 reports of the ESP-IDF station is true, for any       *)
(* number of commands, outages and restarts.                               *)
(*                                                                         *)
(* StateIsReal speaks of a device at rest, where no event waits and no     *)
(* task is in the middle of a change; the proof needs what holds on the    *)
(* way there: what the events still in the queue will make of wifi_got_ip  *)
(* (AddressInv), which of the two halves of a command is still to come     *)
(* (NetworkInv), and which portal is being raised (PortalInv).             *)
(***************************************************************************)

-----------------------------------------------------------------------------
(* The inductive invariant                                                 *)

\* No event of q after the i-th takes the address away.
Kept(q, i) == \A j \in 1..Len(q) : j > i => q[j] # "disc"

\* What wifi_got_ip will be when the events of q are handled, if it is g now.
Address(g, q) == \/ g /\ Kept(q, 0)
                 \/ \E i \in 1..Len(q) : q[i] = "ip" /\ Kept(q, i)

\* The loop may be late with the loss of the network, but never with one that no
\* event reports.
AddressInv == Address(gotIp, queue) => sta = "up"

\* Only one task is in the middle of a change, unless `crossed' says so.
Alone == \A t, u \in Tasks : Changing(t) /\ Changing(u) => t = u

\* A network that was given is the one the driver has; one that was forgotten is
\* out of use, or about to be, and the loop writes states for a network only then.
NetworkInv ==
  ~crossed =>
    /\ Alone
    /\ creds.ssid # "none" => conf = creds
    /\ creds.ssid = "none" => state \in {"off", "portal"} \/ \E t \in Tasks : doing[t] = "forget"
    /\ \A t \in Tasks : doing[t] = "join" => creds.ssid # "none"
    /\ doing["bridge"] \in Seen => creds.ssid # "none"

Raising == doing["bridge"] = "portal"

\* The socket is made once, by the first portal, which finds the access point on.
PortalInv ==
  /\ portals = 0 => http = "none" /\ state # "portal" /\ ~Raising
  /\ Raising /\ portals = 1 => http = "none"
  /\ Raising /\ ~crossed => wifiMode \in {"ap", "apsta"}
  /\ (state = "portal" /\ portals = 1 /\ ~crossed) =>
        Served \/ \E t \in Tasks : doing[t] \in {"join", "forget"}

JoinInv == JoinTypeOK /\ AddressInv /\ NetworkInv /\ PortalInv

-----------------------------------------------------------------------------
(* The queue of events                                                     *)

\* A loss reported last leaves no address.
LEMMA LossIsLast ==
  ASSUME NEW q \in Seq(Events), NEW g \in BOOLEAN
  PROVE  ~Address(g, Append(q, "disc"))
<1> DEFINE r == Append(q, "disc")
<1>1. Len(r) \in Nat /\ Len(r) = Len(q) + 1 /\ Len(q) \in Nat /\ r[Len(r)] = "disc"
  OBVIOUS
<1> HIDE DEF r
<1>2. Len(r) \in 1..Len(r) /\ Len(r) > 0
  BY <1>1
<1>3. ASSUME NEW i \in 1..Len(r), r[i] = "ip", Kept(r, i)
      PROVE  FALSE
  <2>1. i # Len(r)
    BY <1>1, <1>3
  <2>2. Len(r) > i
    BY <2>1, <1>1
  <2> QED
    BY <1>1, <1>2, <1>3, <2>2 DEF Kept
<1>4. ~Kept(r, 0)
  BY <1>1, <1>2 DEF Kept
<1> QED
  BY <1>3, <1>4 DEF Address, r

\* The start of the driver says nothing about an address.
LEMMA StartIsNeutral ==
  ASSUME NEW q \in Seq(Events), NEW g \in BOOLEAN, Address(g, Append(q, "start"))
  PROVE  Address(g, q)
<1> DEFINE r == Append(q, "start")
<1>1. Len(q) \in Nat /\ Len(r) = Len(q) + 1 /\ r[Len(q) + 1] = "start"
      /\ \A i \in 1..Len(q) : r[i] = q[i]
  OBVIOUS
<1> HIDE DEF r
<1>2. \A i \in 1..Len(q) : i \in 1..Len(r)
  BY <1>1
<1>3. ASSUME NEW i \in Nat, Kept(r, i) PROVE Kept(q, i)
  BY <1>1, <1>2, <1>3 DEF Kept
<1>4. CASE g /\ Kept(r, 0)
  BY <1>3, <1>4 DEF Address
<1>5. ASSUME NEW i \in 1..Len(r), r[i] = "ip", Kept(r, i) PROVE Address(g, q)
  <2>1. i # Len(q) + 1
    BY <1>1, <1>5
  <2>2. i \in 1..Len(q) /\ i \in Nat
    BY <2>1, <1>1
  <2> QED
    BY <2>2, <1>1, <1>3, <1>5 DEF Address
<1> QED
  BY <1>4, <1>5 DEF Address, r

\* wifi_evt takes an event and does what it says.
LEMMA HandledAsQueued ==
  ASSUME NEW q \in Seq(Events), q # <<>>, NEW g \in BOOLEAN, NEW h \in BOOLEAN,
         Address(h, Tail(q)),
         \/ Head(q) = "start" /\ h = g
         \/ Head(q) = "disc" /\ h = FALSE
         \/ Head(q) = "ip" /\ h = TRUE
  PROVE  Address(g, q)
<1> DEFINE r == Tail(q)
<1>1. Len(q) \in Nat \ {0} /\ Len(r) = Len(q) - 1 /\ Head(q) = q[1]
      /\ \A i \in 1..Len(r) : r[i] = q[i + 1]
  OBVIOUS
<1> HIDE DEF r
<1>2. ASSUME NEW i \in Nat, Kept(r, i) PROVE Kept(q, i + 1)
  <2> SUFFICES ASSUME NEW j \in 1..Len(q), j > i + 1 PROVE q[j] # "disc"
    BY DEF Kept
  <2>1. (j - 1) \in 1..Len(r) /\ j - 1 > i /\ (j - 1) + 1 = j
    BY <1>1
  <2>2. r[j - 1] # "disc" /\ r[j - 1] = q[(j - 1) + 1]
    BY <1>1, <1>2, <2>1 DEF Kept
  <2> QED
    BY <2>1, <2>2
<1>3. CASE h /\ Kept(r, 0)
  <2>1. Kept(q, 1)
    BY <1>2, <1>3
  <2>2. CASE Head(q) = "ip"
    BY <1>1, <2>1, <2>2 DEF Address
  <2>3. CASE Head(q) = "start" /\ h = g
    <3> SUFFICES ASSUME NEW j \in 1..Len(q) PROVE q[j] # "disc"
      BY <1>3, <2>3 DEF Address, Kept
    <3>1. j = 1 \/ j > 1
      BY <1>1
    <3> QED
      BY <3>1, <1>1, <2>1, <2>3 DEF Kept
  <2> QED
    BY <1>3, <2>2, <2>3
<1>4. ASSUME NEW i \in 1..Len(r), r[i] = "ip", Kept(r, i) PROVE Address(g, q)
  <2>1. i \in Nat /\ i + 1 \in 1..Len(q)
    BY <1>1
  <2>2. Kept(q, i + 1) /\ q[i + 1] = "ip"
    BY <1>1, <1>2, <1>4, <2>1
  <2> QED
    BY <2>1, <2>2 DEF Address
<1> QED
  BY <1>3, <1>4 DEF Address, r

\* Whoever stops the station lets the loop know, if it could think it up.
LEMMA LeaveIsTold ==
  ASSUME JoinTypeOK, AddressInv, NEW q \in Seq(Events), StaLeave(q)
  PROVE  ~Address(gotIp, q)
<1>1. CASE q = Append(queue, "disc")
  BY <1>1, LossIsLast DEF JoinTypeOK
<1>2. CASE sta # "up" /\ q = queue
  BY <1>2 DEF AddressInv
<1> QED
  BY <1>1, <1>2 DEF StaLeave

\* An address that wifi_got_ip does not have can only come from the queue.
LEMMA NoneByItself ==
  ASSUME NEW q, NEW g \in BOOLEAN, Address(FALSE, q)
  PROVE  Address(g, q)
BY DEF Address

-----------------------------------------------------------------------------
(* Types                                                                   *)

\* The kinds of step there are, each with what is common to it.
Steps ==
  \/ Driver \/ Outage \/ Back \/ OnStart \/ OnDisc \/ OnIp
  \/ \E st \in {"connecting", "connected", "portal"}, seen \in Seen \cup {"ws", "page"} :
       Turn(st, seen) /\ (seen \in Seen => st # "portal")
  \/ LoopServed \/ LoopJoined \/ LoopTimeout \/ LoopDropped \/ PortalUp
  \/ \E c \in Creds : Restart(c) /\ saved' \in Creds
  \/ \E t \in Tasks : JoinState(t) \/ Forget(t) \/ Scan(t)
  \/ \E t \in Tasks, s \in Ssids : SetSsid(t, s)
  \/ \E t \in Tasks, k \in Keys : SetKey(t, k)

\* A restart by a command or by the page brings credentials like any others.
LEMMA NextIsStep ==
  ASSUME JoinTypeOK, JoinNext
  PROVE  Steps
<1>1. CASE PowerLoss
  BY <1>1 DEF PowerLoss, Steps, JoinTypeOK
<1>2. ASSUME NEW k \in Keys, PortalSave([ssid |-> "home", key |-> k])
      PROVE  Steps
  <2>1. [ssid |-> "home", key |-> k] \in Creds
    BY DEF Creds, Ssids
  <2>2. saved' \in Creds /\ Restart(saved')
    BY <1>2, <2>1 DEF PortalSave, JoinTypeOK
  <2> QED
    BY <2>2 DEF Steps
<1>3. CASE \E t \in Tasks : Config(t) \/ Finish(t)
  BY <1>3 DEF Config, Finish, Steps
<1>4. CASE Driver \/ Outage \/ Back \/ Handle
  BY <1>4 DEF Handle, Steps
<1>5. CASE Sees
  BY <1>5 DEF Sees, SeesAddress, SeesTimeout, SeesLoss, ServesSession, ServesPage, Seen, Steps
<1>6. CASE Bridge
  BY <1>5, <1>6 DEF Bridge, Steps
<1> QED
  BY <1>1, <1>2, <1>3, <1>4, <1>6 DEF JoinNext

\* No step leaves the types.
LEMMA TypesHold ==
  ASSUME JoinTypeOK, [JoinNext]_joinVars
  PROVE  JoinTypeOK'
<1> USE DEF States, Events, Tasks, Doings, Seen, Between
<1>1. CASE UNCHANGED joinVars
  BY <1>1 DEF JoinTypeOK, joinVars, memVars, driverVars, histVars, bounds
<1>2. CASE Driver
  <2>1. queue' = Append(queue, "ip") \/ queue' = Append(queue, "disc")
    BY <1>2 DEF Driver, Associate, Fail
  <2>2. queue' \in Seq(Events)
    BY <2>1 DEF JoinTypeOK
  <2>3. sta' \in {"up", "idle"}
    BY <1>2 DEF Driver, Associate, Fail
  <2>4. UNCHANGED <<state, gotIp, creds, saved, conf, wifiMode, doing, http, air, portals,
                    overlap, crossed>>
    BY <1>2 DEF Driver, Associate, Fail, Unshared, memVars, histVars
  <2> QED
    BY <2>2, <2>3, <2>4 DEF JoinTypeOK
<1>3. CASE Outage \/ Back
  BY <1>3 DEF JoinTypeOK, Outage, Back, Unshared, memVars, driverVars, histVars, bounds
<1>4. CASE OnStart \/ OnDisc \/ OnIp
  <2>1. queue \in Seq(Events) /\ queue # <<>> /\ queue' = Tail(queue)
    BY <1>4 DEF JoinTypeOK, OnStart, OnDisc, OnIp, Event
  <2>2. queue' \in Seq(Events)
    BY <2>1
  <2>3. UNCHANGED <<state, creds, saved, conf, wifiMode, doing, http, air, portals, overlap,
                    crossed>>
    BY <1>4 DEF OnStart, OnDisc, OnIp, Unshared, memVars, driverVars, histVars, bounds
  <2>4. sta' \in {sta, "trying"} /\ (gotIp' = gotIp \/ gotIp' \in BOOLEAN)
    BY <1>4 DEF OnStart, OnDisc, OnIp, StaConnect, Unshared, driverVars
  <2> QED
    BY <2>2, <2>3, <2>4 DEF JoinTypeOK
<1>5. CASE LoopServed \/ LoopJoined \/ LoopDropped \/ PortalUp
  BY <1>5 DEF JoinTypeOK, LoopServed, LoopJoined, LoopDropped, PortalUp, Ends, Listen, Doing,
              memVars, driverVars, histVars, bounds
<1>13. ASSUME NEW st, NEW seen \in Seen \cup {"ws", "page"}, Turn(st, seen)
       PROVE  JoinTypeOK'
  BY <1>13 DEF JoinTypeOK, Turn, Doing, memVars, driverVars, bounds
<1>6. CASE LoopTimeout
  BY <1>6 DEF JoinTypeOK, LoopTimeout, StaLeave, Doing, memVars, bounds
<1>7. ASSUME NEW c \in Creds, Restart(c), saved' \in Creds
      PROVE  JoinTypeOK'
  <2>1. /\ state' \in {"portal", "connecting"} /\ wifiMode' \in {"ap", "sta"}
        /\ http' \in {"listening", "none"} /\ portals' \in {0, 1}
        /\ queue' = <<>> \/ queue' = <<"start">>
    BY <1>7 DEF Restart, Booted
  <2>5. <<>> \in Seq(Events) /\ <<"start">> \in Seq(Events)
    OBVIOUS
  <2>2. queue' \in Seq(Events)
    BY <2>1, <2>5
  <2>3. doing' \in [Tasks -> Doings]
    BY <1>7 DEF Restart
  <2>4. gotIp' = FALSE /\ overlap' = FALSE /\ crossed' = FALSE /\ sta' = "idle"
        /\ creds' = c /\ conf' = c /\ air' = air
    BY <1>7 DEF Restart
  <2>6. state' \in States /\ wifiMode' \in {"sta", "ap", "apsta"} /\ portals' \in Nat
        /\ http' \in {"none", "listening", "failed"}
    BY <2>1
  <2> QED
    BY <1>7, <2>2, <2>3, <2>4, <2>6 DEF JoinTypeOK
<1>8. ASSUME NEW t \in Tasks, JoinState(t) \/ Forget(t)
      PROVE  JoinTypeOK'
  <2>1. doing' \in [Tasks -> Doings]
    BY <1>8 DEF JoinTypeOK, JoinState, Forget, Doing
  <2>2. state' \in States /\ gotIp' \in {gotIp, FALSE}
    BY <1>8 DEF JoinState, Forget
  <2>3. UNCHANGED <<creds, saved, wifiMode, sta, conf, queue, http, air, portals, overlap,
                    crossed>>
    BY <1>8 DEF JoinState, Forget, memVars, driverVars, histVars
  <2> QED
    BY <2>1, <2>2, <2>3 DEF JoinTypeOK
<1>9. ASSUME NEW t \in Tasks, Scan(t)
      PROVE  JoinTypeOK'
  BY <1>9 DEF JoinTypeOK, Scan, MayRun, memVars
<1>12. ASSUME NEW t \in Tasks, MayRun(t), JoinDriver(creds'), Doing(t, "join"),
              creds' \in Creds, saved' \in Creds
       PROVE  JoinTypeOK'
  <2>1. PICK q \in {queue, Append(queue, "disc")} : queue' = Append(q, "start")
    BY <1>12 DEF JoinDriver
  <2>2. q \in Seq(Events)
    BY DEF JoinTypeOK
  <2>3. queue' \in Seq(Events)
    BY <2>1, <2>2
  <2>4. doing' \in [Tasks -> Doings]
    BY <1>12 DEF JoinTypeOK, Doing
  <2>5. overlap' \in BOOLEAN /\ crossed' \in BOOLEAN
    BY <1>12 DEF JoinTypeOK, MayRun
  <2>6. UNCHANGED <<state, gotIp, http, air, portals>>
    BY <1>12 DEF MayRun
  <2>7. wifiMode' = "sta" /\ sta' = "idle" /\ conf' = creds'
    BY <1>12 DEF JoinDriver
  <2> QED
    BY <1>12, <2>3, <2>4, <2>5, <2>6, <2>7 DEF JoinTypeOK
<1>10. ASSUME NEW t \in Tasks, NEW s \in Ssids, SetSsid(t, s)
       PROVE  JoinTypeOK'
  <2>1. creds' \in Creds /\ saved' \in Creds
    BY <1>10 DEF JoinTypeOK, SetSsid, Save, Creds
  <2>2. CASE Join(t, creds')
    BY <1>10, <2>1, <2>2, <1>12 DEF JoinTypeOK, SetSsid, Join
  <2>3. CASE StaLeave(queue') /\ sta' = "idle" /\ Doing(t, "forget") /\ UNCHANGED <<wifiMode, conf>>
    BY <1>10, <2>1, <2>3 DEF JoinTypeOK, SetSsid, MayRun, StaLeave, Doing
  <2> QED
    BY <1>10, <2>2, <2>3 DEF SetSsid
<1>11. ASSUME NEW t \in Tasks, NEW k \in Keys, SetKey(t, k)
       PROVE  JoinTypeOK'
  <2>1. creds' \in Creds /\ saved' \in Creds
    BY <1>11 DEF JoinTypeOK, SetKey, Save, Creds
  <2>2. CASE Join(t, creds')
    BY <1>11, <2>1, <2>2, <1>12 DEF JoinTypeOK, SetKey, Join
  <2>3. CASE UNCHANGED <<doing, queue, driverVars>>
    BY <1>11, <2>1, <2>3 DEF JoinTypeOK, SetKey, MayRun, driverVars
  <2> QED
    BY <1>11, <2>2, <2>3 DEF SetKey
<1> QED
  BY NextIsStep, <1>1, <1>2, <1>3, <1>4, <1>5, <1>6, <1>7, <1>8, <1>9, <1>10, <1>11, <1>13
     DEF Steps

-----------------------------------------------------------------------------
(* The address                                                             *)

\* Whatever takes the station down posts an event that the loop will see.
LEMMA AddressHolds ==
  ASSUME JoinTypeOK, AddressInv, [JoinNext]_joinVars
  PROVE  AddressInv'
<1>0. gotIp \in BOOLEAN /\ queue \in Seq(Events)
  BY DEF JoinTypeOK
<1>1. CASE UNCHANGED <<gotIp, queue, sta>>
  BY <1>1 DEF AddressInv, Address, Kept
<1>2. CASE Driver
  BY <1>0, <1>2, LossIsLast DEF AddressInv, Driver, Associate, Fail, Unshared
<1>3. CASE OnStart \/ OnDisc \/ OnIp
  <2>1. Address(gotIp', Tail(queue)) => Address(gotIp, queue)
    BY <1>0, <1>3, HandledAsQueued DEF OnStart, OnDisc, OnIp, Event, Unshared
  <2>2. sta = "up" => sta' = "up"
    BY <1>3 DEF OnStart, OnDisc, OnIp, StaConnect, driverVars
  <2> QED
    BY <1>3, <2>1, <2>2 DEF AddressInv, OnStart, OnDisc, OnIp, Event
<1>4. ASSUME StaLeave(queue'), UNCHANGED gotIp, queue' \in Seq(Events)
      PROVE  AddressInv'
  BY <1>4, LeaveIsTold DEF AddressInv
<1>5. CASE LoopTimeout
  BY <1>5, <1>4, TypesHold DEF LoopTimeout, JoinTypeOK
<1>6. ASSUME NEW c \in Creds, Restart(c)
      PROVE  AddressInv'
  BY <1>6 DEF Restart, Booted, AddressInv, Address
<1>7. ASSUME NEW t \in Tasks, JoinState(t)
      PROVE  AddressInv'
  <2>1. gotIp' = FALSE /\ queue' = queue /\ sta' = sta
    BY <1>7 DEF JoinState, driverVars
  <2> QED
    BY <1>0, <2>1, NoneByItself DEF AddressInv
<1>8. ASSUME NEW c, JoinDriver(c), UNCHANGED gotIp
      PROVE  AddressInv'
  <2>1. PICK q \in {queue, Append(queue, "disc")} : StaLeave(q) /\ queue' = Append(q, "start")
    BY <1>8 DEF JoinDriver
  <2>2. q \in Seq(Events) /\ ~Address(gotIp, q)
    BY <1>0, <2>1, LeaveIsTold DEF Events
  <2>3. ~Address(gotIp, Append(q, "start"))
    BY <1>0, <2>2, StartIsNeutral
  <2> QED
    BY <1>8, <2>1, <2>3 DEF AddressInv
<1>9. ASSUME NEW t \in Tasks, Scan(t)
      PROVE  AddressInv'
  <2>1. UNCHANGED <<gotIp, sta>> /\ (queue' = queue \/ queue' = Append(queue, "start"))
    BY <1>9 DEF Scan, MayRun
  <2>2. Address(gotIp, queue') => Address(gotIp, queue)
    BY <1>0, <2>1, StartIsNeutral
  <2> QED
    BY <2>1, <2>2 DEF AddressInv
<1>10. ASSUME NEW t \in Tasks, NEW s \in Ssids, SetSsid(t, s)
       PROVE  AddressInv'
  <2>1. gotIp' = gotIp /\ queue' \in Seq(Events)
    BY <1>10, TypesHold DEF SetSsid, MayRun, JoinTypeOK
  <2> QED
    BY <1>10, <1>4, <1>8, <2>1 DEF SetSsid, Join
<1>11. ASSUME NEW t \in Tasks, NEW k \in Keys, SetKey(t, k)
       PROVE  AddressInv'
  BY <1>11, <1>1, <1>8 DEF SetKey, MayRun, Join, driverVars
<1>12. CASE Outage \/ Back \/ LoopServed \/ LoopJoined \/ LoopDropped \/ PortalUp
  BY <1>12, <1>1 DEF Outage, Back, LoopServed, LoopJoined, LoopDropped, PortalUp, Unshared,
                     driverVars
<1>15. ASSUME NEW st, NEW seen, Turn(st, seen)
       PROVE  AddressInv'
  BY <1>15, <1>1 DEF Turn, driverVars
<1>13. ASSUME NEW t \in Tasks, Forget(t)
       PROVE  AddressInv'
  BY <1>13, <1>1 DEF Forget, driverVars
<1>14. CASE UNCHANGED joinVars
  BY <1>14, <1>1 DEF joinVars, driverVars
<1> QED
  BY NextIsStep, <1>2, <1>3, <1>5, <1>6, <1>7, <1>9, <1>10, <1>11, <1>12, <1>13, <1>14,
     <1>15 DEF Steps

-----------------------------------------------------------------------------
(* The network                                                             *)

\* A task that begins a change while nobody is at one is alone with it.
LEMMA BeginsAlone ==
  ASSUME JoinTypeOK, NEW t \in Tasks, MayRun(t), ~crossed', NEW step,
         doing' = [doing EXCEPT ![t] = step]
  PROVE  /\ ~crossed /\ \A u \in Tasks : ~Changing(u)
         /\ doing'[t] = step /\ \A u \in Tasks : u # t => doing'[u] = doing[u]
         /\ \A u \in Tasks : Changing(u)' => u = t
<1>1. ~crossed /\ \A u \in Tasks : ~Changing(u)
  BY DEF MayRun
<1>2. doing'[t] = step /\ \A u \in Tasks : u # t => doing'[u] = doing[u]
  BY DEF JoinTypeOK
<1> QED
  BY <1>1, <1>2 DEF Changing, Requested

\* Tasks that do not get in each other's way keep the driver on the network that
\* was given, and the state away from one that was forgotten.
LEMMA NetworkHolds ==
  ASSUME JoinTypeOK, NetworkInv, [JoinNext]_joinVars
  PROVE  NetworkInv'
<1> SUFFICES ASSUME ~crossed'
             PROVE  /\ Alone'
                    /\ creds'.ssid # "none" => conf' = creds'
                    /\ creds'.ssid = "none" =>
                         state' \in {"off", "portal"} \/ \E t \in Tasks : doing'[t] = "forget"
                    /\ \A t \in Tasks : doing'[t] = "join" => creds'.ssid # "none"
                    /\ doing'["bridge"] \in Seen => creds'.ssid # "none"
  BY DEF NetworkInv
<1> USE DEF Changing, Requested
<1>0. doing \in [Tasks -> Doings]
      /\ creds \in Creds /\ state \in States
  BY DEF JoinTypeOK
<1>1. CASE UNCHANGED <<crossed, doing, creds, conf, state>>
  BY <1>1 DEF NetworkInv, Alone
<1>2. CASE Driver \/ Outage \/ Back \/ OnStart \/ OnDisc \/ OnIp
  BY <1>1, <1>2 DEF Driver, Associate, Fail, Outage, Back, OnStart, OnDisc, OnIp,
                    Unshared, memVars, driverVars, histVars
<1>3. ASSUME NEW st \in {"connecting", "connected", "portal"},
             NEW seen \in Seen \cup {"ws", "page"}, Turn(st, seen),
             seen \in Seen => st # "portal"
      PROVE  NetworkInv'
  <2>1. /\ ~crossed /\ doing["bridge"] = "idle" /\ (seen \in Seen => ~Changing("usb"))
        /\ state = st /\ UNCHANGED <<creds, conf, state>>
    BY <1>3 DEF Turn, memVars, driverVars
  <2>2. doing'["bridge"] = seen /\ \A u \in Tasks : u # "bridge" => doing'[u] = doing[u]
    BY <1>0, <1>3 DEF Turn, Doing, Tasks
  <2>3. Alone'
    BY <2>1, <2>2 DEF Alone, NetworkInv, Seen, Tasks
  <2>4. \A t \in Tasks : doing'[t] \in {"join", "forget"} <=> doing[t] \in {"join", "forget"}
    BY <2>1, <2>2 DEF Seen
  <2>5. \A t \in Tasks : doing[t] \in {"join", "forget"} => doing'[t] = doing[t]
    BY <2>1, <2>2
  <2>6. seen \in Seen => creds.ssid # "none"
    <3>1. seen \in Seen => \A t \in Tasks : doing[t] # "forget"
      BY <2>1 DEF Tasks
    <3> QED
      BY <1>3, <2>1, <3>1 DEF NetworkInv
  <2> QED
    BY <2>1, <2>2, <2>3, <2>4, <2>5, <2>6 DEF NetworkInv
<1>4. ASSUME doing["bridge"] \in Seen, Doing("bridge", "idle"),
             UNCHANGED <<crossed, creds, conf>>
      PROVE  NetworkInv'
  <2>1. \A u \in Tasks : doing'[u] = IF u = "bridge" THEN "idle" ELSE doing[u]
    BY <1>0, <1>4 DEF Doing
  <2>2. creds.ssid # "none" /\ conf = creds
    BY <1>4 DEF NetworkInv
  <2> QED
    BY <1>4, <2>1, <2>2 DEF NetworkInv, Alone, Seen
<1>15. CASE LoopJoined \/ LoopDropped
  <2>1. doing["bridge"] \in Seen /\ Doing("bridge", "idle") /\ UNCHANGED <<crossed, creds, conf>>
    BY <1>15 DEF LoopJoined, LoopDropped, Ends, Seen, memVars, driverVars, histVars
  <2> QED
    BY <1>4, <2>1 DEF NetworkInv
<1>16. CASE LoopServed
  <2>1. \A u \in Tasks : doing'[u] = IF u = "bridge" THEN "idle" ELSE doing[u]
    BY <1>0, <1>16 DEF LoopServed, Ends, Doing
  <2>2. doing["bridge"] \in {"ws", "page"} /\ UNCHANGED <<crossed, creds, conf, state>>
    BY <1>16 DEF LoopServed, Ends, memVars, driverVars, histVars
  <2>3. Alone'
    BY <2>1, <2>2 DEF NetworkInv, Alone, Seen
  <2>4. \A t \in Tasks : doing[t] \in {"join", "forget"} => doing'[t] = doing[t]
    BY <2>1, <2>2
  <2>5. \A t \in Tasks : doing'[t] = "join" => doing[t] = "join"
    BY <2>1
  <2>6. doing'["bridge"] \notin Seen
    BY <2>1 DEF Seen, Tasks
  <2> QED
    BY <2>2, <2>3, <2>4, <2>5, <2>6 DEF NetworkInv
<1>5. CASE LoopTimeout
  <2>1. ~crossed /\ doing["bridge"] = "late" /\ UNCHANGED <<creds, conf>>
    BY <1>5 DEF LoopTimeout, memVars
  <2>2. \A u \in Tasks : u # "bridge" => ~Changing(u)
    BY <2>1 DEF NetworkInv, Alone, Seen, Tasks
  <2>3. \A u \in Tasks : doing'[u] = IF u = "bridge" THEN "portal" ELSE doing[u]
    BY <1>0, <1>5 DEF LoopTimeout, Doing
  <2>4. creds.ssid # "none" /\ conf = creds
    BY <2>1 DEF NetworkInv, Seen
  <2> QED
    BY <2>1, <2>2, <2>3, <2>4 DEF Alone, Seen
<1>6. ASSUME NEW t \in Tasks, NEW rest \in {"idle", "ws"}, Doing(t, rest),
             UNCHANGED <<crossed, creds, conf>>,
             \/ doing[t] = "portal" /\ state' = "portal"
             \/ doing[t] = "join" /\ state' = "connecting"
             \/ doing[t] = "forget" /\ state' = "off"
      PROVE  NetworkInv'
  <2>1. \A u \in Tasks : doing'[u] = IF u = t THEN rest ELSE doing[u]
    BY <1>0, <1>6 DEF Doing
  <2>2. \A u \in Tasks : ~Changing(u)'
    BY <1>6, <2>1 DEF NetworkInv, Alone, Seen
  <2>3. doing[t] = "join" => creds.ssid # "none"
    BY <1>6 DEF NetworkInv
  <2>4. creds.ssid # "none" => conf = creds
    BY <1>6 DEF NetworkInv
  <2> QED
    BY <1>6, <2>2, <2>3, <2>4 DEF NetworkInv, Alone, Tasks
<1>7. CASE PortalUp
  BY <1>6, <1>7 DEF PortalUp, memVars, driverVars, histVars, NetworkInv, Tasks
<1>8. ASSUME NEW t \in Tasks, JoinState(t) \/ Forget(t)
      PROVE  NetworkInv'
  BY <1>6, <1>8 DEF JoinState, Forget, Between, memVars, driverVars, histVars
<1>9. ASSUME NEW c \in Creds, Restart(c)
      PROVE  NetworkInv'
  <2>1. \A u \in Tasks : doing'[u] = "idle"
    BY <1>9 DEF Restart
  <2>2. creds' = c /\ conf' = c /\ (c.ssid = "none" => state' = "portal")
    BY <1>9 DEF Restart, Booted
  <2> QED
    BY <2>1, <2>2 DEF NetworkInv, Alone, Seen, Tasks
<1>10. ASSUME NEW t \in Tasks, Scan(t)
       PROVE  NetworkInv'
  <2>1. ~crossed /\ UNCHANGED <<doing, creds, conf, state>>
    BY <1>10 DEF Scan, MayRun, memVars
  <2> QED
    BY <2>1 DEF NetworkInv, Alone
<1>11. ASSUME NEW t \in Tasks, MayRun(t), Join(t, creds'), creds'.ssid # "none"
       PROVE  NetworkInv'
  <2>1. \A u \in Tasks : Changing(u)' => u = t
    BY <1>11, BeginsAlone DEF Join, Doing
  <2>2. conf' = creds'
    BY <1>11 DEF Join, JoinDriver
  <2> QED
    BY <1>11, <2>1, <2>2 DEF NetworkInv, Alone
<1>12. ASSUME NEW t \in Tasks, NEW s \in Ssids, SetSsid(t, s)
       PROVE  NetworkInv'
  <2>1. creds'.ssid = s
    BY <1>0, <1>12 DEF SetSsid, Creds
  <2>2. CASE s # "none"
    BY <1>11, <1>12, <2>1, <2>2 DEF SetSsid
  <2>3. CASE s = "none"
    <3>1. doing'[t] = "forget" /\ \A u \in Tasks : Changing(u)' => u = t
      BY <1>12, <2>3, BeginsAlone DEF SetSsid, Doing
    <3> QED
      BY <2>1, <2>3, <3>1 DEF NetworkInv, Alone, Seen, Tasks
  <2> QED
    BY <2>2, <2>3
<1>13. ASSUME NEW t \in Tasks, NEW k \in Keys, SetKey(t, k)
       PROVE  NetworkInv'
  <2>1. creds'.ssid = creds.ssid
    BY <1>0, <1>13 DEF SetKey, Creds
  <2>2. CASE creds.ssid # "none"
    BY <1>11, <1>13, <2>1, <2>2 DEF SetKey
  <2>3. CASE creds.ssid = "none"
    <3>1. ~crossed /\ UNCHANGED <<doing, state>>
      BY <1>13, <2>3 DEF SetKey, MayRun
    <3> QED
      BY <2>1, <2>3, <3>1 DEF NetworkInv, Alone
  <2> QED
    BY <2>2, <2>3
<1>14. CASE UNCHANGED joinVars
  BY <1>1, <1>14 DEF joinVars, memVars, driverVars, histVars
<1> QED
  BY NextIsStep, <1>2, <1>3, <1>5, <1>7, <1>8, <1>9, <1>10, <1>12, <1>13, <1>14, <1>15, <1>16
     DEF Steps, NetworkInv

-----------------------------------------------------------------------------
(* The portal                                                              *)

\* The first portal after a boot gets its access point and its socket, and keeps
\* them until a command takes the state away from it.
LEMMA PortalHolds ==
  ASSUME JoinTypeOK, NetworkInv, PortalInv, [JoinNext]_joinVars
  PROVE  PortalInv'
<1>0. doing \in [Tasks -> Doings] /\ portals \in Nat
  BY DEF JoinTypeOK
<1>1. CASE UNCHANGED <<crossed, doing, state, http, wifiMode, portals>>
  BY <1>1 DEF PortalInv, Raising, Served
<1>2. CASE Driver \/ Outage \/ Back \/ OnStart \/ OnDisc \/ OnIp
  BY <1>1, <1>2 DEF Driver, Associate, Fail, Outage, Back, OnStart, OnDisc, OnIp,
                    Unshared, driverVars, histVars
<1>3. CASE LoopJoined \/ LoopDropped
  <2>1. state' \in {"connected", "connecting"} /\ doing'["bridge"] = "idle"
        /\ UNCHANGED <<http, wifiMode, portals, crossed>>
    BY <1>0, <1>3 DEF LoopJoined, LoopDropped, Ends, Doing, Tasks, driverVars, histVars
  <2> QED
    BY <2>1 DEF PortalInv, Raising
<1>13. ASSUME doing["bridge"] \in {"idle", "ws", "page"}, NEW step \in Doings,
              step \notin {"portal", "join", "forget"}, Doing("bridge", step),
              UNCHANGED <<state, http, wifiMode, portals>>, crossed => crossed'
       PROVE  PortalInv'
  <2>1. doing'["bridge"] = step /\ \A t \in Tasks : t # "bridge" => doing'[t] = doing[t]
    BY <1>0, <1>13 DEF Doing, Tasks
  <2>2. (\E t \in Tasks : doing[t] \in {"join", "forget"}) =>
          \E t \in Tasks : doing'[t] \in {"join", "forget"}
    BY <1>13, <2>1
  <2> QED
    BY <1>13, <2>1, <2>2 DEF PortalInv, Raising, Served
<1>14. ASSUME NEW st, NEW seen \in Seen \cup {"ws", "page"}, Turn(st, seen)
       PROVE  PortalInv'
  BY <1>13, <1>14 DEF Turn, Seen, Doings, driverVars
<1>15. CASE LoopServed
  BY <1>13, <1>15 DEF LoopServed, Ends, Doings, driverVars, histVars
<1>4. CASE LoopTimeout
  <2>1. /\ state' = "failed" /\ wifiMode' = "ap" /\ portals' = portals + 1
        /\ http' = http
    BY <1>4 DEF LoopTimeout
  <2>2. portals' # 0 /\ (portals' = 1 => portals = 0)
    BY <1>0, <2>1
  <2> QED
    BY <2>1, <2>2 DEF PortalInv
<1>5. CASE PortalUp
  <2>1. /\ doing["bridge"] = "portal" /\ doing'["bridge"] = "idle" /\ state' = "portal"
        /\ UNCHANGED <<wifiMode, crossed, portals>>
    BY <1>0, <1>5 DEF PortalUp, Doing, Tasks, driverVars, histVars
  <2>2. http = "none" => http' = "listening"
    BY <1>5 DEF PortalUp, Listen
  <2> QED
    BY <2>1, <2>2 DEF PortalInv, Raising, Served
<1>6. ASSUME NEW c \in Creds, Restart(c)
      PROVE  PortalInv'
  <2>1. doing'["bridge"] = "idle"
    BY <1>6 DEF Restart, Tasks
  <2> QED
    BY <1>6, <2>1 DEF Restart, Booted, PortalInv, Raising, Served
<1>7. ASSUME NEW t \in Tasks, JoinState(t) \/ Forget(t)
      PROVE  PortalInv'
  <2>1. doing'["bridge"] \in {"ws", doing["bridge"]}
    BY <1>0, <1>7 DEF JoinState, Forget, Doing, Between, Tasks
  <2>2. state' # "portal" /\ UNCHANGED <<http, wifiMode, portals, crossed>>
    BY <1>7 DEF JoinState, Forget, driverVars, histVars
  <2> QED
    BY <2>1, <2>2 DEF PortalInv, Raising
<1>8. ASSUME NEW t \in Tasks, Scan(t)
      PROVE  PortalInv'
  <2>1. UNCHANGED <<state, http, portals, doing>> /\ (crossed => crossed')
    BY <1>8 DEF Scan, MayRun
  <2>2. wifiMode' = wifiMode \/ (wifiMode = "ap" /\ wifiMode' = "apsta")
    BY <1>8 DEF Scan
  <2> QED
    BY <2>1, <2>2 DEF PortalInv, Raising, Served
<1>9. ASSUME NEW t \in Tasks, MayRun(t), NEW step \in {"join", "forget"}, Doing(t, step)
      PROVE  PortalInv'
  <2>1. UNCHANGED <<state, http, portals>>
    BY <1>9 DEF MayRun
  <2>2. Raising' => Raising
    BY <1>0, <1>9 DEF Raising, Doing, Tasks
  <2>3. doing'[t] = step
    BY <1>0, <1>9 DEF Doing
  <2>4. Raising => crossed'
    BY <1>9 DEF MayRun, Raising, Changing, Requested, Tasks
  <2> QED
    BY <1>9, <2>1, <2>2, <2>3, <2>4 DEF PortalInv
<1>10. ASSUME NEW t \in Tasks, NEW s \in Ssids, SetSsid(t, s)
       PROVE  PortalInv'
  BY <1>9, <1>10 DEF SetSsid, Join
<1>11. ASSUME NEW t \in Tasks, NEW k \in Keys, SetKey(t, k)
       PROVE  PortalInv'
  <2>1. CASE UNCHANGED <<doing, queue, driverVars>>
    <3>1. UNCHANGED <<state, http, portals, doing, wifiMode>> /\ (crossed => crossed')
      BY <1>11, <2>1 DEF SetKey, MayRun, driverVars
    <3> QED
      BY <3>1 DEF PortalInv, Raising, Served
  <2> QED
    BY <1>9, <1>11, <2>1 DEF SetKey, Join
<1>12. CASE UNCHANGED joinVars
  BY <1>1, <1>12 DEF joinVars, driverVars, histVars
<1> QED
  BY NextIsStep, <1>2, <1>3, <1>4, <1>5, <1>6, <1>7, <1>8, <1>10, <1>11, <1>12, <1>14,
     <1>15 DEF Steps

-----------------------------------------------------------------------------
(* What CFG_GET reports                                                    *)

\* A device starts with nothing under way and nothing that it thinks it has.
LEMMA StartsTrue ==
  ASSUME JoinInit
  PROVE  JoinInv
<1>1. JoinTypeOK
  <2>1. <<>> \in Seq(Events) /\ <<"start">> \in Seq(Events)
    BY DEF Events
  <2>2. queue \in Seq(Events)
    BY <2>1 DEF JoinInit
  <2>3. /\ state \in States /\ wifiMode \in {"sta", "ap", "apsta"} /\ portals \in Nat
        /\ http \in {"none", "listening", "failed"}
    BY DEF JoinInit, States
  <2> QED
    BY <2>2, <2>3 DEF JoinInit, JoinTypeOK, Doings
<1>2. AddressInv
  BY DEF JoinInit, AddressInv, Address
<1>3. NetworkInv
  BY DEF JoinInit, NetworkInv, Alone, Changing, Requested, Seen, Tasks
<1>4. PortalInv
  BY DEF JoinInit, PortalInv, Raising, Served, Tasks
<1> QED
  BY <1>1, <1>2, <1>3, <1>4 DEF JoinInv

\* At rest, what is to come is what there is.
LEMMA RestIsReal ==
  ASSUME JoinInv
  PROVE  StateIsReal
<1>1. ASSUME Quiet, state = "connected", gotIp, ~crossed
      PROVE  sta = "up" /\ conf = creds
  <2>1. Address(gotIp, queue)
    BY <1>1 DEF Quiet, Address, Kept
  <2>2. \A t \in Tasks : doing[t] # "forget"
    BY <1>1 DEF Quiet, Changing, Requested
  <2> QED
    BY <1>1, <2>1, <2>2 DEF JoinInv, AddressInv, NetworkInv
<1>2. PortalAlive
  BY DEF JoinInv, PortalInv, PortalAlive, Quiet, Changing, Requested
<1> QED
  BY <1>1, <1>2 DEF JoinInv, StateIsReal, ConnectedIsReal

\* CFG_GET 0x12 is true: whatever order the driver's events, the turns of the loop
\* and the commands of two tasks take, events between the two halves of a command
\* or of a turn included, a device at rest that says "connected" has the station
\* up, or a loss that the loop is about to see, on the network that was configured
\* last, and one that says "portal", its first, has the access point on and the
\* page's socket open.  This is said of boots in which no CFG_SET and no turn that
\* writes the state cut each other (`crossed'), for there it is not so.
THEOREM ReportsAreReal == JoinSpec => []StateIsReal
<1>1. JoinInit => JoinInv
  BY StartsTrue
<1>2. JoinInv /\ [JoinNext]_joinVars => JoinInv'
  BY TypesHold, AddressHolds, NetworkHolds, PortalHolds DEF JoinInv
<1>3. JoinInv => StateIsReal
  BY RestIsReal
<1> QED
  BY <1>1, <1>2, <1>3, PTL DEF JoinSpec
=============================================================================
