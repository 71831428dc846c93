------------------------------- MODULE WsStream -------------------------------
(***************************************************************************)
(* The byte stream of a WebSocket session: what three servers make of the  *)
(* frames a client sends (ws_frame_decode of platforms/common/ws_codec.h,  *)
(* serve of platforms/host/src/main.c, ws_pump of duta_wifi_idf.h and      *)
(* duta_wifi.h), down to the mux frames that skrit_dev_rx cuts out of it.  *)
(* One server serves one client after another; the skrit_dev stays.        *)
(*                                                                         *)
(* TCP delivers the bytes of a session in any portions.  They are counted, *)
(* not stored: byte t of the session belongs to the frame whose bytes      *)
(* start at or before it, and the server's buffer is a piece lo+1..got of  *)
(* them.  The payload of the binary frames is the client's mux stream,     *)
(* cut into frames anywhere: position p of it is a delimiter or one of the *)
(* two bytes of a command.                                                 *)
(***************************************************************************)
EXTENDS Naturals, Sequences, SequencesExt

CONSTANTS
  Hdr,         \* bytes of a frame's header, with the mask
  OutCap,      \* largest payload the simulator takes (4096)
  AccCap,      \* size of the simulator's acc (8192)
  RecvMax,     \* most bytes that one recv of the simulator returns (2048)
  DevCap,      \* DUTA_WS_RX_CAP
  Lens, Pings, \* bound: payload lengths of binary frames, and of pings
  MaxSess,     \* bound: sessions
  MaxFrames    \* bound: frames a client sends

\* The sizes in main.c leave room for one recv behind the longest incomplete
\* frame.
ASSUME RoomAssumption ==
  /\ Hdr \in Nat \ {0} /\ OutCap \in Nat /\ AccCap \in Nat
  /\ RecvMax \in Nat \ {0} /\ DevCap \in Nat
  /\ Hdr + OutCap - 1 + RecvMax <= AccCap
ASSUME BoundAssumption == Lens \union Pings \subseteq Nat /\ MaxSess \in Nat /\ MaxFrames \in Nat

VARIABLES
  server,   \* "host", "idf" or "arduino"
  sess,     \* number of the session
  request,  \* what the client began with
  phase,    \* "none", "open", or "dropped" by the server
  pc,       \* "recv" or "decode": in the loop that empties the buffer
  frames,   \* what the client has sent in this session, see Send
  got, lo,  \* bytes taken from the socket, and the ones decoded or discarded
  astray,   \* the buffer no longer starts with a frame
  fed,      \* history: positions given to skrit_dev_rx in this session
  mode, rx, \* skrit_dev_rx: idle or in a frame, and its bytes <<session, position>>
  clean,    \* history: the session began with mode idle
  ran       \* history: the commands executed in this session, <<session of its
            \* bytes, number>>

tcpVars == <<frames, got, lo, astray>>
devVars == <<fed, mode, rx, ran>>
vars    == <<server, sess, request, phase, pc, tcpVars, devVars, clean>>

Servers == {"host", "idf", "arduino"}
Period  == 4     \* delimiter, two bytes, delimiter

Init ==
  /\ server \in Servers
  /\ sess = 0 /\ request = "hello" /\ phase = "none" /\ pc = "recv"
  /\ frames = <<>> /\ got = 0 /\ lo = 0 /\ astray = FALSE
  /\ fed = <<>> /\ mode = "idle" /\ rx = <<>> /\ clean = TRUE /\ ran = <<>>

-----------------------------------------------------------------------------
(* The stream                                                              *)

Size(f) == Hdr + f.len

\* Where the first k frames end, in the bytes of the session and in the stream.
Bytes(k)    == IF k = 0 THEN 0 ELSE frames[k].end
Payload(k)  == IF k = 0 THEN 0 ELSE frames[k].upto
Total       == Bytes(Len(frames))
Held        == got - lo
OnBoundary(t) == \E k \in 0..Len(frames) : Bytes(k) = t

Oversized(f) == IF server = "host" THEN f.len > OutCap ELSE Size(f) > DevCap
Over         == \E k \in DOMAIN frames : Oversized(frames[k])

\* The frame at the start of the buffer.
Current == CHOOSE k \in DOMAIN frames : Bytes(k - 1) = lo

-----------------------------------------------------------------------------
(* Clients                                                                 *)

\* ws_handshake, or the HTTP phase of ws_pump: a request without a key is turned
\* away, one longer than the buffer by the device only; the simulator stops
\* reading when its buffer is full and takes the rest for frames.
Accepted(r) == r = "hello" \/ (r = "long" /\ server = "host")

\* A client connects and sends its request.  The simulator serves one after the
\* other, the device drops the session it has.
Connect(r) ==
  /\ sess < MaxSess /\ (server = "host" => phase # "open")
  /\ sess' = sess + 1 /\ request' = r
  /\ phase' = IF Accepted(r) THEN "open" ELSE "none"
  /\ pc' = "recv"
  /\ frames' = <<>> /\ got' = 0 /\ lo' = 0 /\ astray' = (r = "long")
  /\ fed' = <<>> /\ ran' = <<>> /\ clean' = (mode = "idle")
  /\ UNCHANGED <<server, mode, rx>>

\* A frame, with the byte of the session and the position of the stream it ends
\* at.
Send(op, len) ==
  /\ phase = "open" /\ Len(frames) < MaxFrames
  /\ \A k \in DOMAIN frames : frames[k].op # "close"
  /\ frames' = Append(frames,
                  [op |-> op, len |-> len, end |-> Total + Hdr + len,
                   upto |-> Payload(Len(frames)) + IF op = "bin" THEN len ELSE 0])
  /\ UNCHANGED <<server, sess, request, phase, pc, got, lo, astray, devVars, clean>>

\* The client goes away; the server notices when it reads.
Leave ==
  /\ phase = "open" /\ pc = "recv" /\ phase' = "none"
  /\ UNCHANGED <<server, sess, request, pc, tcpVars, devVars, clean>>

-----------------------------------------------------------------------------
(* The servers                                                             *)

\* Mutant: the guard takes a buffer that is exactly full for an overflow.
FlushAtFull(n) == server = "host" /\ Held + n >= AccCap

\* The overflow guard of the simulator empties acc.
Flushes(n) == server = "host" /\ Held + n > AccCap

\* The simulator takes what recv returns, the device a byte at a time.
Portion == IF server = "host" THEN 1..RecvMax ELSE {1}

Recv(n) ==
  /\ phase = "open" /\ pc = "recv" /\ got + n <= Total
  /\ got' = got + n /\ pc' = "decode"
  /\ IF Flushes(n) THEN lo' = got /\ astray' = (astray \/ ~OnBoundary(got))
                   ELSE UNCHANGED <<lo, astray>>
  /\ UNCHANGED <<server, sess, request, phase, frames, devVars, clean>>

\* ws_frame_decode has a whole frame before it.
Complete == lo < got /\ Held >= Size(frames[Current])

\* skrit__frame_complete: a segment is a command when its bytes are.
Segment(s) ==
  IF Len(s.rx) = 2 /\ s.rx[1][2] % Period = 2 /\ s.rx[2] = <<s.rx[1][1], s.rx[1][2] + 1>>
  THEN Append(s.ran, <<s.rx[1][1], 1 + s.rx[1][2] \div Period>>)
  ELSE s.ran

Delimiter(p) == p % Period \in {0, 1}

\* Mutant: rx_len is not cleared.
DevRxKeeps(s, p) ==
  CASE s.mode = "idle" /\ Delimiter(p)   -> [s EXCEPT !.mode = "frame"]
    [] s.mode = "frame" /\ Delimiter(p)  -> [s EXCEPT !.mode = "idle", !.ran = Segment(s)]
    [] s.mode = "frame" /\ ~Delimiter(p) -> [s EXCEPT !.rx = Append(@, <<sess, p>>)]
    [] OTHER                             -> s

\* skrit_dev_rx on a mux link.
DevRx(s, p) ==
  CASE s.mode = "idle" /\ Delimiter(p)   -> [s EXCEPT !.mode = "frame", !.rx = <<>>]
    [] s.mode = "frame" /\ Delimiter(p)  -> [mode |-> "idle", rx |-> <<>>, ran |-> Segment(s)]
    [] s.mode = "frame" /\ ~Delimiter(p) -> [s EXCEPT !.rx = Append(@, <<sess, p>>)]
    [] OTHER                             -> s

Feed(first, n) ==
  LET ps == [i \in 1..n |-> first + i]
      s  == FoldLeft(DevRx, [mode |-> mode, rx |-> rx, ran |-> ran], ps) IN
  /\ fed' = fed \o ps
  /\ mode' = s.mode /\ rx' = s.rx /\ ran' = s.ran

\* The simulator feeds binary frames; the device all but CLOSE and PING.  A TEXT
\* frame is no part of the mux stream, and clients of a Duta send none.
Carries(f) == f.op = "bin"

\* The end of the session at a CLOSE, or when the device drops it.
End(why) == /\ phase' = why
            /\ UNCHANGED <<pc, lo, astray, devVars>>

\* A frame that fits is consumed, its payload fed, and the loop goes on.
Consume ==
  LET k == Current IN
  /\ lo' = lo + Size(frames[k]) /\ UNCHANGED <<phase, pc, astray>>
  /\ IF Carries(frames[k]) THEN Feed(Payload(k - 1), frames[k].len)
                           ELSE UNCHANGED devVars

\* "bad frame -> resync": the simulator discards all it has read, which may end
\* inside the next frame.
BadFrame ==
  /\ lo' = got /\ pc' = "recv" /\ astray' = ~OnBoundary(got)
  /\ UNCHANGED <<phase, devVars>>

\* Mutant: the device takes a buffer with one byte left for full.
FullEarly == server # "host" /\ Held >= DevCap - 1

\* "oversized frame/header": no frame fits and there is no room for more.
Full == server # "host" /\ Held >= DevCap

\* Nothing to decode yet.
Wait == /\ IF Full THEN phase' = "dropped" ELSE UNCHANGED phase
        /\ pc' = "recv" /\ UNCHANGED <<lo, astray, devVars>>

\* What is not a frame decodes to anything: garbled payload may leave the
\* receiver in either mode, and what looks like a CLOSE ends the session.
Stray ==
  /\ lo' = got /\ pc' = "recv" /\ phase' \in {phase, "none"}
  /\ mode' \in {"idle", "frame"} /\ rx' = <<>>
  /\ UNCHANGED <<astray, fed, ran>>

Decode ==
  /\ phase = "open" /\ pc = "decode"
  /\ CASE astray                    -> Stray
       [] ~astray /\ ~Complete      -> Wait
       [] OTHER                     ->
            LET f == frames[Current] IN
            CASE server = "host" /\ Oversized(f) -> BadFrame
              [] f.op = "close"                  -> End("none")
              [] OTHER                           -> Consume
  /\ UNCHANGED <<server, sess, request, frames, got, clean>>

Next ==
  \/ \E r \in {"hello", "nokey", "long"} : Connect(r)
  \/ \E len \in Lens : Send("bin", len)
  \/ \E len \in Pings : Send("ping", len)
  \/ Send("close", 0)
  \/ Leave
  \/ \E n \in Portion : Recv(n)
  \/ Decode

Spec == Init /\ [][Next]_vars

\* The simulator blocks in recv, the device pumps every turn of its loop.
LiveSpec == Spec /\ WF_vars(\E n \in Portion : Recv(n)) /\ WF_vars(Decode)

-----------------------------------------------------------------------------
(* Properties                                                              *)

\* A session whose request and frames all fit what the server has for them.
Sound == request # "long" /\ ~Over

\* However TCP cuts the stream, and wherever the client cuts it into frames, the
\* device gets exactly the payload, in order and once: no buffer of the
\* simulator runs over while the frames fit.  A session that begins with the
\* receiver between two frames executes its own commands, each once and in order.
\* (A takeover resets auth and the WebSocket buffers, not the receiver: when the
\* client before it went away inside a mux frame, the newcomer's first delimiter
\* ends that frame.)
StreamExact ==
  Sound => /\ fed = [i \in 1..Len(fed) |-> i]
           /\ \E k \in 0..Len(frames) : Bytes(k) = lo /\ Payload(k) = Len(fed)
           /\ clean => ran = [n \in 1..(Len(fed) \div Period) |-> <<sess, n>>]

\* Every frame that fits is decoded, without the client having to send more, and
\* the server ends no session for it.
Arrives ==
  (phase = "open" /\ Sound)
    ~> (phase = "none" \/ ~Sound \/ (phase = "open" /\ lo = Bytes(Len(frames))))
=============================================================================
