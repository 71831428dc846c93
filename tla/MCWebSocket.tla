----------------------------- MODULE MCWebSocket ------------------------------
(***************************************************************************)
(* The two views of the WebSocket servers: the session of the ESP-IDF      *)
(* build, whose sockets displace each other (WsSession), and the bytes of  *)
(* one session after another, on each of the three servers (WsStream).     *)
(* `view' says which is explored; the other stays as it began.             *)
(***************************************************************************)
EXTENDS WsStream

CONSTANTS NClients, MaxSends, MaxFlaps, Backlog

VARIABLES view, ws, up, listening, came, inbox, said, gone, prover, served, flaps

Session == INSTANCE WsSession

ASSUME SessionConstants == Session!SessionAssumption

sessionVars == <<ws, up, listening, came, inbox, said, gone, prover, served, flaps>>
viewVars    == <<view, vars, sessionVars>>

OnBytes   == view = "bytes" /\ UNCHANGED <<view, sessionVars>>
OnSession == view = "session" /\ UNCHANGED <<view, vars>>

ViewInit == /\ view \in {"bytes", "session"} /\ Init /\ Session!Init
            /\ view = "session" => server = "idf"

ViewNext == (OnBytes /\ Next) \/ (OnSession /\ Session!Next)

\* What LiveSpec assumes in each of the two modules; `view' never changes, so one
\* condition can speak of both.
ViewSpec ==
  /\ ViewInit /\ [][ViewNext]_viewVars
  /\ WF_viewVars(\/ OnBytes /\ \E n \in Portion : Recv(n)
                 \/ OnSession /\ Session!Pump)
  /\ WF_viewVars(OnBytes /\ Decode)

-----------------------------------------------------------------------------
(* The properties of WsSession                                             *)

\* A command is executed only for the client that gave the password.
SessionOwned == Session!SessionOwned

\* A descriptor is closed or held, in one place.
NoDescriptorLost == Session!NoDescriptorLost

\* A silent connection ends no session.
ProbesHarmless == Session!ProbesHarmless

\* The newest client that speaks gets the session.
NewestWins == Session!NewestWins
=============================================================================
