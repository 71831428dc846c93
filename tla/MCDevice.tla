------------------------------- MODULE MCDevice -------------------------------
(***************************************************************************)
(* A device for TLC: the core with its links (SkritDevice); the output     *)
(* table of a board (IoTable) with a digital pin, a pin that can do PWM, a *)
(* pin that the board keeps for its LED, a forbidden one and the one of    *)
(* the pixels; and how it gets on a network (WifiJoin).  `part' says which *)
(* is explored; the others stay as they began.                             *)
(***************************************************************************)
EXTENDS SkritDevice, IoTable, WifiJoin

R(type, pin, low, name) == [type |-> type, pin |-> pin, low |-> low, name |-> name]

BoardPins    == 1..5
BoardCaps    == [p \in BoardPins |-> IF p = 1 THEN {"io"} ELSE {"io", "pwm"}]
BoardOffered == {1, 2, 5}          \* 3: the LED, 4: flash
BoardTable   == <<R("pwm", 3, TRUE, 3), R("rgb", 5, FALSE, 3)>>

\* Tables that are fine, and for each check one that is not.
HostTables == {
  <<R("io", 1, TRUE, 5), R("pwm", 2, FALSE, 4), R("pwm", 3, TRUE, 3)>>,
  <<R("io", 2, FALSE, 9), R("rgb", 5, FALSE, 3)>>,
  <<R("io", 1, FALSE, 9), R("io", 1, TRUE, 9)>>,      \* one pin twice
  <<R("io", 1, FALSE, 195)>>,                         \* a name too long to load
  <<>>,                                               \* no outputs
  <<R("pwm", 1, FALSE, 2)>>,                          \* not a PWM pin
  <<R("io", 3, FALSE, 2)>>,                           \* the LED in another role
  <<R("io", 4, FALSE, 2)>>,                           \* a forbidden pin
  <<R("rgb", 2, FALSE, 2)>>,                          \* pixels elsewhere
  <<R("io", 2, FALSE, 2), R("cut", 1, FALSE, 0)>>,    \* the second row is cut
  [i \in 1..4 |-> R("io", 2, FALSE, 1)]               \* too many rows
}
HostDuties == {0, 300, 1023}
Widths     == {8, 12}
Palette    == {0, 1, 2}

-----------------------------------------------------------------------------
(* Side by side                                                            *)

VARIABLE part

partVars == <<part, vars, ioVars, joinVars>>

OnCore  == part = "core" /\ UNCHANGED <<part, ioVars, joinVars>>
OnTable == part = "table" /\ UNCHANGED <<part, vars, joinVars>>
OnWifi  == part = "wifi" /\ UNCHANGED <<part, vars, ioVars>>

PartInit == /\ part \in {"core", "table", "wifi"} /\ Init /\ IoInit /\ JoinInit
            /\ part # "wifi" => creds = [ssid |-> "none", key |-> "good"]
PartNext == (OnCore /\ Next) \/ (OnTable /\ IoNext) \/ (OnWifi /\ JoinNext)

\* What JoinLiveSpec assumes; the other two promise no progress.
PartSpec ==
  /\ PartInit /\ [][PartNext]_partVars
  /\ WF_partVars(OnWifi /\ Driver) /\ WF_partVars(OnWifi /\ Handle)
  /\ WF_partVars(OnWifi /\ Bridge)
  /\ \A t \in Tasks : WF_partVars(OnWifi /\ Finish(t))
=============================================================================
