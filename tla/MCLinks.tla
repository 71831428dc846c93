------------------------------- MODULE MCLinks -------------------------------
(***************************************************************************)
(* The transports that queue what the core writes: the BLE link of the     *)
(* Arduino build (BleLink), and the USB or BLE transport of the Zephyr     *)
(* build (ZephyrIO).  A device has one of them: `os' says which, and the   *)
(* other stays as it began.                                                *)
(***************************************************************************)
EXTENDS ZephyrIO

CONSTANTS N, Passes, MaxBytes

VARIABLES os, connected, buf, head, tail, loop, bt, push, btmp, pass, bmade, bsent,
          bgone, raced, shared, bconns

Arduino == INSTANCE BleLink WITH tmp <- btmp, made <- bmade, sent <- bsent,
                                 gone <- bgone, conns <- bconns

ASSUME BleConstants == Arduino!BleAssumption

arduinoVars == <<connected, buf, head, tail, loop, bt, push, btmp, pass, bmade, bsent,
                 bgone, raced, shared, bconns>>
linkVars == <<os, vars, arduinoVars>>

OnZephyr  == os = "zephyr" /\ UNCHANGED <<os, arduinoVars>>
OnArduino == os = "arduino" /\ UNCHANGED <<os, vars>>

LinkInit == /\ os \in {"zephyr", "arduino"} /\ Init /\ Arduino!Init
            /\ os = "arduino" => transport = "ble"

LinkNext == (OnZephyr /\ Next) \/ (OnArduino /\ Arduino!Next)

\* What LiveSpec assumes in each of the two modules; `os' never changes, so one
\* condition can speak of both.
LinkSpec ==
  /\ LinkInit /\ [][LinkNext]_linkVars
  /\ WF_linkVars(\/ OnZephyr /\ Runs("main")
                 \/ OnArduino /\ Arduino!Drain)
  /\ WF_linkVars(\/ OnZephyr /\ Runs("cmd")
                 \/ OnArduino /\ (Arduino!Reset \/ Arduino!Written \/ Arduino!PushEnd("bt")))
  /\ WF_linkVars(OnZephyr /\ Runs("sniff"))

-----------------------------------------------------------------------------
(* The properties of the link that the device has                          *)

\* What the core writes leaves as it was written: over USB in whole frames, over BLE
\* each byte once and in order, but for those that found no room or no central.
OutputExact == FramesWhole /\ NotifiedOnce /\ Arduino!NotifiedOnce

\* A byte that was given to a ring is notified while there is a central for it.
AllNotified == Notified /\ Arduino!Notified
=============================================================================
