------------------------------ MODULE MCFlipper ------------------------------
(* The Flipper application with two rates, one macro on the card, a program   *)
(* in the core, and rings that hold little more than a frame.                 *)
EXTENDS Flipper

MCBauds   == <<9600, 115200>>
MCKinds   == { [op |-> "data", v |-> 0], [op |-> "run", v |-> 0],
               [op |-> "proto", v |-> [baud |-> 57600, fwd |-> FALSE]] }
MCScratch == <<[op |-> "wait"], [op |-> "out", v |-> TRUE]>>
MCCard    == [m \in {"m"} |-> <<[op |-> "rgb", v |-> "red"], [op |-> "wait"]>>]
==============================================================================
