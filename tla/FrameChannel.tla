---------------------------- MODULE FrameChannel ----------------------------
(***************************************************************************)
(* What the skrit framing promises its two ends, without bytes or          *)
(* delimiters: the host numbers its CMD frames 1, 2, 3 ... and the device  *)
(* dispatches some of them, each at most once and in the order they were   *)
(* sent.  While the channel is clean, none is skipped.                     *)
(***************************************************************************)
EXTENDS Naturals, Sequences

CONSTANT Limit      \* how many frames the host sends

VARIABLES sent,       \* number of frames sent
          delivered,  \* the frames dispatched, in order
          clean       \* no byte was lost, damaged or invented so far

vars == <<sent, delivered, clean>>

Newest == IF delivered = <<>> THEN 0 ELSE delivered[Len(delivered)]

Init == sent = 0 /\ delivered = <<>> /\ clean = TRUE

Send == /\ sent < Limit
        /\ sent' = sent + 1
        /\ UNCHANGED <<delivered, clean>>

Deliver(k) == /\ Newest < k
              /\ clean => k = Newest + 1
              /\ delivered' = Append(delivered, k)
              /\ UNCHANGED <<sent, clean>>

Break == clean' = FALSE /\ UNCHANGED <<sent, delivered>>

DeliverNext == clean /\ \E k \in 1..sent : Deliver(k)

Next == Send \/ Break \/ \E k \in 1..sent : Deliver(k)

Spec == Init /\ [][Next]_vars

\* A channel that stays clean delivers: nothing remains in it for ever.
LiveSpec == Spec /\ WF_vars(DeliverNext)
=============================================================================
