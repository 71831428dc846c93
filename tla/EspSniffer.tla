----------------------------- MODULE EspSniffer ------------------------------
(***************************************************************************)
(* The sniffer builds of the ESP32: the 802.15.4 sniffer and injector of   *)
(* the C6 (duta_154_sniff_esp.c, with the tasks of main_idf.c) and the BLE *)
(* sniffer (duta_ble_sniff_esp.cpp, with the loop of main.cpp).  Both are  *)
(* started once and never stopped.                                         *)
(*                                                                         *)
(* 802.15.4: the driver's task puts captured frames into a ring that       *)
(* sniff_task empties without a lock.  sniff_task also hops from a quiet   *)
(* channel to the next, while usb_rx_task, under the device lock, pins the *)
(* channel (PROTO_SET) and injects frames (a host DATA write).  The two    *)
(* share chan, fixed_chan and the radio.  BLE: the Bluetooth task and the  *)
(* loop share a ring inside a critical section.                            *)
(***************************************************************************)
EXTENDS Naturals, Sequences

CONSTANTS
  Ring,        \* RING, RING_N
  ChMin, ChMax,\* CH_MIN, CH_MAX
  MaxHeard,    \* bound: frames on the air
  MaxSets,     \* bound: PROTO_SET commands
  MaxTx        \* bound: injected frames

ASSUME SnifferAssumption ==
  /\ Ring \in Nat /\ Ring > 1
  /\ ChMin \in Nat \ {0} /\ ChMax \in Nat /\ ChMin <= ChMax
  /\ MaxHeard \in Nat /\ MaxSets \in Nat /\ MaxTx \in Nat

VARIABLES
  backend,     \* "154" or "ble"
  slot, head, tail, \* ring, r_head, r_tail
  filling,     \* the driver's callback has filled a slot and not moved r_head
  consumer,    \* sniff_task, or the loop: [at, rec]
  chan, fixed, \* chan; fixed_chan, 0 for hopping
  tuned,       \* the channel the radio is on
  radio,       \* "rx", "params" (a BLE scan that has not begun), "idle"
  usb,         \* usb_rx_task: [at, ch], it holds the device lock unless "idle"
  txBuf, queued, \* tx_buf, and a transmission the driver has accepted
  heard,       \* frames on the air so far
  kept, given, \* history: frames put into the ring, records given to the core
  injected, aired, \* history: frames to inject, frames sent
  raced,       \* history: the channel was pinned while sniff_task hopped
  sets

ringVars == <<slot, head, tail, filling, kept>>
chanVars == <<chan, fixed, tuned, raced>>
txVars   == <<radio, txBuf, queued, injected, aired>>
vars == <<backend, ringVars, consumer, chanVars, usb, txVars, heard, given, sets>>

Channels == ChMin..ChMax
Slots    == 0..Ring-1

\* duta_154_sniff_esp_init and _start; duta_ble_sniff_esp_init and _start, whose
\* scan begins when the controller has the parameters.
Init ==
  /\ backend \in {"154", "ble"}
  /\ slot = [i \in Slots |-> 0] /\ head = 0 /\ tail = 0 /\ filling = FALSE
  /\ consumer = [at |-> "wait", rec |-> 0]
  /\ chan = ChMin /\ fixed = 0 /\ tuned = ChMin
  /\ radio = (IF backend = "154" THEN "rx" ELSE "params")
  /\ usb = [at |-> "idle", ch |-> 0]
  /\ txBuf = 0 /\ queued = FALSE
  /\ heard = 0 /\ kept = <<>> /\ given = <<>> /\ injected = 0 /\ aired = <<>>
  /\ raced = FALSE /\ sets = 0

-----------------------------------------------------------------------------
(* The ring                                                                *)

After(i) == (i + 1) % Ring

\* Mutant: a full ring is not noticed.
Always == TRUE

Room == After(head) # tail

\* esp_ieee802154_receive_done: the slot is filled, then r_head moves; without
\* room the frame is dropped.
Capture ==
  /\ backend = "154" /\ radio = "rx" /\ heard < MaxHeard /\ ~filling
  /\ heard' = heard + 1
  /\ IF Room THEN /\ slot' = [slot EXCEPT ![head] = heard + 1] /\ filling' = TRUE
                  /\ kept' = Append(kept, heard + 1)
             ELSE UNCHANGED <<slot, filling, kept>>
  /\ UNCHANGED <<backend, head, tail, consumer, chanVars, usb, txVars, given, sets>>

Publish ==
  /\ filling /\ filling' = FALSE /\ head' = After(head)
  /\ UNCHANGED <<backend, slot, tail, kept, consumer, chanVars, usb, txVars, heard,
                 given, sets>>

\* gap_cb: a report is one critical section.
Report ==
  /\ backend = "ble" /\ radio = "rx" /\ heard < MaxHeard
  /\ heard' = heard + 1
  /\ IF Room THEN /\ slot' = [slot EXCEPT ![head] = heard + 1] /\ head' = After(head)
                  /\ kept' = Append(kept, heard + 1)
             ELSE UNCHANGED <<slot, head, kept>>
  /\ UNCHANGED <<backend, tail, filling, consumer, chanVars, usb, txVars, given, sets>>

ScanBegins ==
  /\ radio = "params" /\ radio' = "rx"
  /\ UNCHANGED <<backend, ringVars, consumer, chanVars, usb, txBuf, queued, injected,
                 aired, heard, given, sets>>

Goes(at) == consumer' = [consumer EXCEPT !.at = at]
Same     == UNCHANGED <<backend, slot, head, filling, kept, usb, heard, sets>>

\* take() of a frame: the record is copied, then r_tail moves.  The BLE backend
\* does both at once.
TakeCopy ==
  /\ consumer.at = "wait" /\ tail # head
  /\ consumer' = [at |-> IF backend = "154" THEN "free" ELSE "feed", rec |-> slot[tail]]
  /\ tail' = IF backend = "154" THEN tail ELSE After(tail)
  /\ Same /\ UNCHANGED <<chanVars, txVars, given>>

TakeFree ==
  /\ consumer.at = "free" /\ Goes("feed") /\ tail' = After(tail)
  /\ Same /\ UNCHANGED <<chanVars, txVars, given>>

Take == TakeCopy \/ TakeFree

\* skrit_dev_feed_data, under the device lock.
Feed ==
  /\ consumer.at = "feed" /\ usb.at = "idle"
  /\ Goes("wait") /\ given' = Append(given, consumer.rec)
  /\ Same /\ UNCHANGED <<tail, chanVars, txVars>>

-----------------------------------------------------------------------------
(* The channel                                                             *)

\* esp_ieee802154_receive, with the comment in _tx: a frame the driver has not
\* sent yet may be lost by it.
Receive == /\ radio' = "rx" /\ queued' \in {queued, FALSE}
           /\ UNCHANGED <<txBuf, injected, aired>>

\* rx_arm
RxArm == tuned' = chan /\ Receive

\* Mutant: the search ends at the last channel.
NextToEnd(c) == IF c >= ChMax THEN ChMax ELSE c + 1

NextChan(c) == IF c >= ChMax THEN ChMin ELSE c + 1

\* take() with an empty ring, after DWELL_MS on an unpinned channel.
HopBegin ==
  /\ backend = "154" /\ consumer.at = "wait" /\ tail = head /\ fixed = 0
  /\ Goes("hop") /\ Same /\ UNCHANGED <<tail, chanVars, txVars, given>>

HopStep ==
  /\ consumer.at = "hop" /\ Goes("arm")
  /\ chan' = NextChan(chan)
  /\ Same /\ UNCHANGED <<tail, fixed, tuned, raced, txVars, given>>

HopArm ==
  /\ consumer.at = "arm" /\ Goes("wait") /\ RxArm
  /\ Same /\ UNCHANGED <<tail, chan, fixed, raced, given>>

Hop == HopBegin \/ HopStep \/ HopArm

UsbSame == UNCHANGED <<backend, ringVars, consumer, heard, given>>

\* PROTO_SET: duta_154_sniff_esp_set_channel, a channel out of range for hopping.
SetFixed(ch) ==
  /\ backend = "154" /\ usb.at = "idle" /\ sets < MaxSets /\ sets' = sets + 1
  /\ fixed' = ch /\ usb' = [at |-> "chan", ch |-> ch]
  /\ raced' = (consumer.at \in {"hop", "arm"})
  /\ UsbSame /\ UNCHANGED <<chan, tuned, txVars>>

SetChan ==
  /\ usb.at = "chan" /\ usb' = [usb EXCEPT !.at = "arm"]
  /\ chan' = IF fixed # 0 THEN fixed ELSE ChMin
  /\ UsbSame /\ UNCHANGED <<fixed, tuned, raced, txVars, sets>>

\* Mutant: the radio is left on its channel.
SetOnly ==
  /\ usb.at = "arm" /\ usb' = [usb EXCEPT !.at = "idle"]
  /\ UsbSame /\ UNCHANGED <<chanVars, txVars, sets>>

SetArm ==
  /\ usb.at = "arm" /\ usb' = [usb EXCEPT !.at = "idle"]
  /\ RxArm
  /\ UsbSame /\ UNCHANGED <<chan, fixed, raced, sets>>

-----------------------------------------------------------------------------
(* Injection                                                               *)

\* duta_154_sniff_esp_tx: the driver keeps a pointer to tx_buf and sends later.
Inject ==
  /\ backend = "154" /\ usb.at = "idle" /\ injected < MaxTx
  /\ injected' = injected + 1 /\ txBuf' = injected + 1 /\ queued' = TRUE
  /\ UsbSame /\ UNCHANGED <<usb, chanVars, radio, aired, sets>>

Transmit ==
  /\ queued /\ queued' = FALSE /\ radio' = "idle"
  /\ aired' = Append(aired, txBuf)
  /\ UsbSame /\ UNCHANGED <<usb, chanVars, txBuf, injected, sets>>

\* Mutant: the callback does not arm the receiver again.
TransmitOnly == FALSE

\* esp_ieee802154_transmit_done
TransmitDone ==
  /\ radio = "idle" /\ Receive
  /\ UsbSame /\ UNCHANGED <<usb, chanVars, sets>>

Next ==
  \/ Capture \/ Publish \/ Report \/ ScanBegins \/ Take \/ Feed \/ Hop
  \/ \E ch \in Channels \union {0} : SetFixed(ch)
  \/ SetChan \/ SetArm \/ Inject \/ Transmit \/ TransmitDone

Spec == Init /\ [][Next]_vars

\* sniff_task wakes every 100 ms, a command ends, the driver answers.
LiveSpec == /\ Spec /\ WF_vars(Publish) /\ WF_vars(ScanBegins)
            /\ WF_vars(Take \/ Hop) /\ WF_vars(Feed)
            /\ WF_vars(SetChan \/ SetArm) /\ WF_vars(Transmit) /\ WF_vars(TransmitDone)

-----------------------------------------------------------------------------
(* Properties                                                              *)

\* "ring is SPSC-safe sans mutex": however the driver and the consumer
\* interleave, the host gets the frames that found room, each once, whole and in
\* order.
RecordsExact ==
  /\ Len(given) <= Len(kept)
  /\ \A i \in DOMAIN given : given[i] = kept[i]

\* Outside a PROTO_SET, a pinned sniffer is on the channel it reports, and that
\* is the one it was pinned to.  (When sniff_task is in the middle of a hop the
\* hop goes through: the radio ends up elsewhere and stays there.)
PinnedIsTuned ==
  fixed # 0 /\ usb.at = "idle" /\ ~raced => chan = fixed /\ tuned = fixed

\* "drift until we find it": an unpinned sniffer visits every channel again and
\* again, and receives there, whatever was injected or pinned before; a pinned one
\* receives on its channel again and again, no injection "leaves it deaf".
Visits(c) == []<>(backend = "ble" \/ fixed # 0 \/ (tuned = c /\ radio = "rx"))
EspHears     == []<>(backend = "ble" \/ fixed = 0 \/ (radio = "rx" /\ (raced \/ tuned = fixed)))
Searches  == EspHears /\ \A c \in Channels : Visits(c)

\* PROTOCOL.md: "a host write to the DATA channel is a MAC frame to transmit": it
\* leaves the antenna, as it was given.  The code does not keep this: the driver
\* reads tx_buf later, a second frame before that replaces it, and the receive() of
\* a hop, a channel change or the end of a transmission may cancel it.
InjectedIsAired ==
  \A n \in 1..MaxTx : (injected >= n) ~> (\E i \in DOMAIN aired : aired[i] = n)
=============================================================================
