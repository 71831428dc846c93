---------------------------- MODULE RadioSniffer ----------------------------
(***************************************************************************)
(* The unified sniffer of the Zephyr build (DUTA_SNIFF_MULTI): one nRF     *)
(* RADIO shared by a BLE and an 802.15.4 backend behind the vtable of      *)
(* duta_sniffer_multi.c, the virtual outputs "Radio", "Sniffing" and "UART *)
(* bridge" of zephyr/src/main.c, and the second way to the same switch,    *)
(* CFG_SET key 0x14.                                                       *)
(*                                                                         *)
(* Commands run in cmd_rx_thread and take() in sniff_thread.  The two have *)
(* one priority and neither sleeps or yields inside a radio routine, so    *)
(* each handler and each take() is one step.                               *)
(***************************************************************************)
EXTENDS Naturals, FiniteSets

VARIABLES
  radio,     \* the RADIO and the backends, see Radios
  fixed,     \* duta_154_sniff.c fixed_chan: pinned to a channel, or hopping
  uartFwd,   \* uart_fwd
  dataKind,  \* HAL.data_kind
  radioOpt,  \* g_radio_opt
  last,      \* history: the control of the last command
  byCfg      \* history: CFG_SET 0x14 was used, not only the virtual outputs

vars == <<radio, fixed, uartFwd, dataKind, radioOpt, last, byCfg>>

Phys    == {"ble", "154"}
Kinds   == {"uart", "ble", "154", "zigbee", "thread"}
Options == 0..2
Controls == {"none", "cfg", "radio", "sniffing", "uart", "channel", "tx"}

\* active: the vtable in use; on: each backend's sniff_active; tuned: the PHY
\* whose registers were programmed last; rx: receiving; ended: EVENTS_END, a
\* frame is in rx_buf and the receiver has stopped.
Radios == [active : Phys, on : [Phys -> BOOLEAN], tuned : Phys,
           rx : BOOLEAN, ended : BOOLEAN]

-----------------------------------------------------------------------------
(* The backends and the vtable                                             *)

\* radio_arm
Arm(r) == [r EXCEPT !.rx = TRUE, !.ended = FALSE]

\* TASKS_DISABLE, and EVENTS_END cleared
Quiet(r) == [r EXCEPT !.rx = FALSE, !.ended = FALSE]

IsOn(r) == r.on[r.active]

\* duta_sniffer_init: the peripheral is powered off and on.
InitPhy(r) == [Quiet(r) EXCEPT !.tuned = r.active]

\* Mutant: stop leaves the receiver running.
StopFlagOnly(r) == [r EXCEPT !.on[r.active] = FALSE]

\* duta_sniffer_start and duta_sniffer_stop do nothing when already so.
Start(r) == IF IsOn(r) THEN r ELSE Arm([r EXCEPT !.on[r.active] = TRUE])
Stop(r)  == IF IsOn(r) THEN Quiet([r EXCEPT !.on[r.active] = FALSE]) ELSE r

\* Mutant: a switch does not stop the old backend.
SwitchUnstopped(r, p) ==
  LET fresh == InitPhy([r EXCEPT !.active = p]) IN
  IF IsOn(r) THEN Start(fresh) ELSE fresh

\* duta_sniffer_select of another PHY keeps capture as it was.
SwitchTo(r, p) ==
  LET fresh == InitPhy([Stop(r) EXCEPT !.active = p]) IN
  IF IsOn(r) THEN Start(fresh) ELSE fresh

Select(r, p) == IF p = r.active THEN r ELSE SwitchTo(r, p)

Init ==
  /\ radio = [active |-> "ble", on |-> [p \in Phys |-> FALSE],
              tuned |-> "ble", rx |-> FALSE, ended |-> FALSE]
  /\ fixed = FALSE /\ uartFwd = FALSE
  /\ dataKind = "ble" /\ radioOpt = 0 /\ last = "none" /\ byCfg = FALSE

-----------------------------------------------------------------------------
(* Commands                                                                *)

\* The dissector kind that radio_select announces.
OptKind(o) == CASE o = 0 -> "ble" [] o = 1 -> "zigbee" [] OTHER -> "thread"

\* OUT_SET "Radio": radio_select.  Options 1 and 2 share the 802.15.4 PHY.
OptPhy(o) == IF o = 0 THEN "ble" ELSE "154"

\* Mutant: the option is not recorded.
RadioSelectForgets(o) ==
  /\ radio' = Select(radio, OptPhy(o))
  /\ dataKind' = OptKind(o) /\ last' = "radio"
  /\ UNCHANGED <<fixed, uartFwd, radioOpt, byCfg>>

RadioSelect(o) ==
  /\ radio' = Select(radio, OptPhy(o))
  /\ dataKind' = OptKind(o) /\ radioOpt' = o /\ last' = "radio"
  /\ UNCHANGED <<fixed, uartFwd, byCfg>>

\* OUT_SET "Sniffing"
Sniffing(v) ==
  /\ radio' = IF v THEN Start(radio) ELSE Stop(radio)
  /\ last' = "sniffing"
  /\ UNCHANGED <<fixed, uartFwd, dataKind, radioOpt, byCfg>>

\* OUT_SET "UART bridge"
UartBridge(v) ==
  /\ uartFwd' = v /\ last' = "uart"
  /\ UNCHANGED <<radio, fixed, dataKind, radioOpt, byCfg>>

\* CFG_SET 0x14 to uart: the radio is parked.
ModeUart ==
  /\ radio' = Stop(radio) /\ uartFwd' = TRUE
  /\ dataKind' = "uart" /\ last' = "cfg" /\ byCfg' = TRUE
  /\ UNCHANGED <<fixed, radioOpt>>

\* CFG_SET 0x14 to a PHY: coming from the UART bridge the radio is initialised
\* even when the PHY stays the same.
FromUart(r, p) == IF p # r.active THEN SwitchTo(r, p)
                  ELSE IF uartFwd THEN InitPhy(r) ELSE r

ModePhy(p) ==
  /\ radio' = FromUart(radio, p) /\ uartFwd' = FALSE
  /\ dataKind' = p /\ last' = "cfg" /\ byCfg' = TRUE
  /\ UNCHANGED <<fixed, radioOpt>>

\* Mutant: the channel is set with the receiver left disabled.
SetChannelQuiet(pin) ==
  /\ IF radio.active = "154" THEN fixed' = pin /\ radio' = Quiet(radio)
                             ELSE UNCHANGED <<fixed, radio>>
  /\ last' = "channel"
  /\ UNCHANGED <<uartFwd, dataKind, radioOpt, byCfg>>

\* PROTO_SET: duta_sniffer_set_channel, of which only 802.15.4 has one.
SetChannel(pin) ==
  /\ IF radio.active = "154"
     THEN fixed' = pin /\ radio' = (IF IsOn(radio) THEN Arm(radio) ELSE radio)
     ELSE UNCHANGED <<fixed, radio>>
  /\ last' = "channel"
  /\ UNCHANGED <<uartFwd, dataKind, radioOpt, byCfg>>

\* A host DATA write: sent on the air, and back to receiving if capture is on.
Tx ==
  /\ ~uartFwd /\ radio.active = "154"
  /\ radio' = IF IsOn(radio) THEN Arm(radio) ELSE Quiet(radio)
  /\ last' = "tx"
  /\ UNCHANGED <<fixed, uartFwd, dataKind, radioOpt, byCfg>>

-----------------------------------------------------------------------------
(* The air and sniff_thread                                                *)

Unchanged == UNCHANGED <<fixed, uartFwd, dataKind, radioOpt, last, byCfg>>

\* A frame ends; the END_DISABLE short stops the receiver.
FrameEnds == /\ radio.rx
             /\ radio' = [radio EXCEPT !.rx = FALSE, !.ended = TRUE]
             /\ Unchanged

\* take() of a frame: copied out, and the receiver armed again.
TakeFrame == /\ IsOn(radio) /\ radio.ended
             /\ radio' = Arm(radio)
             /\ Unchanged

\* take() of the 802.15.4 backend with no frame: after DWELL_MS on a quiet
\* channel it hops, unless pinned.
Hop == /\ IsOn(radio) /\ ~radio.ended
       /\ radio.active = "154" /\ ~fixed
       /\ radio' = Arm(radio)
       /\ Unchanged

Next ==
  \/ \E o \in Options : RadioSelect(o)
  \/ \E v \in BOOLEAN : Sniffing(v) \/ UartBridge(v) \/ SetChannel(v)
  \/ ModeUart \/ \E p \in Phys : ModePhy(p)
  \/ Tx \/ FrameEnds \/ TakeFrame \/ Hop

Spec == Init /\ [][Next]_vars

\* sniff_thread wakes at least every 100 ms and drains.
LiveSpec == Spec /\ WF_vars(TakeFrame) /\ WF_vars(Hop)

-----------------------------------------------------------------------------
(* Properties                                                              *)

TypeOK ==
  /\ radio \in Radios /\ fixed \in BOOLEAN /\ uartFwd \in BOOLEAN
  /\ dataKind \in Kinds /\ radioOpt \in Options
  /\ last \in Controls /\ byCfg \in BOOLEAN

\* However the two backends take turns, the one that is not in use never thinks
\* that it is capturing (its sniff_active would make its next start() a no-op),
\* the registers are those of the one in use, and with Sniffing off the radio is
\* parked: it neither receives nor holds a frame a later start would report.
OneBackend == /\ TypeOK
              /\ \A p \in Phys : radio.on[p] => p = radio.active
              /\ radio.tuned = radio.active
              /\ IsOn(radio) \/ ~(radio.rx \/ radio.ended)

KindPhy(k) == CASE k = "ble" -> "ble" [] k = "uart" -> "none" [] OTHER -> "154"

\* main.c: "'am I sniffing?' is always explicit".  While the Sniffing control
\* reads on, a frame on the air will be captured: the receiver runs, or has a
\* frame for take(), or take() is about to hop and arm it; its record is announced
\* with a kind of its PHY, and the Radio control reads back the PHY in use.  In
\* every order of the virtual outputs; CFG_SET can leave the radio deaf, and the
\* kind behind.
SniffingIsTrue ==
  byCfg \/ /\ IsOn(radio) => /\ \/ radio.rx \/ radio.ended
                                \/ radio.active = "154" /\ ~fixed
                             /\ KindPhy(dataKind) = radio.active
           /\ OptPhy(radioOpt) = radio.active
=============================================================================
