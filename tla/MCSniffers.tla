----------------------------- MODULE MCSniffers ------------------------------
(***************************************************************************)
(* The sniffer builds of the two chip families: the ESP32 with its drivers *)
(* (EspSniffer), or the nRF52 with its unified radio (RadioSniffer,        *)
(* Zephyr).  `chip' says which firmware runs; the other module stays as it *)
(* began.                                                                  *)
(***************************************************************************)
EXTENDS EspSniffer

VARIABLES chip, nrfRadio, nrfFixed, uartFwd, dataKind, radioOpt, last, byCfg

Nrf == INSTANCE RadioSniffer WITH radio <- nrfRadio, fixed <- nrfFixed

nrfVars  == <<nrfRadio, nrfFixed, uartFwd, dataKind, radioOpt, last, byCfg>>
chipVars == <<chip, vars, nrfVars>>

OnEsp == chip = "esp" /\ UNCHANGED <<chip, nrfVars>>
OnNrf == chip = "nrf" /\ UNCHANGED <<chip, vars>>

ChipInit == /\ chip \in {"nrf", "esp"} /\ Init /\ Nrf!Init
            /\ chip = "nrf" => backend = "154"

ChipNext == (Next /\ OnEsp) \/ (Nrf!Next /\ OnNrf)

\* What LiveSpec assumes in each of the two modules; `chip' never changes, so one
\* condition can speak of both.
ChipSpec ==
  /\ ChipInit /\ [][ChipNext]_chipVars
  /\ WF_chipVars((Publish /\ OnEsp) \/ (Nrf!TakeFrame /\ OnNrf))
  /\ WF_chipVars((ScanBegins /\ OnEsp) \/ (Nrf!Hop /\ OnNrf))
  /\ WF_chipVars((Take \/ Hop) /\ OnEsp) /\ WF_chipVars(Feed /\ OnEsp)
  /\ WF_chipVars((SetChan \/ SetArm) /\ OnEsp)
  /\ WF_chipVars(Transmit /\ OnEsp) /\ WF_chipVars(TransmitDone /\ OnEsp)

-----------------------------------------------------------------------------
(* The properties of the firmware that runs                                *)

\* EspSniffer: an unpinned sniffer keeps visiting every channel, a pinned one keeps
\* receiving.
EspSearches == chip = "esp" => Searches

\* RadioSniffer: one backend at a time, and a radio that is off is parked.
OneBackend == Nrf!OneBackend

\* RadioSniffer: Sniffing that reads on captures, and the host is told from where.
SniffingIsTrue == Nrf!SniffingIsTrue
=============================================================================
