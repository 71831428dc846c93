------------------------------- MODULE MCMacros -------------------------------
(***************************************************************************)
(* Macros for TLC: the machine that runs a program (MacroVM) on the shapes *)
(* a host compiles, on a console with two byte values; and the upload of   *)
(* programs (MacroUpload): one, a shorter one after it, and one that does  *)
(* not fit.  `part' says which of the two is explored; the other stays as  *)
(* it began.                                                               *)
(***************************************************************************)
EXTENDS MacroVM, MacroUpload

Op(op)           == [op |-> op]
DelayOp(ms)      == [op |-> "DELAY", ms |-> ms]
ExpectOp(pat, ms) == [op |-> "EXPECT", pat |-> pat, ms |-> ms]
IOOp(ms)         == [op |-> "WAITIO", ms |-> ms]

\* Log in, then act: the program the EXPECT / WAITOK pair is for; a pattern
\* whose first byte does not come back.
Login == <<ExpectOp(<<"a", "b">>, 3), Op("WAITOK"), Op("ACT"), Op("END")>>

\* Wait for a level, act, pause; no END.
Sense == <<IOOp(2), Op("WAITOK"), Op("ACT"), DelayOp(2)>>

\* A pattern that overlaps itself.
Prompt == <<ExpectOp(<<"a", "a", "b">>, 0), Op("WAITOK"), Op("ACT"), Op("END")>>
LongPrompt == <<ExpectOp(<<"a", "a", "b">>, 3), Op("WAITOK"), Op("END")>>

\* Broken programs.
Truncated == <<Op("ACT"), Op("CUT")>>
Empty     == <<ExpectOp(<<>>, 1), Op("END")>>
Reserved  == <<DelayOp(0), Op("IF"), Op("END")>>

AllPrograms == {Login, Sense, Prompt, LongPrompt, Truncated, Empty, Reserved}

Console     == {"a", "b"}
Widths      == {0, 2}

LongShortFat == <<3, 2, 4>>

-----------------------------------------------------------------------------
(* Side by side                                                            *)

VARIABLE part

partVars == <<part, vars, uploadVars>>

OnVm     == part = "vm" /\ UNCHANGED <<part, uploadVars>>
OnUpload == part = "upload" /\ UNCHANGED <<part, vars>>

PartInit == part \in {"vm", "upload"} /\ Init /\ UploadInit
PartNext == (OnVm /\ Next) \/ (OnUpload /\ UploadNext)

\* What LiveSpec and UploadLiveSpec assume; `part' never changes, so one condition
\* can speak of both.
PartSpec ==
  /\ PartInit /\ [][PartNext]_partVars
  /\ WF_partVars((OnVm /\ Tick) \/ (OnUpload /\ Handle))
  /\ WF_partVars((OnVm /\ VM) \/ (OnUpload /\ Send))
  /\ WF_partVars(OnUpload /\ Receive)

\* Every upload comes to its end, as long as losses and resets do (UploadsEnd).
EveryUploadEnds == (part = "upload") => UploadsEnd
=============================================================================
