----------------------------- MODULE MacroUpload -----------------------------
(***************************************************************************)
(* Push-and-run of a scratch macro: the host uploads a program in chunks   *)
(* (PROTOCOL.md, "Bulk transfer") and runs it, the device assembles it in  *)
(* skrit_dev.scratch (the MACRO_* cases of skrit__dispatch).  Requests and *)
(* replies travel in order but may be lost; the host resends a request     *)
(* whose answer it misses, and may give an upload up for the next one; the *)
(* device may lose power.                                                  *)
(*                                                                         *)
(* A chunk is one cell: cell i of upload v is <<v, i>>, written at offset  *)
(* i - 1.  The first cell holds the version byte of the program.           *)
(***************************************************************************)
EXTENDS Naturals, Sequences, FiniteSets

CONSTANTS
  Sizes,      \* the length of each upload, in cells
  Cap,        \* SKRIT_SCRATCH_CAP, in cells
  Queue,      \* bound: frames on the way in each direction
  MaxLosses,  \* bound: frames lost
  MaxResets   \* bound: resets of the device

ASSUME UploadAssumption ==
  /\ Sizes \in Seq(Nat \ {0}) /\ Sizes # <<>> /\ Cap \in Nat \ {0}
  /\ Queue \in Nat \ {0} /\ MaxLosses \in Nat /\ MaxResets \in Nat

VARIABLES
  upload, step,  \* host: the upload it is at, and the request of it
  toDev,         \* requests on the way
  toHost,        \* replies on the way
  mem,           \* skrit_dev.scratch
  len,           \* skrit_dev.scratch_len
  total,         \* skrit_dev.scratch_total
  losses, resets,
  ran,           \* history: the contents skrit__run_program was given and ran
  told           \* history: the uploads the host was told have run

devVars  == <<mem, len, total, ran>>
hostVars == <<upload, step, told>>
linkVars == <<toDev, toHost>>
uploadVars == <<devVars, hostVars, linkVars, losses, resets>>

Blank == <<0, 0>>

Uploads == 1..Len(Sizes)
Offsets == 0..(Cap - 1)
Cells   == {<<v, i>> : v \in Uploads, i \in 1..Cap} \union {Blank}

Program(v) == [i \in 1..Sizes[v] |-> <<v, i>>]

\* The scratch program as the device would run it.
Scratch == [i \in 1..len |-> mem[i - 1]]

\* Step 0 is WRITE_BEGIN, step i writes cell i, and then:
EndStep(v)  == Sizes[v] + 1
RunStep(v)  == Sizes[v] + 2
DoneStep(v) == Sizes[v] + 3

Request(v, s) ==
  CASE s = 0          -> [op |-> "BEGIN", id |-> <<v, s>>]
    [] s = EndStep(v) -> [op |-> "END", id |-> <<v, s>>]
    [] s = RunStep(v) -> [op |-> "RUN", id |-> <<v, s>>]
    [] OTHER          -> [op |-> "DATA", id |-> <<v, s>>]

\* skrit_dev_init clears the whole skrit_dev.
UploadInit ==
  /\ upload = 1 /\ step = 0 /\ told = {}
  /\ toDev = <<>> /\ toHost = <<>> /\ losses = 0 /\ resets = 0
  /\ mem = [o \in Offsets |-> Blank] /\ len = 0 /\ total = 0
  /\ ran = {}

-----------------------------------------------------------------------------
(* The device                                                              *)

\* Mutant: the length of the program before is kept.
WriteBeginKeepsLen(n, r) ==
  /\ IF n > Cap THEN r = "STORAGE" /\ UNCHANGED total
                ELSE r = "OK" /\ total' = n
  /\ UNCHANGED <<mem, len, ran>>

\* MACRO_WRITE_BEGIN: a program that fits empties the scratch program; the
\* bytes of the one before stay where they are.
WriteBegin(n, r) ==
  /\ IF n > Cap THEN r = "STORAGE" /\ UNCHANGED <<len, total>>
                ELSE r = "OK" /\ total' = n /\ len' = 0
  /\ UNCHANGED <<mem, ran>>

\* MACRO_WRITE_DATA: stores at its offset, whatever came before.
WriteData(off, cell, r) ==
  /\ IF off + 1 > Cap
     THEN r = "STORAGE" /\ UNCHANGED <<mem, len>>
     ELSE /\ r = "OK"
          /\ mem' = [mem EXCEPT ![off] = cell]
          /\ len' = IF off + 1 > len THEN off + 1 ELSE len
  /\ UNCHANGED <<total, ran>>

\* MACRO_WRITE_END: only answers.
WriteEnd(r) == r = "OK" /\ UNCHANGED devVars

\* skrit__run_program refuses what does not start with the version byte.
Runnable == len > 0 /\ mem[0] # Blank

\* Mutant: a program that does not start is answered OK.
MacroRunOK(r) ==
  /\ r = "OK" /\ ran' = IF Runnable THEN ran \union {Scratch} ELSE ran
  /\ UNCHANGED <<mem, len, total>>

MacroRun(r) ==
  /\ IF Runnable THEN r = "OK" /\ ran' = ran \union {Scratch}
                 ELSE r = "BADARGS" /\ UNCHANGED ran
  /\ UNCHANGED <<mem, len, total>>

Answers == {"OK", "STORAGE", "BADARGS"}

\* Mutant: a refusal is not answered.
AnswerOK(id, r) == toHost' = IF r = "OK" THEN Append(toHost, [id |-> id, status |-> r])
                                        ELSE toHost

\* skrit__status
Answer(id, r) == toHost' = Append(toHost, [id |-> id, status |-> r])

\* One request frame.
Handle ==
  /\ toDev # <<>> /\ Len(toHost) < Queue
  /\ LET q == Head(toDev)  v == q.id[1]  s == q.id[2] IN
     \E r \in Answers :
       /\ \/ q.op = "BEGIN" /\ WriteBegin(Sizes[v], r)
          \/ q.op = "DATA"  /\ WriteData(s - 1, <<v, s>>, r)
          \/ q.op = "END"   /\ WriteEnd(r)
          \/ q.op = "RUN"   /\ MacroRun(r)
       /\ Answer(q.id, r)
  /\ toDev' = Tail(toDev)
  /\ UNCHANGED <<hostVars, losses, resets>>

\* Power is lost and comes back: scratch is zeroed, what was in the endpoint
\* buffers is gone.
Reset ==
  /\ resets < MaxResets /\ resets' = resets + 1
  /\ mem' = [o \in Offsets |-> Blank] /\ len' = 0 /\ total' = 0
  /\ toDev' = <<>>
  /\ UNCHANGED <<hostVars, toHost, losses, ran>>

-----------------------------------------------------------------------------
(* The host and the link                                                   *)

Busy == step < DoneStep(upload)

\* The host sends, or sends again, the request it is at.
Send ==
  /\ Busy /\ Len(toDev) < Queue
  /\ toDev' = Append(toDev, Request(upload, step))
  /\ UNCHANGED <<devVars, hostVars, toHost, losses, resets>>

NextUpload == IF upload < Len(Sizes)
              THEN upload' = upload + 1 /\ step' = 0
              ELSE step' = DoneStep(upload) /\ UNCHANGED upload

\* A reply to the request the host is at; any other is a late one.
Receive ==
  /\ toHost # <<>> /\ toHost' = Tail(toHost)
  /\ LET r == Head(toHost) IN
     \/ /\ Busy /\ r.id = <<upload, step>> /\ r.status = "OK"
        /\ IF step = RunStep(upload) THEN NextUpload
                                     ELSE step' = step + 1 /\ UNCHANGED upload
        /\ told' = IF step = RunStep(upload) THEN told \union {upload} ELSE told
     \/ /\ Busy /\ r.id = <<upload, step>> /\ r.status # "OK"
        /\ NextUpload /\ UNCHANGED told
     \/ /\ ~Busy \/ r.id # <<upload, step>>
        /\ UNCHANGED hostVars
  /\ UNCHANGED <<devVars, toDev, losses, resets>>

\* The user starts the next macro while this one is still being sent.
GiveUp == /\ Busy /\ upload < Len(Sizes) /\ NextUpload
          /\ UNCHANGED <<devVars, told, linkVars, losses, resets>>

Lose == /\ losses < MaxLosses /\ losses' = losses + 1
        /\ \/ toDev # <<>> /\ toDev' = Tail(toDev) /\ UNCHANGED toHost
           \/ toHost # <<>> /\ toHost' = Tail(toHost) /\ UNCHANGED toDev
        /\ UNCHANGED <<devVars, hostVars, resets>>

UploadNext == Handle \/ Reset \/ Send \/ Receive \/ GiveUp \/ Lose

UploadSpec == UploadInit /\ [][UploadNext]_uploadVars

\* The device's loop and the host's retry timer keep going.
UploadLiveSpec ==
  UploadSpec /\ WF_uploadVars(Handle) /\ WF_uploadVars(Send) /\ WF_uploadVars(Receive)

-----------------------------------------------------------------------------
(* Properties                                                              *)

UploadTypeOK ==
  /\ upload \in Uploads /\ step \in 0..DoneStep(upload)
  /\ Len(toDev) <= Queue /\ Len(toHost) <= Queue
  /\ mem \in [Offsets -> Cells] /\ len \in 0..Cap /\ total \in 0..Cap
  /\ losses \in 0..MaxLosses /\ resets \in 0..MaxResets
  /\ told \subseteq Uploads

\* The device runs programs, not mixtures: what skrit__run_program starts is
\* exactly one of the uploaded programs, whatever was lost, sent twice, given
\* up or cut by a reset in between.  (Offsets make a chunk sent twice harmless,
\* BEGIN cuts the tail of a longer program off, and a reset in the middle of an
\* upload leaves no version byte.)
\* And the host is told that an upload ran only if the device ran it in full.
RunsWholeProgram == /\ UploadTypeOK
                    /\ \A p \in ran : \E v \in Uploads : p = Program(v)
                    /\ \A v \in told : Program(v) \in ran

\* Every upload comes to its end, as long as losses and resets do.
UploadsEnd == <>[](upload = Len(Sizes) /\ ~Busy)
=============================================================================
