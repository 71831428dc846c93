------------------------------- MODULE MacroVM -------------------------------
(***************************************************************************)
(* The skrit-mc virtual machine of platforms/common/skrit_device.h: the    *)
(* bytecode loop skrit__run_program, the EXPECT matcher that console bytes *)
(* are fed through (skrit_dev_feed_data), and skrit__wait, which every     *)
(* pause shares: DELAY and EXPECT in a program, and the OUT_PULSE command. *)
(*                                                                         *)
(* A program is a sequence of decoded operations.  EMIT, SETOUT, SETPWM,   *)
(* SETRGB and INVOKE act on the board and fall through: one operation,     *)
(* "ACT".  "CUT" is any operation whose operands run past the end.  The    *)
(* clock is hal->millis, a counter of Period values; between two turns of  *)
(* a wait any number of milliseconds may pass.                             *)
(***************************************************************************)
EXTENDS Naturals, Sequences, FiniteSets

CONSTANTS
  Symbols,    \* values of a console byte
  Programs,   \* the programs hosts run, after the version byte
  Tier,       \* hal->macro_tier
  Period,     \* number of values of hal->millis: 2^32
  Boot,       \* hal->millis when the device is first observed
  PulseMs,    \* the widths of OUT_PULSE
  MaxTime,    \* bound: milliseconds observed outside waits
  MaxCmds,    \* bound: RUN and OUT_PULSE commands
  MaxRx       \* bound: console bytes polled in one wait

ASSUME VMAssumption ==
  /\ Tier \in 0..2 /\ Period \in Nat \ {0} /\ Boot \in 0..(Period - 1)
  /\ PulseMs \subseteq Nat /\ MaxTime \in Nat /\ MaxCmds \in Nat
  /\ MaxRx \in Nat
  /\ \A p \in Programs : \A i \in 1..Len(p) :
       /\ p[i].op = "EXPECT" => p[i].pat \in Seq(Symbols)
       /\ p[i].op \in {"EXPECT", "WAITIO", "DELAY"} => p[i].ms \in Nat

VARIABLES
  now,        \* milliseconds since power-up, as they really pass
  prog, pc,   \* the program being run and the operation it is at
  outcome,    \* the outcome flag of the run
  waiting,    \* what skrit__wait or the WAITIO loop is waiting for
  until,      \* the deadline it was given
  expPat,     \* skrit_dev.exp_pat, <<>> for NULL
  expPos,     \* skrit_dev.exp_pos
  expHit,     \* skrit_dev.exp_hit
  status,     \* how the last command ended, "running" while it has not
  cmds,       \* commands started
  since,      \* history: `now' when the wait began
  asked,      \* history: the milliseconds it was asked to last
  heard,      \* history: the bytes polled in this wait
  short,      \* history: why a DELAY or a pulse ended before its time
  verdicts    \* history: what each EXPECT heard and found

expVars  == <<expPat, expPos, expHit>>
waitVars == <<waiting, until, since, asked, heard>>
runVars  == <<prog, pc, outcome, status, cmds>>
vars     == <<now, expVars, waitVars, runVars, short, verdicts>>

Millis == (Boot + now) % Period

Init ==
  /\ now = 0 /\ prog = <<>> /\ pc = 1 /\ outcome = TRUE
  /\ waiting = "no" /\ until = 0
  /\ since = 0 /\ asked = 0 /\ heard = <<>>
  /\ expPat = <<>> /\ expPos = 0 /\ expHit = FALSE
  /\ status = "OK" /\ cmds = 0 /\ short = {} /\ verdicts = {}

-----------------------------------------------------------------------------
(* The matcher: skrit_dev_feed_data                                        *)

\* Mutants: a mismatch keeps the position; a mismatch drops the byte.
AdvanceScattered(pat, pos, c) == IF c = pat[pos + 1] THEN pos + 1 ELSE pos

AdvanceDropping(pat, pos, c) == IF c = pat[pos + 1] THEN pos + 1 ELSE 0

\* The position after byte c, when the first `pos' bytes of the pattern have
\* matched: on a mismatch only the first byte is tried again.
Advance(pat, pos, c) ==
  IF c = pat[pos + 1] THEN pos + 1 ELSE IF c = pat[1] THEN 1 ELSE 0

Armed == expPat # <<>> /\ ~expHit

\* One byte of the console.
Feed(c) ==
  IF Armed
  THEN /\ expPos' = Advance(expPat, expPos, c)
       /\ expHit' = (expPos' = Len(expPat))
       /\ heard' = Append(heard, c)
  ELSE UNCHANGED <<expPos, expHit, heard>>

-----------------------------------------------------------------------------
(* Waiting                                                                 *)

\* `ms(ctx) + m', in the width of the clock
Deadline(m) == (Millis + m) % Period

Wait(kind, m) ==
  /\ waiting' = kind /\ until' = Deadline(m)
  /\ since' = now /\ asked' = m /\ heard' = <<>>

\* The deadline is past the last value of the clock.
Wraps == Boot + since + asked >= Period

\* Mutant: a wait leaves one millisecond early.
BeforeLast == Millis + 1 < until

\* The condition of both wait loops.
Before == Millis < until

\* A wait that is to last ends, early or not.
EndsOnTime ==
  short' = IF waiting \in {"delay", "pulse"} /\ now < since + asked
           THEN short \union {[hit |-> expHit', wraps |-> Wraps]} ELSE short

\* Mutant: pc is not moved past the operands.
ResumeHere ==
  /\ waiting' = "no"
  /\ EndsOnTime
  /\ UNCHANGED pc
  /\ IF waiting = "pulse" THEN status' = "OK" ELSE UNCHANGED status

\* What follows the wait: the next operation, or the end of an OUT_PULSE.
Resume ==
  /\ waiting' = "no"
  /\ EndsOnTime
  /\ IF waiting = "pulse" THEN status' = "OK" /\ UNCHANGED pc
                          ELSE pc' = pc + 1 /\ UNCHANGED status

\* EXPECT takes the hit as its outcome and disarms the matcher.  WAITIO takes
\* its own result.  A DELAY or a pulse leaves both alone.
Conclude(io) ==
  \/ /\ waiting = "expect"
     /\ outcome' = expHit' /\ expPat' = <<>>
     /\ verdicts' = verdicts \union
                      {[pat |-> expPat, heard |-> heard', hit |-> expHit']}
  \/ waiting = "io" /\ outcome' = io /\ UNCHANGED <<expPat, verdicts>>
  \/ waiting \notin {"expect", "io"} /\ UNCHANGED <<outcome, expPat, verdicts>>

Finish(io) == Resume /\ Conclude(io)

Stay == UNCHANGED <<waiting, short, status, pc, outcome, expPat, verdicts>>

\* skrit__wait returns early when exp_hit is set, whichever wait it is in.
LeavesOnHit == waiting \in {"delay", "expect", "pulse"} /\ expHit'

\* A turn of a wait loop: skrit_dev_poll with a byte or with none, pump, and
\* the test for leaving; WAITIO reads its input instead (io).
Turn(io) ==
  /\ waiting # "no" /\ Before
  /\ \/ \E c \in Symbols : Len(heard) < MaxRx /\ Feed(c)
     \/ UNCHANGED <<expPos, expHit, heard>>
  /\ IF LeavesOnHit \/ (waiting = "io" /\ io) THEN Finish(io) ELSE Stay
  /\ UNCHANGED <<now, until, since, asked, prog, cmds>>

\* The deadline has come.
TimeUp ==
  /\ waiting # "no" /\ ~Before
  /\ UNCHANGED <<expPos, expHit, heard>>
  /\ Finish(FALSE)
  /\ UNCHANGED <<now, until, since, asked, prog, cmds>>

-----------------------------------------------------------------------------
(* The program: skrit__run_program                                         *)

Idle == status # "running"

\* MACRO_RUN
Run(p) ==
  /\ Idle /\ cmds < MaxCmds /\ cmds' = cmds + 1
  /\ prog' = p /\ pc' = 1 /\ outcome' = TRUE
  /\ status' = IF Tier = 0 THEN "UNSUPPORTED" ELSE "running"
  /\ UNCHANGED <<now, expVars, waitVars, short, verdicts>>

\* OUT_PULSE: the output is driven and the device waits; 0 ms counts as 1.
Pulse(m) ==
  /\ Idle /\ cmds < MaxCmds /\ cmds' = cmds + 1
  /\ status' = "running"
  /\ Wait("pulse", IF m = 0 THEN 1 ELSE m)
  /\ UNCHANGED <<now, expVars, prog, pc, outcome, short, verdicts>>

Running == status = "running" /\ waiting = "no"
At(op)  == Running /\ pc <= Len(prog) /\ prog[pc].op = op

Halt(st) == /\ status' = st
            /\ UNCHANGED <<now, expVars, waitVars, prog, pc, outcome, cmds,
                           short, verdicts>>

\* END, and the end of the code.
End == (At("END") \/ (Running /\ pc > Len(prog))) /\ Halt("OK")

\* Truncated operands.
Cut == At("CUT") /\ Halt("BADARGS")

\* A reserved opcode, or one above the device's tier.
Interactive == {"EXPECT", "WAITIO", "WAITOK"}
Refused == (At("IF") \/ (Tier < 2 /\ \E op \in Interactive : At(op)))
           /\ Halt("UNSUPPORTED")

Step == /\ pc' = pc + 1
        /\ UNCHANGED <<now, expVars, waitVars, prog, outcome, status, cmds,
                       short, verdicts>>

\* EMIT, SETOUT, SETPWM, SETRGB, INVOKE
Act == At("ACT") /\ Step

Delay == /\ At("DELAY")
         /\ Wait("delay", prog[pc].ms)
         /\ UNCHANGED <<now, expVars, runVars, short, verdicts>>

\* EXPECT arms the matcher and waits; a timeout of 0 counts as 1, an empty
\* pattern is refused.
Arm(pat) == expPat' = pat /\ expPos' = 0 /\ expHit' = FALSE

Timeout(m) == IF m = 0 THEN 1 ELSE m

Expect ==
  /\ At("EXPECT") /\ Tier = 2
  /\ IF prog[pc].pat = <<>>
     THEN Halt("BADARGS")
     ELSE /\ Arm(prog[pc].pat)
          /\ Wait("expect", Timeout(prog[pc].ms))
          /\ UNCHANGED <<now, runVars, short, verdicts>>

WaitIO == /\ At("WAITIO") /\ Tier = 2
          /\ Wait("io", Timeout(prog[pc].ms))
          /\ UNCHANGED <<now, expVars, runVars, short, verdicts>>

WaitOK == /\ At("WAITOK") /\ Tier = 2
          /\ IF outcome THEN Step ELSE Halt("BUSY")

\* Time passes, and during a wait at least as long as it was asked to last.
Tick == /\ now < MaxTime \/ (waiting # "no" /\ now < since + asked)
        /\ now' = now + 1
        /\ UNCHANGED <<expVars, waitVars, runVars, short, verdicts>>

VM == \/ End \/ Cut \/ Refused \/ Act \/ Delay \/ Expect \/ WaitIO \/ WaitOK
      \/ TimeUp \/ \E io \in BOOLEAN : Turn(io)

Next == Tick \/ VM \/ (\E p \in Programs : Run(p)) \/ \E m \in PulseMs : Pulse(m)

Spec == Init /\ [][Next]_vars

\* The loop runs and so does the clock.
LiveSpec == Spec /\ WF_vars(Tick) /\ WF_vars(VM)

-----------------------------------------------------------------------------
(* Properties                                                              *)

TypeOK ==
  /\ now \in Nat /\ cmds \in 0..MaxCmds
  /\ pc \in Nat /\ outcome \in BOOLEAN
  /\ waiting \in {"no", "delay", "expect", "io", "pulse"}
  /\ until \in 0..(Period - 1) /\ since \in Nat /\ asked \in Nat
  /\ heard \in Seq(Symbols) /\ expPat \in Seq(Symbols)
  /\ expPos \in Nat /\ expHit \in BOOLEAN
  /\ status \in {"running", "OK", "BADARGS", "BUSY", "UNSUPPORTED"}
  /\ short \subseteq [hit : BOOLEAN, wraps : BOOLEAN]

\* s ends with the first n elements of pat.
EndsWith(s, pat, n) ==
  n <= Len(s) /\ \A i \in 1..n : s[Len(s) - n + i] = pat[i]

\* pat occurs in s.
Occurs(pat, s) ==
  \E i \in 0..Len(s) : /\ i + Len(pat) <= Len(s)
                       /\ \A j \in 1..Len(pat) : s[i + j] = pat[j]

\* EXPECT succeeds only when its pattern came in, in full, after the operation
\* started: never on bytes of an earlier wait, never on scattered pieces.
ExpectSound == \A v \in verdicts : v.hit => Occurs(v.pat, v.heard)

\* PROTOCOL.md: EXPECT is to "match bytes on incoming DATA".  When the first
\* byte of the pattern comes back nowhere in it, EXPECT misses nothing.
Simple(pat) == \A i \in 2..Len(pat) : pat[i] # pat[1]
SimpleExpectComplete == \A v \in verdicts :
                          Simple(v.pat) /\ Occurs(v.pat, v.heard) => v.hit

\* PROTOCOL.md: DELAY is a "pause" of ms, OUTPUT_PULSE restores "after ms".  Both
\* last as long as they were asked to, until an EXPECT has matched (exp_hit is
\* never cleared: every later one of the program and the next ends at once),
\* unless their deadline is past the wrap of the clock.
ShortOnlyAfterHit ==
  TypeOK /\ \A s \in short : s.wraps \/ (s.hit /\ \E v \in verdicts : v.hit)

\* Every command ends, as long as the clock does not wrap.
CommandsEnd ==
  (status = "running") ~> (status # "running" \/ Boot + now >= Period)
=============================================================================
