--------------------------- MODULE Macros_proofs ----------------------------
(***************************************************************************)
(* Theorems about macros: the virtual machine that runs them (MacroVM) and *)
(* the upload of a scratch program (MacroUpload). The two modules have no  *)
(* name in common; each theorem is about the specification of one of them. *)
(***************************************************************************)
EXTENDS MacroVM, MacroUpload, SequenceTheorems, TLAPS

-----------------------------------------------------------------------------
(***************************************************************************)
(* The virtual machine, for any programs, console and clock: a match that  *)
(* EXPECT reports is a real one, for a pattern whose first byte does not   *)
(* come back in it a real one is reported, and a pause is cut short only   *)
(* by a match.                                                             *)
(***************************************************************************)

-----------------------------------------------------------------------------
(* The matcher, one byte at a time                                         *)

\* The position stays the length of a prefix that the bytes heard end with.
LEMMA AdvanceTracks ==
  ASSUME NEW S, NEW pat \in Seq(S), NEW h \in Seq(S), NEW c \in S,
         NEW pos \in Nat, pos < Len(pat), EndsWith(h, pat, pos)
  PROVE  /\ Advance(pat, pos, c) \in 0..Len(pat)
         /\ EndsWith(Append(h, c), pat, Advance(pat, pos, c))
<1> DEFINE t == Append(h, c)
<1>1. /\ Len(h) \in Nat /\ Len(pat) \in Nat /\ Len(t) = Len(h) + 1
      /\ t[Len(h) + 1] = c
      /\ \A i \in 1..Len(h) : t[i] = h[i]
  BY AppendProperties, LenProperties
<1> HIDE DEF t
<1>2. CASE c = pat[pos + 1]
  <2>1. \A i \in 1..pos : t[Len(t) - (pos + 1) + i] = pat[i]
    <3> TAKE i \in 1..pos
    <3>1. Len(h) - pos + i \in 1..Len(h) /\ h[Len(h) - pos + i] = pat[i]
      BY <1>1 DEF EndsWith
    <3>2. Len(t) - (pos + 1) + i = Len(h) - pos + i
      BY <1>1
    <3> QED
      BY <1>1, <3>1, <3>2
  <2>2. Len(t) - (pos + 1) + (pos + 1) = Len(h) + 1
    BY <1>1
  <2>3. EndsWith(t, pat, pos + 1)
    <3>1. pos + 1 <= Len(t)
      BY <1>1 DEF EndsWith
    <3>2. ASSUME NEW i \in 1..(pos + 1) PROVE t[Len(t) - (pos + 1) + i] = pat[i]
      <4>1. i \in 1..pos \/ i = pos + 1
        OBVIOUS
      <4> QED
        BY <4>1, <2>1, <2>2, <1>1, <1>2
    <3> QED
      BY <3>1, <3>2 DEF EndsWith
  <2> QED
    BY <1>1, <1>2, <2>3 DEF Advance, t
<1>3. CASE c # pat[pos + 1] /\ c = pat[1]
  <2>1. EndsWith(t, pat, 1)
    <3>1. Len(t) - 1 + 1 = Len(h) + 1 /\ 1 <= Len(t)
      BY <1>1
    <3>2. \A i \in 1..1 : i = 1
      OBVIOUS
    <3> QED
      BY <3>1, <3>2, <1>1, <1>3 DEF EndsWith
  <2> QED
    BY <1>1, <1>3, <2>1 DEF Advance, t
<1>4. CASE c # pat[pos + 1] /\ c # pat[1]
  BY <1>1, <1>4 DEF Advance, EndsWith, t
<1> QED
  BY <1>2, <1>3, <1>4

\* What the bytes heard end with now, they ended with but for the last byte.
LEMMA EndsWithButLast ==
  ASSUME NEW S, NEW pat \in Seq(S), NEW h \in Seq(S), NEW c \in S,
         NEW m \in 1..Len(pat), EndsWith(Append(h, c), pat, m)
  PROVE  EndsWith(h, pat, m - 1) /\ pat[m] = c
<1> DEFINE t == Append(h, c)
<1>1. /\ Len(h) \in Nat /\ Len(pat) \in Nat /\ Len(t) = Len(h) + 1
      /\ t[Len(h) + 1] = c
      /\ \A i \in 1..Len(h) : t[i] = h[i]
  BY AppendProperties, LenProperties
<1>2. EndsWith(t, pat, m)
  OBVIOUS
<1> HIDE DEF t
<1>3. m <= Len(t) /\ \A i \in 1..m : t[Len(t) - m + i] = pat[i]
  BY <1>2 DEF EndsWith
<1>4. pat[m] = c
  <2>1. Len(t) - m + m = Len(h) + 1 /\ m \in 1..m
    BY <1>1
  <2> QED
    BY <1>1, <1>3, <2>1
<1>5. ASSUME NEW i \in 1..(m - 1) PROVE h[Len(h) - (m - 1) + i] = pat[i]
  <2>1. Len(t) - m + i = Len(h) - (m - 1) + i /\ i \in 1..m
        /\ Len(h) - (m - 1) + i \in 1..Len(h)
    BY <1>1, <1>3
  <2> QED
    BY <1>1, <1>3, <2>1
<1> QED
  BY <1>1, <1>3, <1>4, <1>5 DEF EndsWith

\* A simple pattern's prefixes do not overlap: bytes that end with two of them
\* end with the empty one.
LEMMA NoOverlap ==
  ASSUME NEW S, NEW pat \in Seq(S), NEW h \in Seq(S), Simple(pat),
         NEW n \in 0..Len(pat), NEW m \in 0..Len(pat), m < n,
         EndsWith(h, pat, n), EndsWith(h, pat, m)
  PROVE  m = 0
<1> SUFFICES ASSUME m # 0 PROVE FALSE
  OBVIOUS
<1>1. Len(h) \in Nat /\ Len(pat) \in Nat
  BY LenProperties
<1>2. h[Len(h) - m + 1] = pat[1]
  BY <1>1 DEF EndsWith
<1>3. n - m + 1 \in 1..n /\ n - m + 1 \in 2..Len(pat)
  BY <1>1
<1>4. h[Len(h) - n + (n - m + 1)] = pat[n - m + 1]
  BY <1>3 DEF EndsWith
<1>5. Len(h) - n + (n - m + 1) = Len(h) - m + 1
  BY <1>1
<1> QED
  BY <1>2, <1>3, <1>4, <1>5 DEF Simple

\* The position is that of the longest prefix.
Longest(pat, h, pos) == \A m \in 0..Len(pat) : EndsWith(h, pat, m) => m <= pos

\* The position is that of the longest such prefix.
LEMMA AdvanceLongest ==
  ASSUME NEW S, NEW pat \in Seq(S), NEW h \in Seq(S), NEW c \in S, Simple(pat),
         NEW pos \in Nat, pos < Len(pat), EndsWith(h, pat, pos), Longest(pat, h, pos)
  PROVE  Longest(pat, Append(h, c), Advance(pat, pos, c))
<1>1. Len(pat) \in Nat
  BY LenProperties
<1> SUFFICES ASSUME NEW m \in 0..Len(pat), EndsWith(Append(h, c), pat, m)
             PROVE  m <= Advance(pat, pos, c)
  BY DEF Longest
<1>2. CASE m = 0
  BY <1>1, <1>2 DEF Advance
<1>3. CASE m # 0
  <2>1. m \in 1..Len(pat) /\ m - 1 \in 0..Len(pat) /\ pos \in 0..Len(pat)
    BY <1>1, <1>3
  <2>2. EndsWith(h, pat, m - 1) /\ pat[m] = c
    BY <2>1, EndsWithButLast
  <2>3. m - 1 <= pos
    BY <2>1, <2>2 DEF Longest
  <2>4. CASE m - 1 = pos
    BY <2>2, <2>4, <1>1 DEF Advance
  <2>5. CASE m - 1 < pos
    <3>1. m - 1 = 0
      BY <2>1, <2>2, <2>5, NoOverlap
    <3> QED
      BY <2>2, <3>1, <1>1 DEF Advance
  <2> QED
    BY <1>1, <2>1, <2>3, <2>4, <2>5
<1> QED
  BY <1>2, <1>3

\* What occurs after a byte occurred before it, or ends with it.
LEMMA OccursLast ==
  ASSUME NEW S, NEW pat \in Seq(S), NEW h \in Seq(S), NEW c \in S,
         Occurs(pat, Append(h, c)), ~Occurs(pat, h)
  PROVE  EndsWith(Append(h, c), pat, Len(pat))
<1> DEFINE t == Append(h, c)
<1>1. /\ Len(h) \in Nat /\ Len(pat) \in Nat /\ Len(t) = Len(h) + 1
      /\ \A i \in 1..Len(h) : t[i] = h[i]
  BY AppendProperties, LenProperties
<1>2. Occurs(pat, t)
  OBVIOUS
<1> HIDE DEF t
<1>3. PICK i \in 0..Len(t) : /\ i + Len(pat) <= Len(t)
                             /\ \A j \in 1..Len(pat) : t[i + j] = pat[j]
  BY <1>2 DEF Occurs
<1>4. CASE i + Len(pat) <= Len(h)
  <2>1. i \in 0..Len(h) /\ \A j \in 1..Len(pat) : i + j \in 1..Len(h)
    BY <1>1, <1>4
  <2> QED
    BY <1>1, <1>3, <1>4, <2>1 DEF Occurs
<1>5. CASE i + Len(pat) = Len(t)
  <2>1. i = Len(t) - Len(pat)
    BY <1>1, <1>5
  <2>2. EndsWith(t, pat, Len(pat))
    BY <1>1, <1>3, <2>1 DEF EndsWith
  <2> QED
    BY <2>2 DEF t
<1> QED
  BY <1>1, <1>3, <1>4, <1>5

\* And bytes that end with the pattern hold it.
LEMMA EndsOccurs ==
  ASSUME NEW S, NEW pat \in Seq(S), NEW h \in Seq(S), EndsWith(h, pat, Len(pat))
  PROVE  Occurs(pat, h)
<1>1. Len(h) \in Nat /\ Len(pat) \in Nat
  BY LenProperties
<1>2. Len(h) - Len(pat) \in 0..Len(h)
      /\ Len(h) - Len(pat) + Len(pat) <= Len(h)
  BY <1>1 DEF EndsWith
<1> QED
  BY <1>1, <1>2 DEF EndsWith, Occurs

-----------------------------------------------------------------------------
(* The invariant                                                           *)

\* The matcher is armed exactly while an EXPECT waits, inside a command, ...
ArmedInv ==
  /\ pc \in Nat \ {0} /\ prog \in Programs \union {<<>>}
  /\ heard \in Seq(Symbols) /\ expPat \in Seq(Symbols)
  /\ expPos \in Nat /\ expHit \in BOOLEAN
  /\ expPat # <<>> <=> waiting = "expect"
  /\ waiting # "no" => status = "running"

\* ... it is where the bytes heard put it, and for a simple pattern it has
\* missed nothing, ...
Tracked(pat, h, pos, hit) ==
  pat # <<>> => /\ EndsWith(h, pat, pos)
                /\ ~hit => pos < Len(pat)
                /\ hit <=> pos = Len(pat)
                /\ Simple(pat) => Longest(pat, h, pos) /\ (~hit => ~Occurs(pat, h))

\* ... and every verdict given was right.
Verdicts == ExpectSound /\ SimpleExpectComplete

MatchInv == ArmedInv /\ Tracked(expPat, heard, expPos, expHit) /\ Verdicts

\* One byte.
LEMMA FeedKeeps ==
  ASSUME MatchInv, NEW c \in Symbols, Feed(c)
  PROVE  /\ heard' \in Seq(Symbols) /\ expPos' \in Nat /\ expHit' \in BOOLEAN
         /\ Tracked(expPat, heard', expPos', expHit')
<1>1. CASE ~Armed
  BY <1>1 DEF Feed, MatchInv, ArmedInv
<1>2. CASE Armed
  <2>1. /\ expPat \in Seq(Symbols) /\ heard \in Seq(Symbols) /\ expPos \in Nat
        /\ expPos < Len(expPat) /\ EndsWith(heard, expPat, expPos) /\ ~expHit
        /\ Simple(expPat) => Longest(expPat, heard, expPos) /\ ~Occurs(expPat, heard)
    BY <1>2 DEF Armed, MatchInv, ArmedInv, Tracked
  <2>2. /\ expPos' = Advance(expPat, expPos, c) /\ heard' = Append(heard, c)
        /\ expHit' = (expPos' = Len(expPat))
    BY <1>2 DEF Feed
  <2>h. expHit' \in BOOLEAN /\ (expHit' <=> expPos' = Len(expPat))
    BY <2>2, Zenon
  <2>3. Len(expPat) \in Nat
    BY <2>1, LenProperties
  <2>4. expPos' \in 0..Len(expPat) /\ EndsWith(heard', expPat, expPos')
    BY <2>1, <2>2, AdvanceTracks
  <2>5. heard' \in Seq(Symbols)
    BY <2>1, <2>2, AppendProperties
  <2>6. Simple(expPat) => Longest(expPat, heard', expPos')
    BY <2>1, <2>2, AdvanceLongest
  <2>7. ASSUME Simple(expPat), ~expHit', Occurs(expPat, heard') PROVE FALSE
    <3>1. EndsWith(heard', expPat, Len(expPat))
      BY <2>1, <2>2, <2>7, OccursLast
    <3>2. Len(expPat) <= expPos'
      BY <2>3, <2>6, <2>7, <3>1 DEF Longest
    <3>3. expPos' = Len(expPat)
      BY <2>3, <2>4, <3>2
    <3> QED
      BY <2>h, <2>7, <3>3
  <2>8. ~expHit' => expPos' < Len(expPat)
    <3>1. expPos' < Len(expPat) \/ expPos' = Len(expPat)
      BY <2>3, <2>4
    <3> QED
      BY <2>h, <3>1
  <2>9. expPos' \in Nat
    BY <2>3, <2>4
  <2> QED
    BY <2>h, <2>4, <2>5, <2>6, <2>7, <2>8, <2>9 DEF Tracked
<1> QED
  BY <1>1, <1>2

\* The verdict an EXPECT gives is right on what it heard.
LEMMA VerdictRight ==
  ASSUME NEW pat \in Seq(Symbols), NEW h \in Seq(Symbols), NEW pos, NEW hit \in BOOLEAN,
         pat # <<>>, Tracked(pat, h, pos, hit)
  PROVE  /\ hit => Occurs(pat, h)
         /\ Simple(pat) /\ Occurs(pat, h) => hit
  BY EndsOccurs DEF Tracked

\* A wait ends, with the matcher as the last byte left it.
LEMMA FinishKeeps ==
  ASSUME MatchInv, NEW io, Finish(io), waiting # "no", prog' = prog,
         heard' \in Seq(Symbols), expPos' \in Nat, expHit' \in BOOLEAN,
         Tracked(expPat, heard', expPos', expHit')
  PROVE  MatchInv'
<1>1. expPat' = <<>> /\ waiting' = "no"
  BY DEF MatchInv, Finish, Resume, Conclude, ArmedInv
<1>2. pc' \in Nat \ {0}
  BY DEF MatchInv, Finish, Resume, ArmedInv
<1>3. ArmedInv'
  BY <1>1, <1>2, EmptySeq DEF MatchInv, ArmedInv
<1>4. Tracked(expPat, heard, expPos, expHit)'
  BY <1>1 DEF Tracked
<1>5. CASE waiting # "expect"
  <2>1. verdicts' = verdicts
    BY <1>5 DEF Finish, Conclude
  <2> QED
    BY <1>3, <1>4, <2>1 DEF MatchInv, Verdicts, ExpectSound, SimpleExpectComplete
<1>6. CASE waiting = "expect"
  <2> DEFINE v == [pat |-> expPat, heard |-> heard', hit |-> expHit']
  <2>1. verdicts' = verdicts \union {v}
    BY <1>6 DEF Finish, Conclude
  <2>2. expPat \in Seq(Symbols) /\ expPat # <<>>
    BY <1>6 DEF MatchInv, ArmedInv
  <2>3. /\ expHit' => Occurs(expPat, heard')
        /\ Simple(expPat) /\ Occurs(expPat, heard') => expHit'
    BY <2>2, VerdictRight
  <2>4. /\ v.hit => Occurs(v.pat, v.heard)
        /\ Simple(v.pat) /\ Occurs(v.pat, v.heard) => v.hit
    BY <2>3
  <2> HIDE DEF v
  <2>5. Verdicts'
    BY <2>1, <2>4 DEF MatchInv, Verdicts, ExpectSound, SimpleExpectComplete
  <2> QED
    BY <1>3, <1>4, <2>5 DEF MatchInv
<1> QED
  BY <1>5, <1>6

\* A turn of the poll loop feeds one byte to the matcher, or ends the wait.
LEMMA TurnKeeps ==
  ASSUME MatchInv, NEW io \in BOOLEAN, Turn(io)
  PROVE  MatchInv'
<1>1. /\ heard' \in Seq(Symbols) /\ expPos' \in Nat /\ expHit' \in BOOLEAN
      /\ Tracked(expPat, heard', expPos', expHit')
  <2>1. CASE UNCHANGED <<expPos, expHit, heard>>
    BY <2>1 DEF MatchInv, ArmedInv
  <2> QED
    BY <2>1, FeedKeeps DEF Turn
<1>2. waiting # "no" /\ prog' = prog /\ (Finish(io) \/ Stay)
  BY DEF Turn
<1>3. CASE Finish(io)
  BY <1>1, <1>2, <1>3, FinishKeeps
<1>4. CASE Stay
  <2>1. UNCHANGED <<waiting, status, pc, expPat, verdicts>>
    BY <1>4 DEF Stay
  <2>2. ArmedInv'
    BY <1>1, <1>2, <2>1 DEF MatchInv, ArmedInv
  <2>3. Tracked(expPat, heard, expPos, expHit)'
    BY <1>1, <2>1
  <2>4. Verdicts'
    BY <2>1 DEF MatchInv, Verdicts, ExpectSound, SimpleExpectComplete
  <2> QED
    BY <2>2, <2>3, <2>4 DEF MatchInv
<1> QED
  BY <1>2, <1>3, <1>4

\* A step that neither feeds the matcher nor ends a wait.
LEMMA QuietKeeps ==
  ASSUME MatchInv, UNCHANGED <<expVars, heard, verdicts, waiting>>,
         pc' \in Nat \ {0}, prog' \in Programs \union {<<>>},
         waiting # "no" => status' = "running"
  PROVE  MatchInv'
<1>1. ArmedInv'
  BY DEF MatchInv, ArmedInv, expVars
<1>2. Tracked(expPat, heard, expPos, expHit)'
  BY DEF MatchInv, expVars
<1>3. Verdicts'
  BY DEF MatchInv, Verdicts, ExpectSound, SimpleExpectComplete
<1> QED
  BY <1>1, <1>2, <1>3 DEF MatchInv

\* A wait that does not arm the matcher begins.
LEMMA WaitKeeps ==
  ASSUME MatchInv, waiting = "no", NEW kind \in {"delay", "io", "pulse"}, NEW m,
         Wait(kind, m), UNCHANGED <<expVars, prog, pc, verdicts>>, status' = "running"
  PROVE  MatchInv'
<1>1. expPat = <<>> /\ expPat' = <<>>
  BY DEF MatchInv, ArmedInv, expVars
<1>2. ArmedInv'
  BY <1>1, EmptySeq DEF MatchInv, ArmedInv, Wait, expVars
<1>3. Tracked(expPat, heard, expPos, expHit)'
  BY <1>1 DEF Tracked
<1>4. Verdicts'
  BY DEF MatchInv, Verdicts, ExpectSound, SimpleExpectComplete
<1> QED
  BY <1>2, <1>3, <1>4 DEF MatchInv

\* EXPECT arms the matcher with nothing heard.
LEMMA ExpectKeeps ==
  ASSUME MatchInv, Expect
  PROVE  MatchInv'
<1>1. /\ status = "running" /\ waiting = "no" /\ pc \in 1..Len(prog)
      /\ prog[pc].op = "EXPECT"
  BY DEF Expect, At, Running, MatchInv, ArmedInv
<1>2. prog \in Programs
  <2>1. Len(<<>>) = 0
    BY EmptySeq
  <2> QED
    BY <1>1, <2>1 DEF MatchInv, ArmedInv
<1>3. prog[pc].pat \in Seq(Symbols)
  BY <1>1, <1>2, VMAssumption
<1>4. CASE prog[pc].pat = <<>>
  BY <1>1, <1>4, QuietKeeps DEF Expect, Halt, waitVars, MatchInv, ArmedInv
<1>5. CASE prog[pc].pat # <<>>
  <2>1. /\ expPat' = prog[pc].pat /\ expPos' = 0 /\ ~expHit' /\ heard' = <<>>
        /\ expHit' \in BOOLEAN
        /\ waiting' = "expect" /\ UNCHANGED <<runVars, verdicts>>
    BY <1>5 DEF Expect, Arm, Wait
  <2>2. Len(expPat') \in Nat \ {0} /\ Len(heard') = 0 /\ heard' \in Seq(Symbols)
    BY <1>3, <1>5, <2>1, LenProperties, EmptySeq
  <2>3. ArmedInv'
    BY <1>1, <1>3, <1>5, <2>1, <2>2 DEF MatchInv, ArmedInv, runVars
  <2>4. \A n \in Nat : EndsWith(heard', expPat', n) => n = 0
    BY <2>2 DEF EndsWith
  <2>5. EndsWith(heard', expPat', 0)
    BY <2>2 DEF EndsWith
  <2>6. Longest(expPat', heard', expPos')
    BY <2>1, <2>2, <2>4 DEF Longest
  <2>7. ~Occurs(expPat', heard')
    BY <2>2 DEF Occurs
  <2>8. Tracked(expPat, heard, expPos, expHit)'
    BY <2>1, <2>2, <2>5, <2>6, <2>7 DEF Tracked
  <2>9. Verdicts'
    BY <2>1 DEF MatchInv, Verdicts, ExpectSound, SimpleExpectComplete
  <2> QED
    BY <2>3, <2>8, <2>9 DEF MatchInv
<1> QED
  BY <1>4, <1>5

\* No step breaks what the matcher relies on.
LEMMA NextKeeps == MatchInv /\ [Next]_vars => MatchInv'
<1> SUFFICES ASSUME MatchInv, [Next]_vars PROVE MatchInv'
  OBVIOUS
<1>a. pc \in Nat \ {0} /\ pc + 1 \in Nat \ {0} /\ prog \in Programs \union {<<>>}
  BY DEF MatchInv, ArmedInv
<1>b. waiting # "no" => status = "running"
  BY DEF MatchInv, ArmedInv
<1>1. CASE Tick
  BY <1>1, <1>a, <1>b, QuietKeeps DEF Tick, waitVars, runVars
<1>2. CASE End \/ Cut \/ Refused
  <2>1. waiting = "no" /\ \E st : Halt(st)
    BY <1>2 DEF End, Cut, Refused, At, Running
  <2> QED
    BY <2>1, <1>a, QuietKeeps DEF Halt, waitVars
<1>3. CASE Act
  BY <1>3, <1>a, QuietKeeps DEF Act, At, Running, Step, waitVars
<1>4. CASE Delay
  <2>1. waiting = "no" /\ status' = "running" /\ Wait("delay", prog[pc].ms)
        /\ UNCHANGED <<expVars, prog, pc, verdicts>>
    BY <1>4 DEF Delay, At, Running, runVars
  <2> QED
    BY <2>1, WaitKeeps
<1>5. CASE Expect
  BY <1>5, ExpectKeeps
<1>6. CASE WaitIO
  <2>1. waiting = "no" /\ status' = "running" /\ Wait("io", Timeout(prog[pc].ms))
        /\ UNCHANGED <<expVars, prog, pc, verdicts>>
    BY <1>6 DEF WaitIO, At, Running, runVars
  <2> QED
    BY <2>1, WaitKeeps
<1>7. CASE WaitOK
  <2>1. waiting = "no" /\ (Step \/ Halt("BUSY"))
    BY <1>7 DEF WaitOK, At, Running
  <2> QED
    BY <2>1, <1>a, QuietKeeps DEF Step, Halt, waitVars
<1>8. CASE TimeUp
  <2>1. /\ heard' \in Seq(Symbols) /\ expPos' \in Nat /\ expHit' \in BOOLEAN
        /\ Tracked(expPat, heard', expPos', expHit')
    BY <1>8 DEF TimeUp, MatchInv, ArmedInv
  <2> QED
    BY <1>8, <2>1, FinishKeeps DEF TimeUp
<1>9. ASSUME NEW io \in BOOLEAN, Turn(io) PROVE MatchInv'
  BY <1>9, TurnKeeps
<1>10. ASSUME NEW p \in Programs, Run(p) PROVE MatchInv'
  BY <1>10, <1>b, QuietKeeps DEF Run, Idle, waitVars
<1>11. ASSUME NEW m \in PulseMs, Pulse(m) PROVE MatchInv'
  <2>1. waiting = "no"
    BY <1>11, <1>b DEF Pulse, Idle
  <2> QED
    BY <1>11, <2>1, WaitKeeps DEF Pulse
<1>12. CASE UNCHANGED vars
  BY <1>12, <1>a, <1>b, QuietKeeps DEF vars, waitVars, runVars
<1> QED
  BY <1>1, <1>2, <1>3, <1>4, <1>5, <1>6, <1>7, <1>8, <1>9, <1>10, <1>11, <1>12
  DEF Next, VM

\* In every state of the program the matcher is sound.
LEMMA MatchInvariant == Spec => []MatchInv
<1>1. Init => MatchInv
  <2> SUFFICES ASSUME Init PROVE MatchInv
    OBVIOUS
  <2>1. ArmedInv
    <3>1. pc \in Nat \ {0} /\ expPos \in Nat /\ <<>> \in Seq(Symbols)
      BY EmptySeq DEF Init
    <3>2. waiting = "no" /\ "no" # "expect"
      BY DEF Init
    <3> QED
      BY <3>1, <3>2, Zenon DEF Init, ArmedInv
  <2>2. Tracked(expPat, heard, expPos, expHit)
    BY DEF Init, Tracked
  <2>3. Verdicts
    BY DEF Init, Verdicts, ExpectSound, SimpleExpectComplete
  <2> QED
    BY <2>1, <2>2, <2>3 DEF MatchInv
<1> QED
  BY <1>1, NextKeeps, PTL DEF Spec

\* For every program, console and clock: an EXPECT that succeeds has heard its
\* pattern after it started.
THEOREM ExpectIsSound == Spec => []ExpectSound
<1>1. MatchInv => ExpectSound
  BY DEF MatchInv, Verdicts
<1> QED
  BY <1>1, MatchInvariant, PTL

\* And one whose pattern does not begin again inside itself fails only when it
\* has not heard it: trying the first byte alone again, as skrit_dev_feed_data
\* does, is enough for those.
THEOREM SimpleExpectIsComplete == Spec => []SimpleExpectComplete
<1>1. MatchInv => SimpleExpectComplete
  BY DEF MatchInv, Verdicts
<1> QED
  BY <1>1, MatchInvariant, PTL

-----------------------------------------------------------------------------
(* Pauses                                                                  *)

\* While a wait lasts its deadline is the end of the time asked for, unless the
\* clock wraps on the way; the hit flag is set by an EXPECT that has ended.
TimeInv ==
  /\ TypeOK
  /\ waiting # "no" /\ ~Wraps => until = Boot + since + asked
  /\ expHit => waiting # "expect" /\ \E v \in verdicts : v.hit
  /\ \A s \in short : s.wraps \/ (s.hit /\ \E v \in verdicts : v.hit)

\* Before it wraps, the clock shows the time since power-up.
LEMMA ClockValue ==
  ASSUME NEW n \in Nat
  PROVE  n % Period \in 0..(Period - 1) /\ (n < Period => n % Period = n)
  BY VMAssumption

\* The operands of a pause are numbers.
LEMMA OperandTypes ==
  ASSUME MatchInv, At("EXPECT") \/ At("WAITIO") \/ At("DELAY")
  PROVE  /\ waiting = "no" /\ status = "running" /\ prog[pc].ms \in Nat
         /\ Timeout(prog[pc].ms) \in Nat
         /\ At("EXPECT") => prog[pc].pat \in Seq(Symbols)
<1>1. pc \in 1..Len(prog) /\ prog[pc].op \in {"EXPECT", "WAITIO", "DELAY"}
  BY DEF At, Running, MatchInv, ArmedInv
<1>2. prog \in Programs
  <2>1. Len(<<>>) = 0
    BY EmptySeq
  <2> QED
    BY <1>1, <2>1 DEF MatchInv, ArmedInv
<1>3. prog[pc].ms \in Nat /\ (prog[pc].op = "EXPECT" => prog[pc].pat \in Seq(Symbols))
  BY <1>1, <1>2, VMAssumption
<1> QED
  BY <1>3 DEF At, Running, Timeout

\* A wait begins.
LEMMA WaitTimes ==
  ASSUME TypeOK, NEW kind \in {"delay", "expect", "io", "pulse"}, NEW m \in Nat,
         Wait(kind, m)
  PROVE  /\ until' \in 0..(Period - 1) /\ since' \in Nat /\ asked' \in Nat
         /\ heard' \in Seq(Symbols) /\ waiting' = kind
         /\ ~Wraps' => until' = Boot + since' + asked'
<1>1. /\ waiting' = kind /\ until' = (Millis + m) % Period /\ since' = now /\ asked' = m
      /\ heard' = <<>> /\ now \in Nat /\ Boot \in Nat
  BY VMAssumption DEF Wait, Deadline, TypeOK
<1>2. Millis \in Nat /\ (Boot + now < Period => Millis = Boot + now)
  <2>1. Boot + now \in Nat
    BY <1>1
  <2>2. (Boot + now) % Period \in 0..(Period - 1)
        /\ (Boot + now < Period => (Boot + now) % Period = Boot + now)
    BY <2>1, ClockValue
  <2> QED
    BY <2>2, VMAssumption DEF Millis
<1>3. until' \in 0..(Period - 1) /\ (Millis + m < Period => until' = Millis + m)
  BY <1>1, <1>2, ClockValue
<1>4. ASSUME ~Wraps' PROVE until' = Boot + since' + asked'
  <2>1. Boot + now + m < Period
    BY <1>1, <1>4, VMAssumption DEF Wraps
  <2>2. Boot + now < Period
    BY <1>1, <2>1, VMAssumption
  <2> QED
    BY <1>1, <1>2, <1>3, <2>1, <2>2
<1> QED
  BY <1>1, <1>3, <1>4, EmptySeq

\* The step keeps what the commands before it have left behind.
LEMMA WaitTimed ==
  ASSUME TimeInv, waiting = "no", NEW kind \in {"delay", "io", "pulse"}, NEW m \in Nat,
         Wait(kind, m), UNCHANGED <<now, expVars, prog, pc, outcome, short, verdicts>>,
         status' \in {status, "running"}, cmds' \in 0..MaxCmds
  PROVE  TimeInv'
<1>1. /\ until' \in 0..(Period - 1) /\ since' \in Nat /\ asked' \in Nat
      /\ heard' \in Seq(Symbols) /\ waiting' = kind
      /\ ~Wraps' => until' = Boot + since' + asked'
  BY WaitTimes DEF TimeInv
<1>2. TypeOK'
  BY <1>1 DEF TimeInv, TypeOK, expVars
<1> QED
  BY <1>1, <1>2 DEF TimeInv, expVars

\* A wait ends: at its deadline, on a hit, or because WAITIO reads its input.
LEMMA FinishTimed ==
  ASSUME MatchInv, TimeInv, NEW io \in BOOLEAN, Finish(io), waiting # "no",
         UNCHANGED <<now, until, since, asked, prog, cmds>>,
         heard' \in Seq(Symbols), expPos' \in Nat, expHit' \in BOOLEAN,
         waiting # "expect" => expHit' = expHit,
         ~Before \/ LeavesOnHit \/ waiting = "io"
  PROVE  TimeInv'
<1>1. /\ now \in Nat /\ since \in Nat /\ asked \in Nat /\ until \in 0..(Period - 1)
      /\ Boot \in Nat /\ waiting' = "no" /\ pc \in Nat
      /\ status \in {"running", "OK", "BADARGS", "BUSY", "UNSUPPORTED"}
  BY VMAssumption DEF TimeInv, TypeOK, Finish, Resume
<1>2. verdicts \subseteq verdicts'
  BY DEF Finish, Conclude
<1>3. (\E v \in verdicts : v.hit) => \E v \in verdicts' : v.hit
  BY <1>2
<1>4. ASSUME expHit' PROVE \E v \in verdicts' : v.hit
  <2>1. CASE waiting = "expect"
    <3> DEFINE v == [pat |-> expPat, heard |-> heard', hit |-> expHit']
    <3>1. v \in verdicts'
      BY <2>1 DEF Finish, Conclude
    <3>2. v.hit
      BY <1>4
    <3> QED
      BY <3>1, <3>2
  <2>2. CASE waiting # "expect"
    <3>1. expHit
      BY <1>4, <2>2
    <3> QED
      BY <1>3, <3>1 DEF TimeInv
  <2> QED
    BY <2>1, <2>2
<1>5. ASSUME waiting # "io", now < since + asked
      PROVE  Wraps \/ expHit'
  <2>1. CASE LeavesOnHit
    BY <2>1 DEF LeavesOnHit
  <2>2. CASE ~Before
    <3> SUFFICES ASSUME ~Wraps PROVE FALSE
      OBVIOUS
    <3>1. Boot + since + asked < Period /\ until = Boot + since + asked
      BY <1>1, VMAssumption DEF Wraps, TimeInv
    <3>2. Boot + now \in Nat /\ Boot + now < Period
      BY <1>1, <1>5, <3>1, VMAssumption
    <3>3. Millis = Boot + now
      BY <3>2, ClockValue DEF Millis
    <3> QED
      BY <1>1, <1>5, <2>2, <3>1, <3>3 DEF Before
  <2> QED
    BY <1>5, <2>1, <2>2
<1> DEFINE why == [hit |-> expHit', wraps |-> Wraps]
<1>6. why.wraps = Wraps /\ why.hit = expHit' /\ why \in [hit : BOOLEAN, wraps : BOOLEAN]
  <2>1. Wraps \in BOOLEAN
    BY DEF Wraps
  <2> QED
    BY <2>1
<1>7. short' = IF waiting \in {"delay", "pulse"} /\ now < since + asked
               THEN short \union {why} ELSE short
  BY DEF Finish, Resume, EndsOnTime
<1> HIDE DEF why
<1>8. short' \subseteq [hit : BOOLEAN, wraps : BOOLEAN]
  <2>1. short' \subseteq short \union {why}
    BY <1>7
  <2>2. short \subseteq [hit : BOOLEAN, wraps : BOOLEAN]
    BY DEF TimeInv, TypeOK
  <2> QED
    BY <1>6, <2>1, <2>2, Zenon
<1>9. ASSUME NEW s \in short'
      PROVE  s.wraps \/ (s.hit /\ \E v \in verdicts' : v.hit)
  <2>1. CASE s \in short
    BY <1>3, <2>1 DEF TimeInv
  <2>2. CASE s \notin short
    <3>1. s = why /\ waiting # "io" /\ now < since + asked
      BY <1>7, <1>9, <2>2
    <3>2. Wraps \/ expHit'
      BY <1>5, <3>1
    <3> QED
      BY <1>4, <1>6, <3>1, <3>2
  <2> QED
    BY <2>1, <2>2
<1>10. TypeOK'
  <2>1. outcome' \in BOOLEAN
    BY DEF Finish, Conclude, TimeInv, TypeOK
  <2>2. expPat' \in Seq(Symbols)
    BY EmptySeq DEF Finish, Conclude, TimeInv, TypeOK
  <2>3. pc' \in Nat /\ status' \in {"running", "OK", "BADARGS", "BUSY", "UNSUPPORTED"}
    BY <1>1 DEF Finish, Resume
  <2>4. cmds' \in 0..MaxCmds
    BY DEF TimeInv, TypeOK
  <2> QED
    BY <1>1, <1>8, <2>1, <2>2, <2>3, <2>4 DEF TypeOK
<1> QED
  BY <1>1, <1>4, <1>9, <1>10 DEF TimeInv

\* A turn that ends a wait finds it hit, or its time over.
LEMMA TurnTimed ==
  ASSUME MatchInv, TimeInv, NEW io \in BOOLEAN, Turn(io)
  PROVE  TimeInv'
<1>1. /\ heard' \in Seq(Symbols) /\ expPos' \in Nat /\ expHit' \in BOOLEAN
  <2>1. CASE UNCHANGED <<expPos, expHit, heard>>
    BY <2>1 DEF MatchInv, ArmedInv
  <2> QED
    BY <2>1, FeedKeeps DEF Turn
<1>2. waiting # "expect" => expHit' = expHit
  BY DEF MatchInv, ArmedInv, Turn, Feed, Armed
<1>3. waiting # "no" /\ UNCHANGED <<now, until, since, asked, prog, cmds>>
  BY DEF Turn
<1>4. CASE LeavesOnHit \/ (waiting = "io" /\ io)
  BY <1>1, <1>2, <1>3, <1>4, FinishTimed DEF Turn
<1>5. CASE ~LeavesOnHit /\ Stay
  <2>1. UNCHANGED <<waiting, short, status, pc, outcome, expPat, verdicts>>
    BY <1>5 DEF Stay
  <2>2. TypeOK'
    BY <1>1, <1>3, <2>1 DEF TimeInv, TypeOK
  <2>3. ~Wraps' => ~Wraps
    BY <1>3 DEF Wraps
  <2>4. expHit' => waiting # "expect"
    BY <1>5 DEF LeavesOnHit
  <2>5. expHit' => \E v \in verdicts : v.hit
    BY <1>2, <2>4 DEF TimeInv
  <2> QED
    BY <1>3, <2>1, <2>2, <2>3, <2>4, <2>5 DEF TimeInv
<1> QED
  BY <1>4, <1>5 DEF Turn

\* EXPECT starts its clock when it arms the matcher.
LEMMA ExpectTimed ==
  ASSUME MatchInv, TimeInv, Expect
  PROVE  TimeInv'
<1>1. /\ waiting = "no" /\ prog[pc].pat \in Seq(Symbols) /\ Timeout(prog[pc].ms) \in Nat
  BY OperandTypes DEF Expect
<1>2. CASE prog[pc].pat = <<>>
  <2>1. Halt("BADARGS")
    BY <1>2 DEF Expect
  <2> QED
    BY <2>1 DEF Halt, TimeInv, TypeOK, expVars, waitVars, Wraps
<1>3. CASE prog[pc].pat # <<>>
  <2>1. /\ expPat' = prog[pc].pat /\ expPos' = 0 /\ expHit' = FALSE
        /\ Wait("expect", Timeout(prog[pc].ms)) /\ UNCHANGED <<now, runVars, short, verdicts>>
    BY <1>3 DEF Expect, Arm
  <2>2. /\ until' \in 0..(Period - 1) /\ since' \in Nat /\ asked' \in Nat
        /\ heard' \in Seq(Symbols) /\ waiting' = "expect"
        /\ ~Wraps' => until' = Boot + since' + asked'
    BY <1>1, <2>1, WaitTimes DEF TimeInv
  <2>3. TypeOK'
    BY <1>1, <2>1, <2>2 DEF TimeInv, TypeOK, runVars
  <2> QED
    BY <2>1, <2>2, <2>3 DEF TimeInv
<1> QED
  BY <1>2, <1>3

\* A step outside every wait that begins none.
LEMMA QuietTimed ==
  ASSUME TimeInv, UNCHANGED <<expVars, waitVars, short, verdicts>>,
         now' \in Nat, pc' \in Nat, outcome' \in BOOLEAN, cmds' \in 0..MaxCmds,
         status' \in {"running", "OK", "BADARGS", "BUSY", "UNSUPPORTED"}
  PROVE  TimeInv'
<1>1. TypeOK'
  BY DEF TimeInv, TypeOK, expVars, waitVars
<1>2. Wraps' <=> Wraps
  BY DEF Wraps, waitVars
<1> QED
  BY <1>1, <1>2 DEF TimeInv, expVars, waitVars

\* No step cuts a pause short.
LEMMA NextTimed == MatchInv /\ TimeInv /\ [Next]_vars => TimeInv'
<1> SUFFICES ASSUME MatchInv, TimeInv, [Next]_vars PROVE TimeInv'
  OBVIOUS
<1>a. /\ now \in Nat /\ pc \in Nat /\ outcome \in BOOLEAN /\ cmds \in 0..MaxCmds
      /\ status \in {"running", "OK", "BADARGS", "BUSY", "UNSUPPORTED"}
      /\ now + 1 \in Nat /\ pc + 1 \in Nat /\ MaxCmds \in Nat
  BY VMAssumption DEF TimeInv, TypeOK
<1>b. waiting # "no" => status = "running"
  BY DEF MatchInv, ArmedInv
<1>1. CASE Tick
  BY <1>1, <1>a, QuietTimed DEF Tick, runVars
<1>2. CASE End \/ Cut \/ Refused
  <2>1. \E st \in {"OK", "BADARGS", "UNSUPPORTED"} : Halt(st)
    BY <1>2 DEF End, Cut, Refused
  <2> QED
    BY <2>1, <1>a, QuietTimed DEF Halt
<1>3. CASE Act
  BY <1>3, <1>a, QuietTimed DEF Act, Step
<1>4. CASE Delay
  <2>1. waiting = "no" /\ prog[pc].ms \in Nat /\ Wait("delay", prog[pc].ms)
        /\ UNCHANGED <<now, expVars, runVars, short, verdicts>>
    BY <1>4, OperandTypes DEF Delay
  <2> QED
    BY <2>1, <1>a, WaitTimed DEF runVars
<1>5. CASE Expect
  BY <1>5, ExpectTimed
<1>6. CASE WaitIO
  <2>1. waiting = "no" /\ Timeout(prog[pc].ms) \in Nat /\ Wait("io", Timeout(prog[pc].ms))
        /\ UNCHANGED <<now, expVars, runVars, short, verdicts>>
    BY <1>6, OperandTypes DEF WaitIO
  <2> QED
    BY <2>1, <1>a, WaitTimed DEF runVars
<1>7. CASE WaitOK
  <2>1. Step \/ Halt("BUSY")
    BY <1>7 DEF WaitOK
  <2> QED
    BY <2>1, <1>a, QuietTimed DEF Step, Halt
<1>8. CASE TimeUp
  <2>1. /\ waiting # "no" /\ ~Before /\ Finish(FALSE) /\ expHit' = expHit
        /\ UNCHANGED <<now, until, since, asked, prog, cmds>>
        /\ heard' \in Seq(Symbols) /\ expPos' \in Nat /\ expHit' \in BOOLEAN
    BY <1>8 DEF TimeUp, MatchInv, ArmedInv
  <2> QED
    BY <2>1, FinishTimed
<1>9. ASSUME NEW io \in BOOLEAN, Turn(io) PROVE TimeInv'
  BY <1>9, TurnTimed
<1>10. ASSUME NEW p \in Programs, Run(p) PROVE TimeInv'
  <2>1. /\ UNCHANGED <<now, expVars, waitVars, short, verdicts>>
        /\ pc' = 1 /\ outcome' = TRUE /\ cmds < MaxCmds /\ cmds' = cmds + 1
        /\ status' \in {"running", "OK", "BADARGS", "BUSY", "UNSUPPORTED"}
    BY <1>10 DEF Run
  <2>2. cmds' \in 0..MaxCmds
    BY <1>a, <2>1
  <2> QED
    BY <2>1, <2>2, <1>a, QuietTimed
<1>11. ASSUME NEW m \in PulseMs, Pulse(m) PROVE TimeInv'
  <2> DEFINE w == IF m = 0 THEN 1 ELSE m
  <2>1. waiting = "no" /\ w \in Nat /\ Wait("pulse", w)
        /\ UNCHANGED <<now, expVars, prog, pc, outcome, short, verdicts>>
        /\ status' = "running" /\ cmds < MaxCmds /\ cmds' = cmds + 1
    BY <1>11, <1>b, VMAssumption DEF Pulse, Idle
  <2> HIDE DEF w
  <2>2. cmds' \in 0..MaxCmds
    BY <1>a, <2>1
  <2> QED
    BY <2>1, <2>2, WaitTimed
<1>12. CASE UNCHANGED vars
  BY <1>12, <1>a, QuietTimed DEF vars, runVars
<1> QED
  BY <1>1, <1>2, <1>3, <1>4, <1>5, <1>6, <1>7, <1>8, <1>9, <1>10, <1>11, <1>12
  DEF Next, VM

\* For every program and clock: a DELAY or a pulse that ended before its time had
\* a deadline past the wrap, or came after an EXPECT that matched; skrit__wait
\* leaves early for no other reason.
THEOREM PausesLast == Spec => []ShortOnlyAfterHit
<1>1. Init => TimeInv
  <2> SUFFICES ASSUME Init PROVE TimeInv
    OBVIOUS
  <2>1. <<>> \in Seq(Symbols) /\ 0 \in 0..(Period - 1) /\ 0 \in 0..MaxCmds
    BY EmptySeq, VMAssumption
  <2>2. TypeOK
    BY <2>1 DEF Init, TypeOK
  <2> QED
    BY <2>2 DEF Init, TimeInv
<1>2. TimeInv => ShortOnlyAfterHit
  BY DEF TimeInv, ShortOnlyAfterHit
<1> QED
  BY <1>1, <1>2, NextTimed, MatchInvariant, PTL DEF Spec

-----------------------------------------------------------------------------
(***************************************************************************)
(* The push-and-run of a scratch macro, for uploads of any number and      *)
(* length, buffers of any size, and any losses and resets: the device runs *)
(* whole programs only.                                                    *)
(*                                                                         *)
(* A place <<v, s>> is step s of upload v.  What makes the protocol safe   *)
(* is that the requests and replies on the way, and the host, are never    *)
(* more than one step apart within an upload (Near), so a request finds in *)
(* the scratch memory what the one before it left, or, after a reset, a    *)
(* memory without a beginning (Ready).                                     *)
(***************************************************************************)

-----------------------------------------------------------------------------
(* What is on the way                                                      *)

Places   == Uploads \X Nat
Requests == [op : {"BEGIN", "DATA", "END", "RUN"}, id : Places]
Replies  == [id : Places, status : Answers]

\* b is the place a, or the one after it, or the beginning of a later upload.
Near(a, b) == \/ a = b
              \/ b[2] > 0 /\ a[1] = b[1] /\ a[2] = b[2] - 1
              \/ b[2] = 0 /\ a[1] < b[1]

\* The host's place, while it has one.
Place == <<upload, step>>

QueuesInv ==
  /\ toDev \in Seq(Requests) /\ toHost \in Seq(Replies)
  /\ Len(toDev) <= Queue /\ Len(toHost) <= Queue
  /\ \A i \in 1..Len(toDev) : LET a == toDev[i].id IN
       toDev[i] = Request(a[1], a[2]) /\ a[2] < DoneStep(a[1])
  /\ \A i, j \in 1..Len(toDev)  : i < j => Near(toDev[i].id, toDev[j].id)
  /\ \A i, j \in 1..Len(toHost) : i < j => Near(toHost[i].id, toHost[j].id)
  /\ \A i \in 1..Len(toHost), j \in 1..Len(toDev) : Near(toHost[i].id, toDev[j].id)

HostInv ==
  /\ upload \in Uploads /\ step \in 0..DoneStep(upload)
  /\ Busy => /\ \A i \in 1..Len(toDev)  : Near(toDev[i].id, Place)
             /\ \A i \in 1..Len(toHost) : Near(toHost[i].id, Place)

WayInv == QueuesInv /\ HostInv

-----------------------------------------------------------------------------
(* What the device holds                                                   *)

\* The first n cells of upload v, and all that a run would take.
Holds(v, n) ==
  /\ n <= len /\ len <= Sizes[v]
  /\ \A i \in 1..len : mem[i - 1] = <<v, i>>

\* The cells of upload v that come before step s.
Written(v, s) == IF s - 1 <= Sizes[v] THEN s - 1 ELSE Sizes[v]

\* The device can take step s of upload v: it holds the cells before it, or, after a
\* reset, has no beginning.
Ready(v, s) ==
  /\ Sizes[v] <= Cap
  /\ Holds(v, Written(v, s)) \/ (s > 1 /\ mem[0] = Blank)

\* The request that a place stands for can be taken; that of BEGIN always can.
ReadyAt(a) == a[2] > 0 => Ready(a[1], a[2])

MemType == mem \in [Offsets -> Cells] /\ len \in 0..Cap /\ total \in 0..Cap

DeviceInv ==
  /\ MemType
  /\ \A i \in 1..Len(toDev) : ReadyAt(toDev[i].id)
  /\ Busy => ReadyAt(Place)
  /\ \A i \in 1..Len(toHost) :
       Busy /\ toHost[i].id = Place /\ toHost[i].status = "OK" => Ready(upload, step + 1)

RanInv ==
  /\ losses \in 0..MaxLosses /\ resets \in 0..MaxResets /\ told \subseteq Uploads
  /\ \A p \in ran : \E v \in Uploads : p = Program(v)
  /\ \A v \in told : Program(v) \in ran
  /\ \A i \in 1..Len(toHost) : LET a == toHost[i].id IN
       a[2] = RunStep(a[1]) /\ toHost[i].status = "OK" => Program(a[1]) \in ran

UploadInv == WayInv /\ DeviceInv /\ RanInv

-----------------------------------------------------------------------------
(* Places and requests                                                     *)

\* Every upload has a length.
LEMMA SizeFacts ==
  /\ Len(Sizes) \in Nat \ {0} /\ 1 \in Uploads /\ Cap \in Nat \ {0} /\ Queue \in Nat \ {0}
  /\ MaxLosses \in Nat /\ MaxResets \in Nat
  /\ \A v \in Uploads : /\ Sizes[v] \in Nat \ {0} /\ v \in Nat
                        /\ v < Len(Sizes) => v + 1 \in Uploads
<1>1. Sizes \in Seq(Nat \ {0}) /\ Len(Sizes) \in Nat /\ Sizes # <<>>
  BY UploadAssumption, LenProperties
<1>2. Len(Sizes) > 0
  BY <1>1, EmptySeq
<1>3. \A v \in 1..Len(Sizes) : Sizes[v] \in Nat \ {0}
  BY <1>1, ElementOfSeq
<1> QED
  BY <1>1, <1>2, <1>3, UploadAssumption DEF Uploads

\* A request says which place of the program it is.
LEMMA RequestIs ==
  ASSUME NEW v \in Uploads, NEW s \in 0..RunStep(v)
  PROVE  /\ Request(v, s) \in Requests /\ Request(v, s).id = <<v, s>>
         /\ Request(v, s).op = "BEGIN" => s = 0
         /\ Request(v, s).op = "DATA"  => s \in 1..Sizes[v]
         /\ Request(v, s).op = "END"   => s = EndStep(v)
         /\ Request(v, s).op = "RUN"   => s = RunStep(v)
<1> USE SizeFacts DEF EndStep, RunStep
<1>1. s \in Nat /\ <<v, s>> \in Places
  BY DEF Places
<1>2. CASE s = 0
  BY <1>1, <1>2 DEF Request, Requests
<1>3. CASE s = EndStep(v)
  BY <1>1, <1>3 DEF Request, Requests
<1>4. CASE s = RunStep(v)
  BY <1>1, <1>4 DEF Request, Requests
<1>5. CASE s # 0 /\ s # EndStep(v) /\ s # RunStep(v)
  <2>1. s \in 1..Sizes[v]
    BY <1>5
  <2> QED
    BY <1>1, <1>5, <2>1 DEF Request, Requests
<1> QED
  BY <1>2, <1>3, <1>4, <1>5

\* Two places that are near in both orders are one.
LEMMA NearBoth ==
  ASSUME NEW a \in Places, NEW b \in Places, Near(a, b), Near(b, a)
  PROVE  a = b
<1>1. a = <<a[1], a[2]>> /\ b = <<b[1], b[2]>>
  BY DEF Places
<1>2. a[1] \in Nat /\ b[1] \in Nat /\ a[2] \in Nat /\ b[2] \in Nat
  BY SizeFacts DEF Places, Uploads
<1>3. CASE a # b
  BY <1>2, <1>3 DEF Near
<1> QED
  BY <1>3

\* What is near a place is near the place after it only if it is that place.
LEMMA NearAfter ==
  ASSUME NEW a \in Places
  PROVE  Near(a, a) /\ Near(a, <<a[1], a[2] + 1>>)
  BY SizeFacts DEF Near, Places

\* A later upload may begin after any place.
LEMMA NearLater ==
  ASSUME NEW a \in Places, NEW b \in Places, Near(a, b)
  PROVE  Near(a, <<b[1] + 1, 0>>)
  BY SizeFacts DEF Near, Places

\* What is on the way, by its parts.
LEMMA OnTheWay ==
  ASSUME WayInv
  PROVE  /\ Place \in Places /\ upload \in Uploads /\ step \in Nat
         /\ Len(toDev) \in Nat /\ Len(toHost) \in Nat
         /\ \A i \in 1..Len(toDev) : toDev[i] \in Requests /\ toDev[i].id \in Places
         /\ \A i \in 1..Len(toHost) : toHost[i] \in Replies /\ toHost[i].id \in Places
<1>1. /\ toDev \in Seq(Requests) /\ toHost \in Seq(Replies)
      /\ upload \in Uploads /\ step \in 0..DoneStep(upload)
  BY DEF WayInv, QueuesInv, HostInv
<1>2. /\ Len(toDev) \in Nat /\ \A i \in 1..Len(toDev) : toDev[i] \in Requests
      /\ Len(toHost) \in Nat /\ \A i \in 1..Len(toHost) : toHost[i] \in Replies
  BY <1>1, LenProperties, ElementOfSeq
<1>3. step \in Nat
  BY <1>1, SizeFacts DEF DoneStep
<1>4. Place \in Places
  BY <1>1, <1>3 DEF Place, Places
<1> QED
  BY <1>1, <1>2, <1>3, <1>4 DEF Requests, Replies

\* A queue without its first element.
LEMMA TailIs ==
  ASSUME NEW S, NEW q \in Seq(S), q # <<>>
  PROVE  /\ Tail(q) \in Seq(S) /\ Len(Tail(q)) = Len(q) - 1 /\ Len(q) \in Nat \ {0}
         /\ \A i \in 1..Len(q)-1 : Tail(q)[i] = q[i + 1]
         /\ Head(q) = q[1] /\ Head(q) \in S
<1>1. Len(q) \in Nat /\ Len(q) # 0
  BY LenProperties, EmptySeq
<1>2. Head(q) \in S /\ Tail(q) \in Seq(S) /\ Len(Tail(q)) = Len(q) - 1
  BY <1>1, HeadTailProperties
<1> QED
  BY <1>1, <1>2, HeadTailProperties

-----------------------------------------------------------------------------
(* Requests and replies keep their order                                   *)

\* Less on the way.
LEMMA QueuesLess ==
  ASSUME WayInv, NEW d \in Seq(Requests), NEW h \in Seq(Replies),
         NEW m \in Nat, NEW n \in Nat, Len(d) + m = Len(toDev), Len(h) + n = Len(toHost),
         \A i \in 1..Len(d) : d[i] = toDev[i + m],
         \A i \in 1..Len(h) : h[i] = toHost[i + n],
         toDev' = d, toHost' = h
  PROVE  /\ QueuesInv'
         /\ \A i \in 1..Len(d) : \E k \in 1..Len(toDev) : d[i] = toDev[k]
         /\ \A i \in 1..Len(h) : \E k \in 1..Len(toHost) : h[i] = toHost[k]
<1>1. /\ Len(toDev) \in Nat /\ Len(toHost) \in Nat /\ Len(d) \in Nat /\ Len(h) \in Nat
      /\ Len(toDev) <= Queue /\ Len(toHost) <= Queue
  BY OnTheWay, LenProperties DEF WayInv, QueuesInv
<1>2. /\ \A i \in 1..Len(d) : i + m \in 1..Len(toDev)
      /\ \A i \in 1..Len(h) : i + n \in 1..Len(toHost)
      /\ \A i, j \in 1..Len(d) : i < j => i + m < j + m
      /\ \A i, j \in 1..Len(h) : i < j => i + n < j + n
      /\ Len(d) <= Queue /\ Len(h) <= Queue
  <2>1. \A i \in 1..Len(d) : i + m \in 1..Len(toDev)
    BY <1>1
  <2>2. \A i \in 1..Len(h) : i + n \in 1..Len(toHost)
    BY <1>1
  <2>3. /\ \A i, j \in 1..Len(d) : i < j => i + m < j + m
        /\ \A i, j \in 1..Len(h) : i < j => i + n < j + n
    BY <1>1
  <2>4. Len(d) <= Queue /\ Len(h) <= Queue
    BY <1>1, SizeFacts
  <2> QED
    BY <2>1, <2>2, <2>3, <2>4
<1>3. \A i \in 1..Len(d) : LET a == d[i].id IN d[i] = Request(a[1], a[2]) /\ a[2] < DoneStep(a[1])
  BY <1>2 DEF WayInv, QueuesInv
<1>4. /\ \A i, j \in 1..Len(d) : i < j => Near(d[i].id, d[j].id)
      /\ \A i, j \in 1..Len(h) : i < j => Near(h[i].id, h[j].id)
      /\ \A i \in 1..Len(h), j \in 1..Len(d) : Near(h[i].id, d[j].id)
  BY <1>2 DEF WayInv, QueuesInv
<1>5. QueuesInv'
  BY <1>2, <1>3, <1>4 DEF QueuesInv
<1> QED
  BY <1>2, <1>5

\* Where the host stays, what is on the way stays near it.
LEMMA HostSame ==
  ASSUME WayInv, UNCHANGED <<upload, step>>, QueuesInv',
         \A i \in 1..Len(toDev)' : toDev'[i].id = Place \/
           \E k \in 1..Len(toDev) : toDev'[i].id = toDev[k].id,
         \A i \in 1..Len(toHost)' :
           \/ \E k \in 1..Len(toHost) : toHost'[i].id = toHost[k].id
           \/ \E k \in 1..Len(toDev) : toHost'[i].id = toDev[k].id
  PROVE  WayInv'
<1>1. (Busy' <=> Busy) /\ Place' = Place /\ DoneStep(upload)' = DoneStep(upload)
  BY DEF Busy, Place, DoneStep
<1>2. Near(Place, Place)
  BY OnTheWay, NearAfter
<1>3. Busy => /\ \A i \in 1..Len(toDev)' : Near(toDev'[i].id, Place)
              /\ \A i \in 1..Len(toHost)' : Near(toHost'[i].id, Place)
  BY <1>2 DEF WayInv, HostInv
<1>4. upload' \in Uploads /\ step' \in 0..DoneStep(upload)'
  BY <1>1 DEF WayInv, HostInv
<1> QED
  BY <1>1, <1>3, <1>4 DEF WayInv, HostInv

\* The host asks again.
LEMMA WaySend ==
  ASSUME WayInv, Send
  PROVE  WayInv'
<1>1. /\ toDev' = Append(toDev, Request(upload, step)) /\ Len(toDev) < Queue /\ Busy
      /\ UNCHANGED <<toHost, upload, step>> /\ toDev \in Seq(Requests)
  BY DEF Send, hostVars, WayInv, QueuesInv
<1>2. /\ Request(upload, step) \in Requests /\ Request(upload, step).id = Place
      /\ Place[1] = upload /\ Place[2] = step /\ step < DoneStep(upload)
  <2>1. step \in 0..RunStep(upload)
    BY <1>1, OnTheWay, SizeFacts DEF Busy, DoneStep, RunStep
  <2> QED
    BY <1>1, <2>1, OnTheWay, RequestIs DEF Busy, Place
<1> DEFINE r == Request(upload, step)
<1> HIDE DEF r
<1>3. /\ toDev' \in Seq(Requests) /\ Len(toDev') = Len(toDev) + 1
      /\ \A i \in 1..Len(toDev) : toDev'[i] = toDev[i] /\ toDev'[Len(toDev) + 1] = r
  BY <1>1, <1>2, AppendProperties DEF r
<1>4. /\ Len(toDev) \in Nat
      /\ \A i \in 1..Len(toDev') : i \in 1..Len(toDev) \/ i = Len(toDev) + 1
      /\ Len(toDev') <= Queue
  BY <1>1, <1>3, OnTheWay, SizeFacts
<1>5. toDev'[Len(toDev) + 1] = r /\ r.id = Place /\ r = Request(upload, step)
  BY <1>1, <1>2, <1>3, <1>4, AppendProperties DEF r
<1>6. /\ \A i \in 1..Len(toDev) : Near(toDev[i].id, Place)
      /\ \A i \in 1..Len(toHost) : Near(toHost[i].id, Place)
  BY <1>1 DEF WayInv, HostInv
<1>7. QueuesInv'
  <2>1. \A i \in 1..Len(toDev') : LET a == toDev'[i].id IN
          toDev'[i] = Request(a[1], a[2]) /\ a[2] < DoneStep(a[1])
    BY <1>2, <1>3, <1>4, <1>5 DEF WayInv, QueuesInv
  <2>2. \A i, j \in 1..Len(toDev') : i < j => Near(toDev'[i].id, toDev'[j].id)
    BY <1>3, <1>4, <1>5, <1>6 DEF WayInv, QueuesInv
  <2>3. \A i \in 1..Len(toHost), j \in 1..Len(toDev') : Near(toHost[i].id, toDev'[j].id)
    BY <1>3, <1>4, <1>5, <1>6 DEF WayInv, QueuesInv
  <2> QED
    BY <1>1, <1>3, <1>4, <2>1, <2>2, <2>3 DEF WayInv, QueuesInv
<1> QED
  BY <1>1, <1>3, <1>4, <1>5, <1>7, HostSame

\* The device answers: the place of the request is now that of a reply.
LEMMA WayHandle ==
  ASSUME WayInv, toDev # <<>>, Len(toHost) < Queue, NEW r \in Replies,
         r.id = Head(toDev).id, toDev' = Tail(toDev), toHost' = Append(toHost, r),
         UNCHANGED <<upload, step>>
  PROVE  WayInv'
<1>1. /\ toDev \in Seq(Requests) /\ toHost \in Seq(Replies)
      /\ Len(toDev) \in Nat \ {0} /\ Len(toHost) \in Nat
  BY OnTheWay, TailIs DEF WayInv, QueuesInv
<1>2. /\ toDev' \in Seq(Requests) /\ Len(toDev') = Len(toDev) - 1
      /\ \A i \in 1..Len(toDev') : toDev'[i] = toDev[i + 1]
      /\ Head(toDev) = toDev[1]
  BY <1>1, TailIs
<1>3. /\ toHost' \in Seq(Replies) /\ Len(toHost') = Len(toHost) + 1
      /\ \A i \in 1..Len(toHost) : toHost'[i] = toHost[i]
      /\ toHost'[Len(toHost) + 1] = r
  BY <1>1, AppendProperties
<1>4. /\ \A i \in 1..Len(toHost') : i \in 1..Len(toHost) \/ i = Len(toHost) + 1
      /\ \A i \in 1..Len(toDev') : i + 1 \in 1..Len(toDev) /\ 1 < i + 1
      /\ \A i, j \in 1..Len(toDev') : i < j => i + 1 < j + 1
      /\ 1 \in 1..Len(toDev) /\ Len(toHost') <= Queue /\ Len(toDev') <= Queue
  BY <1>1, <1>2, <1>3, SizeFacts DEF WayInv, QueuesInv
<1>5. \A i \in 1..Len(toDev') : LET a == toDev'[i].id IN
        toDev'[i] = Request(a[1], a[2]) /\ a[2] < DoneStep(a[1])
  BY <1>2, <1>4 DEF WayInv, QueuesInv
<1>6. \A i, j \in 1..Len(toDev') : i < j => Near(toDev'[i].id, toDev'[j].id)
  BY <1>2, <1>4 DEF WayInv, QueuesInv
<1>7. \A i, j \in 1..Len(toHost') : i < j => Near(toHost'[i].id, toHost'[j].id)
  <2> TAKE i, j \in 1..Len(toHost')
  <2> HAVE i < j
  <2>1. i \in 1..Len(toHost)
    BY <1>1, <1>3
  <2>2. CASE j \in 1..Len(toHost)
    BY <1>3, <2>1, <2>2 DEF WayInv, QueuesInv
  <2>3. CASE j = Len(toHost) + 1
    BY <1>2, <1>3, <1>4, <2>1, <2>3 DEF WayInv, QueuesInv
  <2> QED
    BY <1>4, <2>2, <2>3
<1>8. \A i \in 1..Len(toHost'), j \in 1..Len(toDev') : Near(toHost'[i].id, toDev'[j].id)
  <2> TAKE i \in 1..Len(toHost'), j \in 1..Len(toDev')
  <2>1. CASE i \in 1..Len(toHost)
    BY <1>2, <1>3, <1>4, <2>1 DEF WayInv, QueuesInv
  <2>2. CASE i = Len(toHost) + 1
    BY <1>2, <1>3, <1>4, <2>2 DEF WayInv, QueuesInv
  <2> QED
    BY <1>4, <2>1, <2>2
<1>9. QueuesInv'
  BY <1>2, <1>3, <1>4, <1>5, <1>6, <1>7, <1>8 DEF QueuesInv
<1> QED
  BY <1>2, <1>3, <1>4, <1>9, HostSame

\* When the reply to the host's request is first on the way, all that follows it is
\* of the same place.
LEMMA AllHere ==
  ASSUME WayInv, Busy, toHost # <<>>, Head(toHost).id = Place
  PROVE  /\ \A k \in 1..Len(toHost) : toHost[k].id = Place
         /\ \A k \in 1..Len(toDev) : toDev[k].id = Place
<1>1. toHost \in Seq(Replies) /\ Head(toHost) = toHost[1] /\ Len(toHost) \in Nat \ {0}
  BY TailIs DEF WayInv, QueuesInv
<1>2. 1 \in 1..Len(toHost) /\ \A k \in 1..Len(toHost) : k = 1 \/ 1 < k
  BY <1>1
<1>3. ASSUME NEW k \in 1..Len(toHost) PROVE toHost[k].id = Place
  <2>1. CASE k = 1
    BY <1>1, <2>1
  <2>2. CASE 1 < k
    <3>1. Near(Place, toHost[k].id) /\ Near(toHost[k].id, Place)
      BY <1>1, <1>2, <2>2 DEF WayInv, QueuesInv, HostInv
    <3> QED
      BY <3>1, OnTheWay, NearBoth
  <2> QED
    BY <1>2, <2>1, <2>2
<1>4. ASSUME NEW k \in 1..Len(toDev) PROVE toDev[k].id = Place
  <2>1. Near(Place, toDev[k].id) /\ Near(toDev[k].id, Place)
    BY <1>1, <1>2 DEF WayInv, QueuesInv, HostInv
  <2> QED
    BY <2>1, OnTheWay, NearBoth
<1> QED
  BY <1>3, <1>4

\* Frames leave the queues at their heads.
LEMMA QueuesDrop ==
  ASSUME WayInv,
         \/ toDev' = toDev
         \/ toDev # <<>> /\ toDev' = Tail(toDev)
         \/ toDev' = <<>>,
         \/ toHost' = toHost
         \/ toHost # <<>> /\ toHost' = Tail(toHost)
  PROVE  /\ QueuesInv'
         /\ \A i \in 1..Len(toDev') : \E k \in 1..Len(toDev) : toDev'[i] = toDev[k]
         /\ \A i \in 1..Len(toHost') : \E k \in 1..Len(toHost) : toHost'[i] = toHost[k]
<1>1. /\ toDev \in Seq(Requests) /\ toHost \in Seq(Replies)
      /\ Len(toDev) \in Nat /\ Len(toHost) \in Nat
  BY OnTheWay DEF WayInv, QueuesInv
<1>2. PICK m \in Nat : /\ toDev' \in Seq(Requests) /\ Len(toDev') + m = Len(toDev)
                       /\ \A i \in 1..Len(toDev') : toDev'[i] = toDev[i + m]
  <2>1. CASE toDev' = toDev
    <3>1. Len(toDev) + 0 = Len(toDev) /\ \A i \in 1..Len(toDev) : toDev[i] = toDev[i + 0]
      BY <1>1
    <3> QED
      BY <1>1, <2>1, <3>1
  <2>2. CASE toDev # <<>> /\ toDev' = Tail(toDev)
    BY <1>1, <2>2, TailIs
  <2>3. CASE toDev' = <<>>
    BY <1>1, <2>3, EmptySeq
  <2> QED
    BY <2>1, <2>2, <2>3
<1>3. PICK n \in Nat : /\ toHost' \in Seq(Replies) /\ Len(toHost') + n = Len(toHost)
                       /\ \A i \in 1..Len(toHost') : toHost'[i] = toHost[i + n]
  <2>1. CASE toHost' = toHost
    <3>1. Len(toHost) + 0 = Len(toHost) /\ \A i \in 1..Len(toHost) : toHost[i] = toHost[i + 0]
      BY <1>1
    <3> QED
      BY <1>1, <2>1, <3>1
  <2>2. CASE toHost # <<>> /\ toHost' = Tail(toHost)
    BY <1>1, <2>2, TailIs
  <2> QED
    BY <2>1, <2>2
<1> QED
  BY <1>2, <1>3, QueuesLess

\* Frames are lost: a late reply is dropped, the link loses one, a reset all.
LEMMA WayDrops ==
  ASSUME WayInv, UNCHANGED <<upload, step>>,
         \/ toDev' = toDev
         \/ toDev # <<>> /\ toDev' = Tail(toDev)
         \/ toDev' = <<>>,
         \/ toHost' = toHost
         \/ toHost # <<>> /\ toHost' = Tail(toHost)
  PROVE  WayInv'
<1>1. /\ QueuesInv'
      /\ \A i \in 1..Len(toDev') : \E k \in 1..Len(toDev) : toDev'[i] = toDev[k]
      /\ \A i \in 1..Len(toHost') : \E k \in 1..Len(toHost) : toHost'[i] = toHost[k]
  BY QueuesDrop
<1> QED
  BY <1>1, HostSame

\* The host goes on to the next step.
LEMMA WayNextStep ==
  ASSUME WayInv, Busy, toHost # <<>>, Head(toHost).id = Place, step # RunStep(upload),
         step' = step + 1, toHost' = Tail(toHost), UNCHANGED <<upload, toDev>>
  PROVE  WayInv'
<1>1. /\ QueuesInv'
      /\ \A i \in 1..Len(toDev') : \E k \in 1..Len(toDev) : toDev'[i] = toDev[k]
      /\ \A i \in 1..Len(toHost') : \E k \in 1..Len(toHost) : toHost'[i] = toHost[k]
  BY QueuesDrop
<1>2. /\ \A k \in 1..Len(toHost) : toHost[k].id = Place
      /\ \A k \in 1..Len(toDev) : toDev[k].id = Place
  BY AllHere
<1>3. Place' = <<Place[1], Place[2] + 1>> /\ Near(Place, Place')
  BY OnTheWay, NearAfter DEF Place
<1>4. /\ \A i \in 1..Len(toDev') : Near(toDev'[i].id, Place')
      /\ \A i \in 1..Len(toHost') : Near(toHost'[i].id, Place')
  <2>1. /\ \A i \in 1..Len(toDev') : toDev'[i].id = Place
        /\ \A i \in 1..Len(toHost') : toHost'[i].id = Place
    BY <1>1, <1>2, Zenon
  <2> QED
    BY <1>3, <2>1, Zenon
<1>5. upload' \in Uploads /\ step' \in 0..DoneStep(upload')
  <2>1. upload \in Uploads /\ step \in Nat
    BY OnTheWay
  <2>2. Sizes[upload] \in Nat /\ step < Sizes[upload] + 3
    BY <2>1, SizeFacts DEF Busy, DoneStep
  <2>3. step + 1 \in 0..(Sizes[upload] + 3)
    BY <2>1, <2>2
  <2> QED
    BY <2>1, <2>3 DEF DoneStep
<1> QED
  BY <1>1, <1>4, <1>5 DEF WayInv, HostInv

\* The host goes on to the next upload, or is done.
LEMMA WayNextUpload ==
  ASSUME WayInv, Busy, NextUpload, UNCHANGED toDev,
         \/ toHost' = toHost
         \/ toHost # <<>> /\ toHost' = Tail(toHost)
  PROVE  WayInv'
<1>1. /\ QueuesInv'
      /\ \A i \in 1..Len(toDev') : \E k \in 1..Len(toDev) : toDev'[i] = toDev[k]
      /\ \A i \in 1..Len(toHost') : \E k \in 1..Len(toHost) : toHost'[i] = toHost[k]
  BY QueuesDrop
<1>2. CASE upload' = upload + 1 /\ step' = 0 /\ upload < Len(Sizes)
  <2>1. Place' = <<Place[1] + 1, 0>> /\ toDev' = toDev
    BY <1>2 DEF Place
  <2>2. /\ \A k \in 1..Len(toDev) : Near(toDev[k].id, Place')
        /\ \A k \in 1..Len(toHost) : Near(toHost[k].id, Place')
    BY <2>1, OnTheWay, NearLater DEF WayInv, HostInv
  <2>3. upload' \in Uploads /\ step' \in 0..DoneStep(upload')
    <3>1. upload + 1 \in Uploads
      BY <1>2, OnTheWay, SizeFacts
    <3> QED
      BY <1>2, <3>1, SizeFacts DEF DoneStep
  <2> QED
    BY <1>1, <2>1, <2>2, <2>3 DEF WayInv, HostInv
<1>3. CASE step' = DoneStep(upload) /\ upload' = upload
  <2>1. ~Busy' /\ upload' \in Uploads /\ step' \in 0..DoneStep(upload')
    BY <1>3, OnTheWay, SizeFacts DEF Busy, DoneStep
  <2> QED
    BY <1>1, <2>1 DEF WayInv, HostInv
<1> QED
  BY <1>2, <1>3 DEF NextUpload

\* No step breaks the order of what is on the way.
LEMMA WayKeeps == WayInv /\ [UploadNext]_uploadVars => WayInv'
<1> SUFFICES ASSUME WayInv, [UploadNext]_uploadVars PROVE WayInv'
  OBVIOUS
<1>1. CASE Handle
  <2>1. PICK r \in Answers :
          /\ toDev # <<>> /\ Len(toHost) < Queue /\ toDev' = Tail(toDev)
          /\ toHost' = Append(toHost, [id |-> Head(toDev).id, status |-> r])
          /\ UNCHANGED <<upload, step>>
    BY <1>1 DEF Handle, Answer, hostVars
  <2>2. [id |-> Head(toDev).id, status |-> r] \in Replies
    <3>1. Head(toDev) \in Requests
      BY <2>1, TailIs DEF WayInv, QueuesInv
    <3> QED
      BY <3>1 DEF Requests, Replies
  <2> QED
    BY <2>1, <2>2, WayHandle
<1>2. CASE Reset
  BY <1>2, WayDrops DEF Reset, hostVars
<1>3. CASE Send
  BY <1>3, WaySend
<1>4. CASE Receive
  <2>1. /\ toHost # <<>> /\ toHost' = Tail(toHost) /\ toDev' = toDev
    BY <1>4 DEF Receive
  <2>2. CASE UNCHANGED hostVars
    BY <2>1, <2>2, WayDrops DEF hostVars
  <2>3. CASE Busy /\ NextUpload
    BY <2>1, <2>3, WayNextUpload
  <2>4. CASE /\ Busy /\ Head(toHost).id = Place /\ step # RunStep(upload)
             /\ step' = step + 1 /\ UNCHANGED upload
    BY <2>1, <2>4, WayNextStep
  <2> QED
    BY <1>4, <2>2, <2>3, <2>4 DEF Receive, Place
<1>5. CASE GiveUp
  BY <1>5, WayNextUpload DEF GiveUp, linkVars
<1>6. CASE Lose
  BY <1>6, WayDrops DEF Lose, hostVars
<1>7. CASE UNCHANGED uploadVars
  BY <1>7, WayDrops DEF uploadVars, hostVars, linkVars
<1> QED
  BY <1>1, <1>2, <1>3, <1>4, <1>5, <1>6, <1>7 DEF UploadNext

-----------------------------------------------------------------------------
(* The device can take what comes next                                     *)

\* What Handle does with the request q, and answers.
Takes(q, r) ==
  \/ q.op = "BEGIN" /\ WriteBegin(Sizes[q.id[1]], r)
  \/ q.op = "DATA"  /\ WriteData(q.id[2] - 1, q.id, r)
  \/ q.op = "END"   /\ WriteEnd(r)
  \/ q.op = "RUN"   /\ MacroRun(r)

\* BEGIN empties the scratch program.
LEMMA BeginReady ==
  ASSUME MemType, NEW v \in Uploads, NEW r \in Answers, WriteBegin(Sizes[v], r)
  PROVE  /\ MemType' /\ UNCHANGED ran
         /\ Sizes[v] <= Cap => r = "OK"
         /\ r = "OK" => Ready(v, 1)'
<1> USE SizeFacts DEF WriteBegin, MemType
<1>1. CASE Sizes[v] > Cap
  BY <1>1
<1>2. CASE ~(Sizes[v] > Cap)
  <2>1. len' = 0 /\ total' = Sizes[v] /\ mem' = mem /\ r = "OK" /\ ran' = ran
    BY <1>2
  <2>2. Holds(v, Written(v, 1))'
    BY <2>1 DEF Holds, Written
  <2> QED
    BY <1>2, <2>1, <2>2 DEF Ready
<1> QED
  BY <1>1, <1>2

\* Every chunk is stored after those before it.
LEMMA DataReady ==
  ASSUME MemType, NEW v \in Uploads, NEW s \in 1..Sizes[v], NEW r \in Answers,
         Ready(v, s), WriteData(s - 1, <<v, s>>, r)
  PROVE  MemType' /\ UNCHANGED ran /\ Ready(v, s)' /\ Ready(v, s + 1)'
<1> USE SizeFacts
<1>1. s \in Nat \ {0} /\ s <= Cap /\ Sizes[v] <= Cap /\ s - 1 \in Offsets
  BY DEF Ready, Offsets
<1>2. /\ mem' = [mem EXCEPT ![s - 1] = <<v, s>>]
      /\ len' = IF s > len THEN s ELSE len
      /\ total' = total /\ ran' = ran
  BY <1>1 DEF WriteData
<1>3. <<v, s>> \in Cells
  BY <1>1 DEF Cells
<1>4. MemType'
  BY <1>1, <1>2, <1>3 DEF MemType
<1>5. len \in Nat /\ len' \in Nat /\ Written(v, s) = s - 1 /\ Written(v, s + 1) = s
  BY <1>1, <1>4 DEF MemType, Written
<1>6. CASE Holds(v, s - 1)
  <2>1. len >= s - 1 /\ len <= Sizes[v] /\ \A i \in 1..len : mem[i - 1] = <<v, i>>
    BY <1>6 DEF Holds
  <2>2. s - 1 <= len' /\ s <= len' /\ len' <= Sizes[v]
    BY <1>1, <1>2, <1>5, <2>1
  <2>3. ASSUME NEW i \in 1..len' PROVE mem'[i - 1] = <<v, i>>
    <3>1. i \in Nat \ {0} /\ i <= Cap /\ i - 1 \in Offsets
      BY <1>4, <1>5 DEF MemType, Offsets
    <3>2. CASE i = s
      BY <1>1, <1>2, <3>2 DEF MemType
    <3>3. CASE i # s
      <4>1. i \in 1..len /\ i - 1 # s - 1
        BY <1>1, <1>2, <1>5, <2>1, <3>1, <3>3
      <4> QED
        BY <1>2, <2>1, <3>1, <4>1 DEF MemType
    <3> QED
      BY <3>2, <3>3
  <2>4. Holds(v, s - 1)' /\ Holds(v, s)'
    <3>1. \A i \in 1..len' : mem'[i - 1] = <<v, i>>
      BY <2>3
    <3> QED
      BY <2>2, <3>1, Zenon DEF Holds
  <2> QED
    BY <1>1, <1>2, <1>4, <1>5, <2>4 DEF Ready, Written
<1>7. CASE s > 1 /\ mem[0] = Blank
  <2>1. 0 \in Offsets /\ s - 1 # 0 /\ s + 1 > 1
    BY <1>1, <1>7 DEF Offsets
  <2>2. mem'[0] = Blank
    BY <1>2, <1>7, <2>1 DEF MemType
  <2> QED
    BY <1>1, <1>2, <1>4, <1>7, <2>1, <2>2 DEF Ready
<1> QED
  BY <1>5, <1>6, <1>7 DEF Ready

\* END and RUN come when the program is there, and leave it.
LEMMA EndReady ==
  ASSUME MemType, NEW v \in Uploads, NEW s \in {EndStep(v), RunStep(v)}, Ready(v, s),
         UNCHANGED <<mem, len, total>>
  PROVE  MemType' /\ Ready(v, s)' /\ Ready(v, s + 1)'
<1>1. s - 1 >= Sizes[v] /\ s > 1 /\ Sizes[v] \in Nat \ {0} /\ s \in Nat
  BY SizeFacts DEF EndStep, RunStep
<1>2. Written(v, s) = Sizes[v] /\ Written(v, s + 1) = Sizes[v] /\ s + 1 > 1
  BY <1>1 DEF Written
<1> QED
  BY <1>1, <1>2 DEF MemType, Ready, Holds, Written

\* A run takes the whole program, or nothing.
LEMMA RunWhole ==
  ASSUME MemType, NEW v \in Uploads, Ready(v, RunStep(v)), Runnable
  PROVE  Scratch = Program(v)
<1>1. Written(v, RunStep(v)) = Sizes[v] /\ Sizes[v] \in Nat \ {0}
  BY SizeFacts DEF Written, RunStep
<1>2. Holds(v, Sizes[v])
  BY <1>1 DEF Ready, Runnable
<1>3. len = Sizes[v] /\ \A i \in 1..Sizes[v] : mem[i - 1] = <<v, i>>
  BY <1>1, <1>2 DEF Holds, MemType
<1> QED
  BY <1>3 DEF Scratch, Program

\* What a request leaves behind: every place it is near to can be taken afterwards
\* if it could before, and when it is answered OK, so can the one after it.
LEMMA TakesReady ==
  ASSUME MemType, NEW a \in Places, a[2] <= RunStep(a[1]), ReadyAt(a),
         NEW r \in Answers, Takes(Request(a[1], a[2]), r)
  PROVE  /\ MemType'
         /\ r = "OK" => Ready(a[1], a[2] + 1)'
         /\ \A b \in Places : Near(a, b) /\ ReadyAt(b) => ReadyAt(b)'
         /\ ran' = ran \/ (a[2] = RunStep(a[1]) /\ ran' = ran \union {Program(a[1])})
         /\ r = "OK" /\ a[2] = RunStep(a[1]) => Program(a[1]) \in ran'
<1> DEFINE v == a[1]
           s == a[2]
           q == Request(v, s)
<1>1. v \in Uploads /\ s \in Nat /\ a = <<v, s>> /\ s \in 0..RunStep(v) /\ Sizes[v] \in Nat \ {0}
  BY SizeFacts DEF Places, RunStep
<1>2. /\ q.id = <<v, s>>
      /\ q.op = "BEGIN" => s = 0
      /\ q.op = "DATA"  => s \in 1..Sizes[v]
      /\ q.op = "END"   => s = EndStep(v)
      /\ q.op = "RUN"   => s = RunStep(v)
  BY <1>1, RequestIs
<1>3. Takes(q, r)
  OBVIOUS
<1>4. s > 0 => Ready(v, s)
  BY DEF ReadyAt
<1> HIDE DEF q
<1>5. s = EndStep(v) \/ s = RunStep(v) => s > 0 /\ s # 0
  BY <1>1 DEF EndStep, RunStep
<1>6. /\ MemType'
      /\ r = "OK" \/ s > 0 => Ready(v, s + 1)'
      /\ s > 0 => Ready(v, s)'
      /\ s = 0 /\ Sizes[v] <= Cap => r = "OK"
  <2>1. CASE q.op = "BEGIN" /\ WriteBegin(Sizes[v], r)
    <3>1. s = 0 /\ s + 1 = 1 /\ ~(s > 0)
      BY <1>2, <2>1
    <3> QED
      BY <1>1, <2>1, <3>1, BeginReady
  <2>2. CASE q.op = "DATA" /\ WriteData(s - 1, <<v, s>>, r)
    <3>1. s \in 1..Sizes[v] /\ s > 0 /\ s # 0
      BY <1>1, <1>2, <2>2
    <3> QED
      BY <1>1, <1>4, <2>2, <3>1, DataReady
  <2>3. CASE UNCHANGED <<mem, len, total>> /\ (s = EndStep(v) \/ s = RunStep(v))
    BY <1>1, <1>4, <1>5, <2>3, EndReady
  <2> QED
    BY <1>2, <1>3, <2>1, <2>2, <2>3 DEF Takes, WriteEnd, MacroRun, devVars
<1>7. ASSUME NEW b \in Places, Near(a, b), ReadyAt(b) PROVE ReadyAt(b)'
  <2> SUFFICES ASSUME b[2] > 0 PROVE Ready(b[1], b[2])'
    BY <1>7 DEF ReadyAt
  <2>1. Ready(b[1], b[2]) /\ b[2] \in Nat /\ b[2] # 0
    BY <1>7 DEF ReadyAt, Places
  <2>2. CASE a = b
    BY <1>6, <2>2
  <2>3. CASE b[1] = v /\ s = b[2] - 1
    <3>1. Sizes[v] <= Cap
      BY <2>1, <2>3 DEF Ready
    <3>2. b[2] = s + 1 /\ (s = 0 \/ s > 0)
      BY <1>1, <2>1, <2>3
    <3> QED
      BY <1>6, <2>3, <3>1, <3>2
  <2> QED
    BY <1>7, <2>1, <2>2, <2>3 DEF Near
<1>8. /\ ran' = ran \/ (s = RunStep(v) /\ ran' = ran \union {Program(v)})
      /\ r = "OK" /\ s = RunStep(v) => Program(v) \in ran'
  <2>1. CASE q.op = "RUN" /\ MacroRun(r)
    <3>1. s = RunStep(v) /\ Ready(v, RunStep(v))
      BY <1>2, <1>4, <1>5, <2>1
    <3>2. Runnable => Scratch = Program(v)
      BY <1>1, <3>1, RunWhole
    <3> QED
      BY <2>1, <3>1, <3>2 DEF MacroRun
  <2>2. CASE q.op = "END" /\ WriteEnd(r)
    <3>1. s # RunStep(v) /\ ran' = ran
      BY <1>1, <1>2, <2>2 DEF EndStep, RunStep, WriteEnd, devVars
    <3> QED
      BY <3>1
  <2>3. CASE q.op = "BEGIN" /\ WriteBegin(Sizes[v], r)
    BY <1>2, <1>5, <2>3 DEF WriteBegin
  <2>4. CASE q.op = "DATA" /\ WriteData(s - 1, <<v, s>>, r)
    <3>1. s # RunStep(v)
      BY <1>1, <1>2, <2>4 DEF RunStep
    <3> QED
      BY <2>4, <3>1 DEF WriteData
  <2> QED
    BY <1>2, <1>3, <2>1, <2>2, <2>3, <2>4 DEF Takes
<1> QED
  BY <1>6, <1>7, <1>8

\* What does not touch the scratch memory leaves it ready.
LEMMA ReadySame ==
  ASSUME UNCHANGED <<mem, len>>, NEW b
  PROVE  (ReadyAt(b)' <=> ReadyAt(b)) /\ \A v, n : Ready(v, n)' <=> Ready(v, n)
  BY DEF ReadyAt, Ready, Holds

\* After a reset there is no beginning in it.
LEMMA ReadyReset ==
  ASSUME mem' = [o \in Offsets |-> Blank], len' = 0, NEW v \in Uploads, NEW n \in Nat \ {0},
         Ready(v, n)
  PROVE  Ready(v, n)'
<1> USE SizeFacts
<1>1. Sizes[v] <= Cap /\ 0 \in Offsets
  BY DEF Ready, Offsets
<1>2. CASE n = 1
  <2>1. Written(v, 1) = 0
    BY DEF Written
  <2>2. Holds(v, 0)'
    BY DEF Holds
  <2> QED
    BY <1>1, <1>2, <2>1, <2>2 DEF Ready, Written
<1>3. CASE n > 1
  BY <1>1, <1>3 DEF Ready
<1> QED
  BY <1>2, <1>3

\* What is near the host's place is not of a later upload.
LEMMA NearNotLater ==
  ASSUME NEW a \in Places, NEW b \in Places, Near(a, b)
  PROVE  a[1] <= b[1] /\ a # <<b[1] + 1, 0>>
  BY SizeFacts DEF Near, Places, Uploads

\* A request is taken.
LEMMA DeviceHandle ==
  ASSUME WayInv, DeviceInv, NEW r \in Answers, toDev # <<>>,
         Takes(Head(toDev), r), toDev' = Tail(toDev),
         toHost' = Append(toHost, [id |-> Head(toDev).id, status |-> r]),
         UNCHANGED <<upload, step>>
  PROVE  DeviceInv'
<1>0. PICK a : a = toDev[1].id
  OBVIOUS
<1>1. /\ toDev \in Seq(Requests) /\ toHost \in Seq(Replies)
      /\ Len(toDev) \in Nat \ {0} /\ Len(toHost) \in Nat
      /\ Head(toDev) = toDev[1] /\ 1 \in 1..Len(toDev)
      /\ \A i \in 1..Len(toDev)-1 : Tail(toDev)[i] = toDev[i + 1]
      /\ Len(Tail(toDev)) = Len(toDev) - 1
  BY OnTheWay, TailIs DEF WayInv, QueuesInv
<1>2. /\ a \in Places /\ toDev[1] = Request(a[1], a[2]) /\ a[2] <= RunStep(a[1])
      /\ ReadyAt(a)
  <2>1. a \in Places /\ toDev[1] = Request(a[1], a[2]) /\ a[2] < DoneStep(a[1])
    BY <1>0, <1>1, OnTheWay DEF WayInv, QueuesInv
  <2>2. ReadyAt(a)
    BY <1>0, <1>1 DEF DeviceInv
  <2> QED
    BY <2>1, <2>2, SizeFacts DEF Places, DoneStep, RunStep
<1>3. /\ MemType'
      /\ r = "OK" => Ready(a[1], a[2] + 1)'
      /\ \A b \in Places : Near(a, b) /\ ReadyAt(b) => ReadyAt(b)'
  <2>1. Takes(Request(a[1], a[2]), r) /\ MemType
    BY <1>1, <1>2 DEF DeviceInv
  <2> QED
    BY <1>2, <2>1, TakesReady
<1>4. ASSUME NEW i \in 1..Len(toDev') PROVE ReadyAt(toDev[i].id)'
  <2>1. i + 1 \in 1..Len(toDev) /\ 1 < i + 1 /\ toDev'[i] = toDev[i + 1]
    BY <1>1, <1>4
  <2>2. PICK b \in Places : b = toDev[i + 1].id
    BY <2>1, OnTheWay
  <2>3. Near(a, b) /\ ReadyAt(b)
    BY <1>0, <1>1, <2>1, <2>2 DEF WayInv, QueuesInv, DeviceInv
  <2>4. ReadyAt(b)'
    BY <1>3, <2>3
  <2> QED
    BY <2>1, <2>2, <2>4 DEF ReadyAt, Ready, Holds
<1>5. Place' = Place /\ (Busy' <=> Busy)
  BY DEF Place, Busy, DoneStep
<1>6. Busy => ReadyAt(Place)'
  <2> SUFFICES ASSUME Busy PROVE ReadyAt(Place)'
    OBVIOUS
  <2>1. PICK b \in Places : b = Place
    BY OnTheWay
  <2>2. Near(a, b) /\ ReadyAt(b)
    BY <1>0, <1>1, <2>1 DEF WayInv, HostInv, DeviceInv
  <2>3. ReadyAt(b)'
    BY <1>3, <2>2
  <2> QED
    BY <1>5, <2>1, <2>3 DEF ReadyAt, Ready, Holds
<1>7. /\ \A i \in 1..Len(toHost) : toHost'[i] = toHost[i]
      /\ toHost'[Len(toHost) + 1] = [id |-> a, status |-> r]
      /\ Len(toHost') = Len(toHost) + 1
  <2>1. [id |-> Head(toDev).id, status |-> r] \in Replies
    BY <1>0, <1>1, <1>2 DEF Replies
  <2> QED
    BY <1>0, <1>1, <2>1, AppendProperties
<1>8. ASSUME NEW i \in 1..Len(toHost'), Busy, toHost'[i].id = Place, toHost'[i].status = "OK"
      PROVE  Ready(upload, step + 1)'
  <2>1. CASE i \in 1..Len(toHost)
    <3>1. Near(toHost[i].id, a) /\ toHost[i].id = Place /\ Near(a, Place)
          /\ Ready(upload, step + 1)
      BY <1>0, <1>1, <1>7, <1>8, <2>1 DEF WayInv, QueuesInv, HostInv, DeviceInv
    <3>2. a = Place
      BY <1>2, <3>1, OnTheWay, NearBoth
    <3>3. PICK b \in Places : b = <<upload, step + 1>>
      <4>1. upload \in Uploads /\ step + 1 \in Nat
        BY OnTheWay
      <4> QED
        BY <4>1 DEF Places
    <3>4. /\ Near(a, b) /\ ReadyAt(b) /\ b[2] > 0 /\ b[1] = upload /\ b[2] = step + 1
          /\ b[2] = step' + 1 /\ b[1] = upload'
      <4>1. b[1] = upload /\ b[2] = step + 1 /\ step \in Nat
        BY <3>3, OnTheWay
      <4>2. ReadyAt(b)
        BY <3>1, <4>1 DEF ReadyAt
      <4>3. a[1] = upload /\ a[2] = step
        BY <3>2 DEF Place
      <4> QED
        BY <4>1, <4>2, <4>3 DEF Near
    <3>5. ReadyAt(b)'
      BY <1>3, <3>4
    <3>6. Ready(b[1], b[2])'
      BY <3>4, <3>5 DEF ReadyAt
    <3> QED
      BY <3>4, <3>6 DEF Ready, Holds
  <2>2. CASE i = Len(toHost) + 1
    <3>1. a = Place /\ r = "OK"
      BY <1>7, <1>8, <2>2
    <3>2. a[1] = upload' /\ a[2] = step'
      BY <3>1 DEF Place
    <3>3. Ready(a[1], a[2] + 1)'
      BY <1>3, <3>1
    <3> QED
      BY <3>2, <3>3 DEF Ready, Holds
  <2> QED
    BY <1>1, <1>7, <1>8, <2>1, <2>2
<1> QED
  BY <1>3, <1>4, <1>5, <1>6, <1>8 DEF DeviceInv

\* Frames leave the queues, and the device and the host stay where they are, or the
\* device is reset.
LEMMA DeviceDrops ==
  ASSUME WayInv, DeviceInv, UNCHANGED <<upload, step>>,
         \/ UNCHANGED <<mem, len, total>>
         \/ mem' = [o \in Offsets |-> Blank] /\ len' = 0 /\ total' = 0 /\ toDev' = <<>>,
         \/ toDev' = toDev
         \/ toDev # <<>> /\ toDev' = Tail(toDev)
         \/ toDev' = <<>>,
         \/ toHost' = toHost
         \/ toHost # <<>> /\ toHost' = Tail(toHost)
  PROVE  DeviceInv'
<1>1. /\ \A i \in 1..Len(toDev') : \E k \in 1..Len(toDev) : toDev'[i] = toDev[k]
      /\ \A i \in 1..Len(toHost') : \E k \in 1..Len(toHost) : toHost'[i] = toHost[k]
  BY QueuesDrop
<1>2. Place' = Place /\ (Busy' <=> Busy) /\ upload \in Uploads /\ step \in Nat
  BY OnTheWay DEF Place, Busy, DoneStep
<1>3. MemType'
  <2>1. Blank \in Cells /\ 0 \in 0..Cap
    BY SizeFacts DEF Cells
  <2> QED
    BY <2>1 DEF MemType, DeviceInv
<1>4. ASSUME NEW i \in 1..Len(toDev') PROVE ReadyAt(toDev[i].id)'
  <2>1. CASE UNCHANGED <<mem, len, total>>
    <3>1. PICK k \in 1..Len(toDev) : toDev'[i] = toDev[k]
      BY <1>1, <1>4
    <3>2. PICK b : b = toDev[k].id
      OBVIOUS
    <3>3. ReadyAt(b)'
      BY <2>1, <3>2, ReadySame DEF DeviceInv
    <3> QED
      BY <3>1, <3>2, <3>3 DEF ReadyAt, Ready, Holds
  <2>2. CASE toDev' = <<>>
    BY <1>4, <2>2
  <2> QED
    BY <2>1, <2>2
<1>5. \A n \in Nat \ {0} : Ready(upload, n) => Ready(upload, n)'
  <2> TAKE n \in Nat \ {0}
  <2>1. PICK v \in Uploads : v = upload /\ v = upload'
    BY <1>2
  <2>2. Ready(v, n) => Ready(v, n)'
    BY ReadySame, ReadyReset
  <2> QED
    BY <2>1, <2>2
<1>6. Busy => ReadyAt(Place)'
  BY <1>2, <1>5 DEF DeviceInv, ReadyAt, Place
<1>7. ASSUME NEW i \in 1..Len(toHost'), Busy, toHost'[i].id = Place, toHost'[i].status = "OK"
      PROVE  Ready(upload, step + 1)'
  <2>1. Ready(upload, step + 1)
    BY <1>1, <1>7 DEF DeviceInv
  <2>2. PICK n \in Nat \ {0} : n = step + 1 /\ n = step' + 1
    BY <1>2
  <2>3. Ready(upload, n)'
    BY <1>5, <2>1, <2>2
  <2> QED
    BY <2>2, <2>3
<1> QED
  BY <1>2, <1>3, <1>4, <1>6, <1>7 DEF DeviceInv

\* The host asks again for what the device is ready to take.
LEMMA DeviceSend ==
  ASSUME WayInv, DeviceInv, Send
  PROVE  DeviceInv'
<1>1. /\ toDev' = Append(toDev, Request(upload, step)) /\ Busy /\ toDev \in Seq(Requests)
      /\ UNCHANGED <<toHost, upload, step, mem, len, total>>
  BY DEF Send, hostVars, devVars, WayInv, QueuesInv
<1>2. Request(upload, step) \in Requests /\ Request(upload, step).id = Place
  <2>1. step \in 0..RunStep(upload)
    BY <1>1, OnTheWay, SizeFacts DEF Busy, DoneStep, RunStep
  <2> QED
    BY <1>1, <2>1, OnTheWay, RequestIs DEF Place
<1>3. PICK r \in Requests : r = Request(upload, step)
  BY <1>2
<1>4. /\ Len(toDev') = Len(toDev) + 1 /\ toDev'[Len(toDev) + 1] = r
      /\ \A i \in 1..Len(toDev) : toDev'[i] = toDev[i]
      /\ \A i \in 1..Len(toDev') : i \in 1..Len(toDev) \/ i = Len(toDev) + 1
  BY <1>1, <1>3, AppendProperties, OnTheWay
<1>5. ASSUME NEW i \in 1..Len(toDev') PROVE ReadyAt(toDev[i].id)'
  <2>1. PICK b : b = toDev'[i].id
    OBVIOUS
  <2>2. ReadyAt(b)
    BY <1>1, <1>2, <1>3, <1>4, <1>5, <2>1 DEF DeviceInv
  <2> QED
    BY <1>1, <2>1, <2>2 DEF ReadyAt, Ready, Holds
<1>6. Place' = Place /\ (Busy' <=> Busy) /\ MemType'
  BY <1>1 DEF Place, Busy, DoneStep, MemType, DeviceInv
<1>7. ReadyAt(Place)'
  BY <1>1, <1>6 DEF DeviceInv, ReadyAt, Ready, Holds
<1>8. ASSUME NEW i \in 1..Len(toHost), toHost[i].id = Place, toHost[i].status = "OK"
      PROVE  Ready(upload, step + 1)'
  BY <1>1, <1>8 DEF DeviceInv, Ready, Holds
<1> QED
  BY <1>1, <1>5, <1>6, <1>7, <1>8 DEF DeviceInv

\* The host moves: to the next step, for which the reply says that the device is
\* ready, or to the beginning of an upload.
LEMMA DeviceMoves ==
  ASSUME WayInv, DeviceInv, Busy, UNCHANGED <<toDev, mem, len, total>>,
         \/ /\ toHost # <<>> /\ toHost' = Tail(toHost)
            /\ Head(toHost).id = Place /\ Head(toHost).status = "OK"
            /\ step' = step + 1 /\ upload' = upload
         \/ /\ NextUpload
            /\ \/ toHost' = toHost
               \/ toHost # <<>> /\ toHost' = Tail(toHost)
  PROVE  DeviceInv'
<1>1. \A i \in 1..Len(toHost') : \E k \in 1..Len(toHost) : toHost'[i] = toHost[k]
  BY QueuesDrop
<1>2. MemType' /\ \A i \in 1..Len(toDev') : ReadyAt(toDev[i].id)'
  <2>1. MemType'
    BY DEF MemType, DeviceInv
  <2>2. \A i \in 1..Len(toDev) : ReadyAt(toDev[i].id)
    BY DEF DeviceInv
  <2> QED
    BY <2>1, <2>2 DEF ReadyAt, Ready, Holds
<1>3. Place \in Places /\ upload \in Uploads /\ step \in Nat
      /\ \A k \in 1..Len(toHost) : toHost[k].id \in Places
  BY OnTheWay
<1>4. CASE /\ toHost # <<>> /\ toHost' = Tail(toHost)
           /\ Head(toHost).id = Place /\ Head(toHost).status = "OK"
           /\ step' = step + 1 /\ upload' = upload
  <2>1. Head(toHost) = toHost[1] /\ 1 \in 1..Len(toHost)
    BY <1>4, TailIs DEF WayInv, QueuesInv
  <2>2. Ready(upload, step + 1)
    BY <1>4, <2>1 DEF DeviceInv
  <2>3. ReadyAt(Place)'
    BY <1>4, <2>2 DEF ReadyAt, Ready, Holds, Place
  <2>4. Place' # Place
    BY <1>3, <1>4 DEF Place
  <2>5. \A i \in 1..Len(toHost') : toHost'[i].id # Place'
    BY <1>1, <1>4, <2>4, AllHere
  <2> QED
    BY <1>2, <2>3, <2>5 DEF DeviceInv
<1>5. CASE upload' = upload + 1 /\ step' = 0
  <2>1. Place' = <<Place[1] + 1, 0>>
    BY <1>5 DEF Place
  <2>2. \A k \in 1..Len(toHost) : toHost[k].id # Place'
    BY <1>3, <2>1, NearNotLater DEF WayInv, HostInv
  <2>3. \A i \in 1..Len(toHost') : toHost'[i].id # Place'
    BY <1>1, <2>2
  <2>4. ReadyAt(Place)'
    BY <1>5 DEF ReadyAt, Place
  <2> QED
    BY <1>2, <2>3, <2>4 DEF DeviceInv
<1>6. CASE step' = DoneStep(upload) /\ upload' = upload
  <2>1. ~Busy'
    BY <1>3, <1>6, SizeFacts DEF Busy, DoneStep
  <2> QED
    BY <1>2, <2>1 DEF DeviceInv
<1> QED
  BY <1>4, <1>5, <1>6 DEF NextUpload

\* A request is one of the four that the device knows.
LEMMA HandleTakes ==
  ASSUME WayInv, Handle
  PROVE  \E r \in Answers :
           /\ toDev # <<>> /\ Takes(Head(toDev), r) /\ toDev' = Tail(toDev)
           /\ toHost' = Append(toHost, [id |-> Head(toDev).id, status |-> r])
           /\ UNCHANGED <<upload, step, told, losses, resets>>
<1>1. toDev # <<>> /\ toDev \in Seq(Requests)
  BY DEF Handle, WayInv, QueuesInv
<1>2. PICK q \in Requests : q = Head(toDev)
  BY <1>1, TailIs
<1>3. q.id = <<q.id[1], q.id[2]>>
  BY DEF Requests, Places
<1>4. PICK r \in Answers :
        /\ \/ q.op = "BEGIN" /\ WriteBegin(Sizes[q.id[1]], r)
           \/ q.op = "DATA"  /\ WriteData(q.id[2] - 1, <<q.id[1], q.id[2]>>, r)
           \/ q.op = "END"   /\ WriteEnd(r)
           \/ q.op = "RUN"   /\ MacroRun(r)
        /\ toHost' = Append(toHost, [id |-> q.id, status |-> r])
  BY <1>2 DEF Handle, Answer
<1>5. Takes(q, r)
  BY <1>3, <1>4 DEF Takes
<1> QED
  BY <1>1, <1>2, <1>4, <1>5 DEF Handle, hostVars

\* No step leaves the device unready for what comes.
LEMMA DeviceKeeps == WayInv /\ DeviceInv /\ [UploadNext]_uploadVars => DeviceInv'
<1> SUFFICES ASSUME WayInv, DeviceInv, [UploadNext]_uploadVars PROVE DeviceInv'
  OBVIOUS
<1>1. CASE Handle
  BY <1>1, HandleTakes, DeviceHandle
<1>2. CASE Reset
  BY <1>2, DeviceDrops DEF Reset, hostVars
<1>3. CASE Send
  BY <1>3, DeviceSend
<1>4. CASE Receive
  <2>1. toHost # <<>> /\ toHost' = Tail(toHost) /\ UNCHANGED <<toDev, mem, len, total>>
    BY <1>4 DEF Receive, devVars
  <2>2. CASE UNCHANGED hostVars
    BY <2>1, <2>2, DeviceDrops DEF hostVars
  <2>3. CASE Busy /\ NextUpload
    BY <2>1, <2>3, DeviceMoves
  <2>4. CASE /\ Busy /\ Head(toHost).id = Place /\ Head(toHost).status = "OK"
             /\ step' = step + 1 /\ UNCHANGED upload
    BY <2>1, <2>4, DeviceMoves
  <2> QED
    BY <1>4, <2>2, <2>3, <2>4 DEF Receive, Place
<1>5. CASE GiveUp
  BY <1>5, DeviceMoves DEF GiveUp, linkVars, devVars
<1>6. CASE Lose
  BY <1>6, DeviceDrops DEF Lose, hostVars, devVars
<1>7. CASE UNCHANGED uploadVars
  BY <1>7, DeviceDrops DEF uploadVars, hostVars, linkVars, devVars
<1> QED
  BY <1>1, <1>2, <1>3, <1>4, <1>5, <1>6, <1>7 DEF UploadNext

-----------------------------------------------------------------------------
(* What ran                                                                *)

\* No step runs a mixture, or tells the host of a run that was none.
LEMMA RanKeeps == WayInv /\ DeviceInv /\ RanInv /\ [UploadNext]_uploadVars => RanInv'
<1> SUFFICES ASSUME WayInv, DeviceInv, RanInv, [UploadNext]_uploadVars PROVE RanInv'
  OBVIOUS
<1>1. CASE Handle
  <2>1. PICK r \in Answers :
          /\ toDev # <<>> /\ Takes(Head(toDev), r) /\ toDev' = Tail(toDev)
          /\ toHost' = Append(toHost, [id |-> Head(toDev).id, status |-> r])
          /\ UNCHANGED <<upload, step, told, losses, resets>>
    BY <1>1, HandleTakes
  <2>2. Head(toDev) = toDev[1] /\ 1 \in 1..Len(toDev)
    BY <2>1, TailIs DEF WayInv, QueuesInv
  <2>3. PICK a \in Places : a = toDev[1].id
    BY <2>2, OnTheWay
  <2>4. /\ toDev[1] = Request(a[1], a[2]) /\ a[2] < DoneStep(a[1]) /\ ReadyAt(a)
    BY <2>2, <2>3 DEF WayInv, QueuesInv, DeviceInv
  <2>5. a[2] <= RunStep(a[1]) /\ a[1] \in Uploads
    BY <2>4, SizeFacts DEF Places, DoneStep, RunStep
  <2>6. Takes(Request(a[1], a[2]), r) /\ MemType
    BY <2>1, <2>2, <2>4 DEF DeviceInv
  <2>7. /\ ran' = ran \/ ran' = ran \union {Program(a[1])}
        /\ r = "OK" /\ a[2] = RunStep(a[1]) => Program(a[1]) \in ran'
    BY <2>4, <2>5, <2>6, TakesReady
  <2>8. [id |-> a, status |-> r] \in Replies /\ toHost \in Seq(Replies)
    BY DEF Replies, WayInv, QueuesInv
  <2>9. /\ \A i \in 1..Len(toHost) : toHost'[i] = toHost[i]
        /\ toHost'[Len(toHost) + 1] = [id |-> a, status |-> r]
        /\ \A i \in 1..Len(toHost') : i \in 1..Len(toHost) \/ i = Len(toHost) + 1
    BY <2>1, <2>2, <2>3, <2>8, AppendProperties, OnTheWay
  <2>10. ASSUME NEW i \in 1..Len(toHost'), NEW b, b = toHost'[i].id,
                b[2] = RunStep(b[1]), toHost'[i].status = "OK"
         PROVE  Program(b[1]) \in ran'
    <3>1. CASE i \in 1..Len(toHost)
      BY <2>7, <2>9, <2>10, <3>1 DEF RanInv
    <3>2. CASE i = Len(toHost) + 1
      BY <2>7, <2>9, <2>10, <3>2
    <3> QED
      BY <2>9, <2>10, <3>1, <3>2
  <2> QED
    BY <2>1, <2>5, <2>7, <2>10 DEF RanInv
<1>2. CASE UNCHANGED ran /\ losses' \in 0..MaxLosses /\ resets' \in 0..MaxResets
           /\ \/ toHost' = toHost
              \/ toHost # <<>> /\ toHost' = Tail(toHost)
           /\ \A v \in told' : v \in told \/ (v \in Uploads /\ Program(v) \in ran)
  <2>1. \A i \in 1..Len(toHost') : \E k \in 1..Len(toHost) : toHost'[i] = toHost[k]
    <3>1. CASE toHost' = toHost
      BY <3>1
    <3>2. CASE toHost # <<>> /\ toHost' = Tail(toHost)
      <4>1. \A i \in 1..Len(toHost') : i + 1 \in 1..Len(toHost) /\ toHost'[i] = toHost[i + 1]
        BY <3>2, TailIs DEF WayInv, QueuesInv
      <4> QED
        BY <4>1
    <3> QED
      BY <1>2, <3>1, <3>2
  <2>2. ASSUME NEW i \in 1..Len(toHost'), NEW b, b = toHost'[i].id,
               b[2] = RunStep(b[1]), toHost'[i].status = "OK"
        PROVE  Program(b[1]) \in ran
    BY <2>1, <2>2 DEF RanInv
  <2> QED
    BY <1>2, <2>2 DEF RanInv
<1>3. CASE Reset \/ Send \/ GiveUp \/ Lose \/ UNCHANGED uploadVars
  <2>1. UNCHANGED <<ran, told>>
        /\ losses' \in 0..MaxLosses /\ resets' \in 0..MaxResets
        /\ \/ toHost' = toHost
           \/ toHost # <<>> /\ toHost' = Tail(toHost)
    BY <1>3, SizeFacts
    DEF Reset, Send, GiveUp, Lose, uploadVars, devVars, hostVars, linkVars, RanInv
  <2> QED
    BY <1>2, <2>1
<1>4. CASE Receive
  <2>1. /\ toHost # <<>> /\ toHost' = Tail(toHost) /\ UNCHANGED <<ran, losses, resets>>
        /\ \/ UNCHANGED told
           \/ /\ Head(toHost).id = Place /\ Head(toHost).status = "OK"
              /\ step = RunStep(upload) /\ told' = told \union {upload}
    BY <1>4 DEF Receive, devVars, hostVars, Place
  <2>2. Head(toHost) = toHost[1] /\ 1 \in 1..Len(toHost) /\ upload \in Uploads
    BY <2>1, TailIs, OnTheWay DEF WayInv, QueuesInv
  <2>3. ASSUME NEW b, b = Head(toHost).id, Head(toHost).status = "OK", b[2] = RunStep(b[1])
        PROVE  Program(b[1]) \in ran
    BY <2>2, <2>3 DEF RanInv
  <2>4. \A v \in told' : v \in told \/ (v \in Uploads /\ Program(v) \in ran)
    BY <2>1, <2>2, <2>3 DEF Place
  <2> QED
    BY <1>2, <2>1, <2>4 DEF RanInv
<1> QED
  BY <1>1, <1>3, <1>4 DEF UploadNext

\* A program that ran is one of the uploads, whole, and the host is told of a run only
\* if it was one: whatever is lost, sent twice, given up or cut by a reset.
THEOREM WholePrograms == UploadSpec => []RunsWholeProgram
<1>1. UploadInit => UploadInv
  <2> SUFFICES ASSUME UploadInit PROVE UploadInv
    OBVIOUS
  <2> USE SizeFacts
  <2>1. /\ upload = 1 /\ step = 0 /\ told = {} /\ toDev = <<>> /\ toHost = <<>>
        /\ losses = 0 /\ resets = 0 /\ ran = {}
        /\ mem = [o \in Offsets |-> Blank] /\ len = 0 /\ total = 0
    BY DEF UploadInit
  <2>2. Len(toDev) = 0 /\ Len(toHost) = 0 /\ toDev \in Seq(Requests) /\ toHost \in Seq(Replies)
    BY <2>1, EmptySeq
  <2>3. WayInv
    BY <2>1, <2>2 DEF WayInv, QueuesInv, HostInv, DoneStep
  <2>4. Blank \in Cells
    BY DEF Cells
  <2>5. MemType /\ ReadyAt(Place)
    BY <2>1, <2>4 DEF MemType, ReadyAt, Place
  <2>6. DeviceInv /\ RanInv
    BY <2>1, <2>2, <2>5 DEF DeviceInv, RanInv
  <2> QED
    BY <2>3, <2>6 DEF UploadInv
<1>2. UploadInv /\ [UploadNext]_uploadVars => UploadInv'
  BY WayKeeps, DeviceKeeps, RanKeeps DEF UploadInv
<1>3. UploadInv => RunsWholeProgram
  BY DEF UploadInv, WayInv, QueuesInv, HostInv, DeviceInv, MemType, RanInv,
         RunsWholeProgram, UploadTypeOK
<1> QED
  BY <1>1, <1>2, <1>3, PTL DEF UploadSpec
=============================================================================
