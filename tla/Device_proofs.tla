--------------------------- MODULE Device_proofs ----------------------------
(***************************************************************************)
(* Theorems about the device behind its links: the dispatch of commands,   *)
(* the session and the console tee (SkritDevice), and the provisioned      *)
(* outputs that commands drive (IoTable).  The two modules have no name in *)
(* common; each theorem is about the specification of one of them.         *)
(***************************************************************************)
EXTENDS SkritDevice, IoTable, SequenceTheorems, FiniteSetTheorems, WellFoundedInduction, TLAPS

-----------------------------------------------------------------------------
(***************************************************************************)
(* SkritDevice, for any set of links: type correctness and the auth gate   *)
(* in the loop and in the threaded build, and for the loop that commands   *)
(* are serialised, outputs keep their commanded levels and the tee is in   *)
(* order.                                                                  *)
(***************************************************************************)

-----------------------------------------------------------------------------
(* Type correctness                                                        *)

\* The driver's queue and a part of it hold bytes.
LEMMA SubSeqBytes ==
  ASSUME NEW S, NEW s \in Seq(S), NEW m \in 1..(Len(s) + 1), NEW n \in 0..Len(s)
  PROVE  SubSeq(s, m, n) \in Seq(S)
  BY SubSeqProperties

\* Reading n bytes of the console splits what is unread.
LEMMA ReadTypes ==
  ASSUME TypeOK, NEW n \in 1..MaxBytes, DataRead(n)
  PROVE  /\ unread' \in Seq(1..MaxBytes)
         /\ SubSeq(unread, 1, n) \in Seq(1..MaxBytes)
<1>1. unread \in Seq(1..MaxBytes) /\ n \in 1..Len(unread)
      /\ unread' = SubSeq(unread, n + 1, Len(unread))
  BY DEF TypeOK, DataRead
<1>2. Len(unread) \in Nat
  BY <1>1, LenProperties
<1>3. n + 1 \in 1..(Len(unread) + 1) /\ Len(unread) \in 0..Len(unread)
      /\ 1 \in 1..(Len(unread) + 1) /\ n \in 0..Len(unread)
  BY <1>1, <1>2
<1> QED
  BY <1>1, <1>3, SubSeqBytes

\* What a read feeds to the links are bytes.
LEMMA FeedTypes ==
  ASSUME TypeOK, NEW D \in SUBSET Links, NEW b \in Seq(1..MaxBytes), Feed(D, b)
  PROVE  /\ tee' \in [Links -> Seq(1..MaxBytes)]
         /\ served' \in [Links -> SUBSET Nat]
<1>1. \A l \in Links : tee[l] \o b \in Seq(1..MaxBytes)
  BY ConcatProperties DEF TypeOK
<1>2. \A l \in Links : session[l] \in Nat /\ served[l] \in SUBSET Nat
  BY DEF TypeOK
<1> QED
  BY <1>1, <1>2 DEF TypeOK, Feed

\* The state is typed at the start ...
LEMMA InitType == Init => TypeOK
<1> SUFFICES ASSUME Init PROVE TypeOK
  OBVIOUS
<1>1. <<>> \in Seq(1..MaxBytes) /\ Default \in Passwords
      /\ MaxBytes \in Nat /\ MaxCmds \in Nat
  BY DeviceAssumption, EmptySeq
<1> QED
  BY <1>1 DEF Init, TypeOK, Outputs, Levels, Status, NoPulse

\* What a command that is not a pulse leaves alone.
LEMMA DispatchType ==
  ASSUME TypeOK, NEW l \in Links, Dispatch(l)
  PROVE  TypeOK'
<1> USE DeviceAssumption
<1>a. cmds < MaxCmds /\ cmds' = cmds + 1 => cmds' \in 0..MaxCmds
  BY DEF TypeOK
<1>b. session[l] \in Nat /\ \A m \in Links : served[m] \union {session[m]} \in SUBSET Nat
  BY DEF TypeOK
<1>c. ASSUME Serve(l) PROVE served' \in [Links -> SUBSET Nat]
  BY <1>b, <1>c DEF Serve, TypeOK
<1>d. ASSUME NEW s \in Status, Reply(l, s) PROVE reply' \in [Links -> Status]
  BY <1>d DEF Reply, TypeOK
<1>s. {"OK", "BADARGS", "STORAGE", "UNAUTH", "UNSUPPORTED"} \subseteq Status
  BY DEF Status
<1>1. CASE Refuse(l) \/ Greet(l) \/ BadIndex(l) \/ NoHook(l)
  BY <1>1, <1>a, <1>d, <1>s
  DEF Refuse, Greet, BadIndex, NoHook, Admitted, Command, TypeOK, consVars, outVars, authVars
<1>2. CASE DataIn(l)
  BY <1>2, <1>a, <1>c, <1>s
  DEF DataIn, Command, TypeOK, devVars, consVars, outVars, authVars
<1>3. CASE Describe(l) \/ HalCall(l)
  BY <1>3, <1>a, <1>c, <1>d, <1>s
  DEF Describe, HalCall, Admitted, Command, TypeOK, consVars, outVars, authVars
<1>4. CASE Reboot(l)
  <2>1. \A m \in Links : session[m] + 1 \in Nat
    BY DEF TypeOK
  <2>2. session' \in [Links -> Nat]
    BY <1>4, <2>1 DEF Reboot
  <2>3. reply' \in [Links -> Status]
    BY <1>4 DEF Reboot, Status
  <2>4. <<>> \in Seq(1..MaxBytes)
    BY EmptySeq
  <2> QED
    BY <1>4, <2>2, <2>3, <2>4, <1>a, <1>c
    DEF Reboot, Admitted, Command, TypeOK, Outputs, Levels
<1>5. ASSUME NEW p \in Passwords \union {NoPassword}, Auth(l, p) PROVE TypeOK'
  <2>1. proven' \in [Links -> SUBSET Nat]
    BY <1>5, <1>b DEF Auth, TypeOK
  <2>2. authed' \in [Links -> BOOLEAN] /\ reply' \in [Links -> Status]
    BY <1>5, <1>d, <1>s DEF Auth, TypeOK
  <2> QED
    BY <1>5, <2>1, <2>2, <1>a DEF Auth, Command, TypeOK, consVars, outVars
<1>6. ASSUME NEW p \in Passwords \union {NoPassword}, AuthSet(l, p) PROVE TypeOK'
  <2>1. reply' \in [Links -> Status]
    BY <1>6, <1>d, <1>s DEF AuthSet
  <2>2. pw' \in Passwords
    BY <1>6 DEF AuthSet, TypeOK
  <2>3. served' \in [Links -> SUBSET Nat]
    BY <1>6, <1>c DEF AuthSet, TypeOK
  <2>4. cmds' \in 0..MaxCmds
    BY <1>6, <1>a DEF AuthSet, Admitted, Command
  <2>5. UNCHANGED <<authed, forward, consVars, outVars, session, proven>>
    BY <1>6 DEF AuthSet
  <2> QED
    BY <2>1, <2>2, <2>3, <2>4, <2>5 DEF TypeOK, consVars, outVars
<1>t. ASSUME NEW i \in Outputs PROVE out[i] \in Levels /\ 1 - out[i] \in Levels
  <2>1. out[i] = 0 \/ out[i] = 1
    BY DEF TypeOK, Levels
  <2> QED
    BY <2>1 DEF Levels
<1>7. ASSUME NEW i \in Outputs, OutToggle(l, i) PROVE TypeOK'
  <2>1. 1 - out[i] \in Levels
    BY <1>t
  <2> QED
    BY <1>7, <2>1, <1>a, <1>c, <1>d, <1>s
    DEF OutToggle, Drive, Admitted, Command, TypeOK, consVars, authVars
<1>8. ASSUME NEW i \in Outputs, OutPulse(l, i) PROVE TypeOK'
  <2>1. 1 - out[i] \in Levels /\ out[i] \in Levels
    BY <1>t
  <2>2. [idx |-> i, prev |-> out[i]] \in [idx : Outputs, prev : Levels]
    BY <2>1
  <2> QED
    BY <1>8, <2>1, <2>2, <1>a, <1>c, <1>d, <1>s
    DEF OutPulse, Drive, Admitted, Command, TypeOK, consVars, authVars
<1>9. ASSUME NEW i \in Outputs, NEW v \in Levels, OutSet(l, i, v) PROVE TypeOK'
  BY <1>9, <1>a, <1>c, <1>d, <1>s
  DEF OutSet, Drive, Admitted, Command, TypeOK, consVars, authVars
<1>10. ASSUME NEW f \in BOOLEAN, ProtoSet(l, f) PROVE TypeOK'
  BY <1>10, <1>a, <1>c, <1>d, <1>s
  DEF ProtoSet, Admitted, Command, TypeOK, consVars, outVars, authVars
<1> QED
  BY <1>1, <1>2, <1>3, <1>4, <1>5, <1>6, <1>7, <1>8, <1>9, <1>10 DEF Dispatch

\* ... and after every step.
LEMMA NextType == TypeOK /\ [Next]_vars => TypeOK'
<1> SUFFICES ASSUME TypeOK, [Next]_vars PROVE TypeOK'
  OBVIOUS
<1> USE DeviceAssumption
<1>1. CASE Arrive
  <2>1. arrived' \in 0..MaxBytes /\ arrived + 1 \in 1..MaxBytes
    BY <1>1 DEF Arrive, TypeOK
  <2>2. unread' \in Seq(1..MaxBytes)
    BY <1>1, <2>1, AppendProperties DEF Arrive, TypeOK
  <2> QED
    BY <1>1, <2>1, <2>2 DEF Arrive, TypeOK, devVars, outVars, authVars
<1>2. CASE BridgeFeed
  <2>1. held \in Seq(1..MaxBytes) /\ <<>> \in Seq(1..MaxBytes)
    BY EmptySeq DEF TypeOK
  <2>2. tee' \in [Links -> Seq(1..MaxBytes)] /\ served' \in [Links -> SUBSET Nat]
    BY <1>2, <2>1, FeedTypes DEF BridgeFeed
  <2> QED
    BY <1>2, <2>1, <2>2 DEF BridgeFeed, TypeOK, devVars, outVars, authVars
<1>3. ASSUME NEW n \in 1..MaxBytes, BridgeRead(n) PROVE TypeOK'
  <2>1. unread' \in Seq(1..MaxBytes) /\ held' \in Seq(1..MaxBytes)
    BY <1>3, ReadTypes DEF BridgeRead
  <2> QED
    BY <1>3, <2>1 DEF BridgeRead, TypeOK, devVars, outVars, authVars
<1>4. ASSUME NEW l \in Links, NEW n \in 1..MaxBytes, WaitPoll(l, n) PROVE TypeOK'
  <2>1. unread' \in Seq(1..MaxBytes) /\ SubSeq(unread, 1, n) \in Seq(1..MaxBytes)
    BY <1>4, ReadTypes DEF WaitPoll
  <2>2. tee' \in [Links -> Seq(1..MaxBytes)] /\ served' \in [Links -> SUBSET Nat]
    BY <1>4, <2>1, FeedTypes DEF WaitPoll
  <2> QED
    BY <1>4, <2>1, <2>2 DEF WaitPoll, TypeOK, devVars, outVars, authVars
<1>5. ASSUME NEW l \in Links, Connect(l) PROVE TypeOK'
  <2>1. session' \in [Links -> Nat]
    BY <1>5 DEF Connect, TypeOK
  <2>2. authed' \in [Links -> BOOLEAN]
    BY <1>5 DEF Connect, ResetAuth, TypeOK
  <2> QED
    BY <1>5, <2>1, <2>2 DEF Connect, TypeOK, consVars, outVars
<1>6. ASSUME NEW l \in Links, PulseEnd(l) PROVE TypeOK'
  <2>1. pulse[l] \in [idx : Outputs, prev : Levels]
    BY <1>6 DEF PulseEnd, TypeOK
  <2>2. out' \in [Outputs -> Levels]
    BY <1>6, <2>1 DEF PulseEnd, Restore, Drive, TypeOK
  <2> QED
    BY <1>6, <2>2 DEF PulseEnd, TypeOK, devVars, consVars, authVars
<1>7. CASE UNCHANGED vars
  BY <1>7 DEF vars, TypeOK, devVars, consVars, outVars, authVars
<1> QED
  BY <1>1, <1>2, <1>3, <1>4, <1>5, <1>6, <1>7, DispatchType DEF Next, Console

\* In every reachable state every variable of the model has its type, for any
\* set of links and either build.
THEOREM TypeCorrect == Spec => []TypeOK
  BY InitType, NextType, PTL DEF Spec

-----------------------------------------------------------------------------
(* The auth gate                                                           *)

\* A set flag belongs to the connection that gave the password.
AuthInv ==
  \A l \in Networked : /\ authed[l] => session[l] \in proven[l]
                       /\ served[l] \subseteq proven[l]

\* The gate lets only proven connections through.
LEMMA UngatedProven ==
  ASSUME AuthInv, NEW l \in Networked, ~Gated(l)
  PROVE  session[l] \in proven[l]
  BY DEF AuthInv, Gated

\* Bytes of the console reach a gated link only in a session that proved itself.
LEMMA FeedAuth ==
  ASSUME TypeOK, AuthInv, NEW D \in SUBSET Links, NEW b, Feed(D, b),
         UNCHANGED <<devVars, authVars>>
  PROVE  AuthInv'
<1>1. \A l \in Networked : Listening(l) => session[l] \in proven[l]
  BY UngatedProven DEF Listening
<1> QED
  BY <1>1, DeviceAssumption DEF Feed, AuthInv, TypeOK, devVars, authVars

\* So do answers.
LEMMA DispatchAuth ==
  ASSUME TypeOK, AuthInv, NEW k \in Links, Dispatch(k)
  PROVE  AuthInv'
<1> USE DeviceAssumption
<1>a. ASSUME Serve(k), ~Gated(k), NEW l \in Networked
      PROVE  served'[l] \subseteq proven[l]
  BY <1>a, UngatedProven DEF Serve, AuthInv, TypeOK
<1>1. CASE Refuse(k) \/ Greet(k) \/ BadIndex(k) \/ NoHook(k)
  BY <1>1 DEF Refuse, Greet, BadIndex, NoHook, AuthInv, authVars
<1>2. CASE DataIn(k)
  BY <1>2, <1>a DEF DataIn, AuthInv, devVars, authVars
<1>3. CASE Describe(k) \/ HalCall(k)
  BY <1>3, <1>a DEF Describe, HalCall, Admitted, AuthInv, authVars
<1>4. CASE Reboot(k)
  BY <1>4, <1>a DEF Reboot, Admitted, AuthInv, TypeOK
<1>5. ASSUME NEW p \in Passwords \union {NoPassword}, Auth(k, p) PROVE AuthInv'
  <2>1. proven' = [proven EXCEPT ![k] = IF p = pw THEN @ \union {session[k]} ELSE @]
        /\ UNCHANGED <<session, served>>
    BY <1>5 DEF Auth
  <2>2. \A l \in Links : proven[l] \subseteq proven'[l]
    BY <2>1 DEF TypeOK
  <2>3. \A l \in Links : authed'[l] => authed[l] \/ (l = k /\ p = pw)
    BY <1>5 DEF Auth, AuthCheck, TypeOK
  <2>4. p = pw => session[k] \in proven'[k]
    BY <2>1 DEF TypeOK
  <2> QED
    BY <2>1, <2>2, <2>3, <2>4 DEF AuthInv
<1>6. ASSUME NEW p \in Passwords \union {NoPassword}, AuthSet(k, p) PROVE AuthInv'
  <2>1. UNCHANGED <<authed, session, proven>> /\ ~Gated(k)
    BY <1>6 DEF AuthSet, Admitted
  <2>2. UNCHANGED served \/ Serve(k)
    BY <1>6 DEF AuthSet
  <2> QED
    BY <2>1, <2>2, <1>a DEF AuthInv
<1>7. ASSUME NEW i \in Outputs, OutToggle(k, i) \/ OutPulse(k, i) PROVE AuthInv'
  BY <1>7, <1>a DEF OutToggle, OutPulse, Admitted, AuthInv, authVars
<1>8. ASSUME NEW i \in Outputs, NEW v \in Levels, OutSet(k, i, v) PROVE AuthInv'
  BY <1>8, <1>a DEF OutSet, Admitted, AuthInv, authVars
<1>9. ASSUME NEW f \in BOOLEAN, ProtoSet(k, f) PROVE AuthInv'
  BY <1>9, <1>a DEF ProtoSet, Admitted, AuthInv, authVars
<1> QED
  BY <1>1, <1>2, <1>3, <1>4, <1>5, <1>6, <1>7, <1>8, <1>9 DEF Dispatch

\* No step serves a session that did not prove itself.
LEMMA NextAuth == TypeOK /\ AuthInv /\ [Next]_vars => AuthInv'
<1> SUFFICES ASSUME TypeOK, AuthInv, [Next]_vars PROVE AuthInv'
  OBVIOUS
<1> USE DeviceAssumption
<1>1. CASE Arrive
  BY <1>1 DEF Arrive, AuthInv, devVars, authVars
<1>2. CASE BridgeFeed
  BY <1>2, FeedAuth DEF BridgeFeed
<1>3. ASSUME NEW n \in 1..MaxBytes, BridgeRead(n) PROVE AuthInv'
  BY <1>3 DEF BridgeRead, AuthInv, devVars, authVars
<1>4. ASSUME NEW l \in Links, NEW n \in 1..MaxBytes, WaitPoll(l, n) PROVE AuthInv'
  BY <1>4, FeedAuth DEF WaitPoll
<1>5. ASSUME NEW l \in Links, Connect(l) PROVE AuthInv'
  BY <1>5 DEF Connect, ResetAuth, AuthInv, TypeOK
<1>6. ASSUME NEW l \in Links, PulseEnd(l) PROVE AuthInv'
  BY <1>6 DEF PulseEnd, AuthInv, devVars, authVars
<1>7. CASE UNCHANGED vars
  BY <1>7 DEF vars, AuthInv, devVars, authVars
<1> QED
  BY <1>1, <1>2, <1>3, <1>4, <1>5, <1>6, <1>7, DispatchAuth DEF Next, Console

\* Whatever links take turns and whatever the order of connections, passwords
\* and commands, a connection that has not given the stored password is served
\* nothing behind the gate of skrit__dispatch.
THEOREM AuthGate == Spec => []OnlyAuthenticated
<1>1. Init => AuthInv
  BY DeviceAssumption DEF Init, AuthInv
<1>2. AuthInv => OnlyAuthenticated
  BY DEF AuthInv, OnlyAuthenticated
<1> QED
  BY <1>1, <1>2, TypeCorrect, NextAuth, PTL DEF Spec

-----------------------------------------------------------------------------
(* The single loop                                                         *)

\* At most one link is in a command that waits.
OneWaits ==
  \A l, m \in Links : pulse[l] # NoPulse /\ pulse[m] # NoPulse => l = m

\* A pulse remembers the commanded level, and only its output differs from it.
PulseInv ==
  /\ \A l \in Links : pulse[l] # NoPulse => pulse[l].prev = wanted[pulse[l].idx]
  /\ \A i \in Outputs : \/ out[i] = wanted[i]
                        \/ \E l \in Links : pulse[l] # NoPulse /\ pulse[l].idx = i

LoopInv == OneWaits /\ PulseInv

\* In the loop a command starts when no other waits.
LEMMA LoopFree ==
  ASSUME ~Threaded, LoopInv, NEW l \in Links, Free(l)
  PROVE  /\ \A m \in Links : pulse[m] = NoPulse
         /\ \A i \in Outputs : out[i] = wanted[i]
  BY DEF LoopInv, PulseInv, Free, SameTask

\* A dispatched command finds no other output under way.
LEMMA LoopDispatch ==
  ASSUME ~Threaded, TypeOK, LoopInv, NEW k \in Links, Dispatch(k)
  PROVE  LoopInv'
<1> USE DEF LoopInv, OneWaits, PulseInv
<1>1. CASE UNCHANGED outVars
  BY <1>1 DEF outVars
<1>2. CASE Reboot(k)
  BY <1>2 DEF Reboot
<1>3. ASSUME NEW i \in Outputs, OutToggle(k, i) PROVE LoopInv'
  <2>1. /\ \A m \in Links : pulse[m] = NoPulse
        /\ \A j \in Outputs : out[j] = wanted[j]
    BY <1>3, LoopFree DEF OutToggle, Admitted, Command
  <2> QED
    BY <1>3, <2>1 DEF OutToggle, Drive, TypeOK
<1>4. ASSUME NEW i \in Outputs, NEW v \in Levels, OutSet(k, i, v) PROVE LoopInv'
  <2>1. /\ \A m \in Links : pulse[m] = NoPulse
        /\ \A j \in Outputs : out[j] = wanted[j]
    BY <1>4, LoopFree DEF OutSet, Admitted, Command
  <2> QED
    BY <1>4, <2>1 DEF OutSet, Drive, TypeOK
<1>5. ASSUME NEW i \in Outputs, OutPulse(k, i) PROVE LoopInv'
  <2>1. /\ \A m \in Links : pulse[m] = NoPulse
        /\ \A j \in Outputs : out[j] = wanted[j]
    BY <1>5, LoopFree DEF OutPulse, Admitted, Command
  <2>2. i # NOutputs
    BY DeviceAssumption DEF Outputs
  <2>3. \A m \in Links : pulse'[m] = IF m = k THEN [idx |-> i, prev |-> out[i]] ELSE NoPulse
    BY <1>5, <2>1 DEF OutPulse, TypeOK
  <2>4. pulse'[k] # NoPulse /\ pulse'[k].idx = i /\ pulse'[k].prev = out[i]
    BY <2>2, <2>3 DEF NoPulse
  <2>5. wanted' = wanted /\ \A j \in Outputs \ {i} : out'[j] = out[j]
    BY <1>5 DEF OutPulse, Drive, TypeOK
  <2> QED
    BY <2>1, <2>3, <2>4, <2>5
<1> QED
  BY <1>1, <1>2, <1>3, <1>4, <1>5
  DEF Dispatch, Refuse, Greet, BadIndex, NoHook, Describe, HalCall, DataIn,
      Auth, AuthSet, ProtoSet, outVars

\* No step of the one loop finds the output of another half done.
LEMMA LoopNext ==
  ASSUME ~Threaded, TypeOK, LoopInv, [Next]_vars
  PROVE  LoopInv'
<1> USE DEF LoopInv, OneWaits, PulseInv
<1>1. CASE UNCHANGED outVars
  BY <1>1 DEF outVars
<1>2. ASSUME NEW l \in Links, PulseEnd(l) PROVE LoopInv'
  <2>1. pulse[l] # NoPulse /\ pulse[l] \in [idx : Outputs, prev : Levels]
    BY <1>2 DEF PulseEnd, TypeOK
  <2>2. \A m \in Links : pulse'[m] = NoPulse
    BY <1>2, <2>1 DEF PulseEnd, TypeOK
  <2>3. wanted' = wanted
        /\ \A i \in Outputs : out'[i] = IF i = pulse[l].idx THEN pulse[l].prev ELSE out[i]
    BY <1>2, <2>1 DEF PulseEnd, Restore, Drive, TypeOK
  <2>4. \A i \in Outputs : out'[i] = wanted'[i]
    BY <2>1, <2>3
  <2> QED
    BY <2>2, <2>4
<1>3. ASSUME Console PROVE UNCHANGED outVars
  BY <1>3 DEF Console, Arrive, BridgeFeed, BridgeRead, WaitPoll
<1>4. ASSUME NEW l \in Links, Connect(l) PROVE UNCHANGED outVars
  BY <1>4 DEF Connect
<1> QED
  BY <1>1, <1>2, <1>3, <1>4, LoopDispatch DEF Next, vars

\* In a build of one loop, what it relies on always holds.
LEMMA LoopInvariant ==
  ASSUME ~Threaded
  PROVE  Spec => []LoopInv
<1>1. Init => LoopInv
  BY DEF Init, LoopInv, OneWaits, PulseInv
<1>2. TypeOK /\ LoopInv /\ [Next]_vars => LoopInv'
  BY LoopNext
<1> QED
  BY <1>1, <1>2, TypeCorrect, PTL DEF Spec

\* In the Arduino loop an output that is in no pulse has the level it was last
\* commanded to, whichever links the commands came from.
THEOREM LoopOutputs ==
  ASSUME ~Threaded
  PROVE  Spec => []OutputsAsCommanded
<1>1. LoopInv => OutputsAsCommanded
  BY DEF LoopInv, PulseInv, OutputsAsCommanded
<1> QED
  BY <1>1, LoopInvariant, PTL

-----------------------------------------------------------------------------
(* The console in the single loop                                          *)

Increasing(s) == \A i, j \in 1..Len(s) : i < j => s[i] < s[j]
Below(s, t)   == \A i \in 1..Len(s), j \in 1..Len(t) : s[i] < t[j]

\* A read takes the first bytes of the driver's queue and leaves the others.
LEMMA ReadSplits ==
  ASSUME NEW S, NEW u \in Seq(S), Increasing(u), NEW n \in 1..Len(u)
  PROVE  LET first == SubSeq(u, 1, n)  rest == SubSeq(u, n + 1, Len(u)) IN
         /\ first \in Seq(S) /\ rest \in Seq(S)
         /\ Increasing(first) /\ Increasing(rest) /\ Below(first, rest)
         /\ \A i \in 1..Len(first) : \E k \in 1..Len(u) : first[i] = u[k]
         /\ \A i \in 1..Len(rest) : \E k \in 1..Len(u) : rest[i] = u[k]
<1> DEFINE first == SubSeq(u, 1, n)
           rest  == SubSeq(u, n + 1, Len(u))
<1>1. Len(u) \in Nat
  OBVIOUS
<1>2. /\ first \in Seq(S) /\ Len(first) = n
      /\ \A i \in 1..n : first[i] = u[i]
  BY <1>1, SubSeqProperties
<1>3. /\ rest \in Seq(S) /\ Len(rest) = Len(u) - n
      /\ \A i \in 1..(Len(u) - n) : rest[i] = u[n + i]
  BY <1>1, SubSeqProperties
<1> HIDE DEF first, rest
<1>4. /\ \A i \in 1..Len(first) : i \in 1..Len(u) /\ i <= n /\ first[i] = u[i]
      /\ \A i \in 1..Len(rest) : n + i \in 1..Len(u) /\ rest[i] = u[n + i]
  BY <1>1, <1>2, <1>3
<1>5. Increasing(first)
  BY <1>4 DEF Increasing
<1>6. Increasing(rest)
  <2> SUFFICES ASSUME NEW i \in 1..Len(rest), NEW j \in 1..Len(rest), i < j
               PROVE  rest[i] < rest[j]
    BY DEF Increasing
  <2>1. /\ n + i \in 1..Len(u) /\ n + j \in 1..Len(u) /\ n + i < n + j
        /\ rest[i] = u[n + i] /\ rest[j] = u[n + j]
    BY <1>1, <1>3, <1>4
  <2> QED
    BY <2>1 DEF Increasing
<1>7. Below(first, rest)
  <2> SUFFICES ASSUME NEW i \in 1..Len(first), NEW j \in 1..Len(rest)
               PROVE  first[i] < rest[j]
    BY DEF Below
  <2>1. i < n + j
    BY <1>4, <1>2, <1>3
  <2> QED
    BY <1>4, <2>1 DEF Increasing
<1> QED
  BY <1>2, <1>3, <1>4, <1>5, <1>6, <1>7 DEF first, rest

Bytes == 1..MaxBytes

\* Later bytes may follow earlier ones.
LEMMA JoinOrdered ==
  ASSUME NEW s \in Seq(Bytes), NEW t \in Seq(Bytes),
         Increasing(s), Increasing(t), Below(s, t)
  PROVE  /\ Increasing(s \o t)
         /\ \A i \in 1..Len(s \o t) : \/ \E k \in 1..Len(s) : (s \o t)[i] = s[k]
                                      \/ \E k \in 1..Len(t) : (s \o t)[i] = t[k]
<1> DEFINE st == s \o t
<1>1. /\ st \in Seq(Bytes) /\ Len(st) = Len(s) + Len(t) /\ Len(s) \in Nat /\ Len(t) \in Nat
      /\ \A i \in 1..Len(s) : st[i] = s[i]
      /\ \A i \in 1..Len(st) : i > Len(s) => i - Len(s) \in 1..Len(t) /\ st[i] = t[i - Len(s)]
  OBVIOUS
<1> HIDE DEF st
<1>2. ASSUME NEW i \in 1..Len(st), NEW j \in 1..Len(st), i < j PROVE st[i] < st[j]
  <2>1. CASE j <= Len(s)
    <3>1. i \in 1..Len(s) /\ j \in 1..Len(s)
      BY <1>1, <1>2, <2>1
    <3> QED
      BY <1>1, <1>2, <3>1 DEF Increasing
  <2>2. CASE i <= Len(s) /\ j > Len(s)
    <3>0. i \in 1..Len(st) /\ j \in 1..Len(st)
      BY <1>2
    <3>1. i \in 1..Len(s) /\ j - Len(s) \in 1..Len(t) /\ st[j] = t[j - Len(s)]
      <4>1. i \in 1..Len(s)
        BY <1>1, <2>2, <3>0
      <4>2. j - Len(s) \in 1..Len(t) /\ st[j] = t[j - Len(s)]
        BY <1>1, <2>2, <3>0
      <4> QED
        BY <4>1, <4>2
    <3> QED
      BY <1>1, <3>1 DEF Below
  <2>3. CASE i > Len(s)
    <3>1. /\ i - Len(s) \in 1..Len(t) /\ j - Len(s) \in 1..Len(t)
          /\ st[i] = t[i - Len(s)] /\ st[j] = t[j - Len(s)] /\ i - Len(s) < j - Len(s)
      BY <1>1, <1>2, <2>3
    <3> QED
      BY <3>1 DEF Increasing
  <2> QED
    BY <1>1, <2>1, <2>2, <2>3
<1>3. Increasing(st)
  BY <1>2 DEF Increasing
<1>4. \A i \in 1..Len(st) : i \in 1..Len(s) \/ i > Len(s)
  BY <1>1
<1> QED
  BY <1>1, <1>3, <1>4 DEF st

\* Bytes lie in the driver, in the bridge's buffer and in what was teed, in the
\* order in which the target sent them, and the bridge's buffer is empty while a
\* command waits.
ConsoleInv ==
  /\ Increasing(unread) /\ Increasing(held) /\ Below(held, unread)
  /\ \A l \in Links : Increasing(tee[l]) /\ Below(tee[l], held) /\ Below(tee[l], unread)
  /\ \A i \in 1..Len(unread) : unread[i] <= arrived
  /\ \A i \in 1..Len(held) : held[i] <= arrived
  /\ \A l \in Links : \A i \in 1..Len(tee[l]) : tee[l][i] <= arrived
  /\ held = <<>> \/ \A l \in Links : pulse[l] = NoPulse

\* No byte has been sent yet.
LEMMA InitConsole == Init => ConsoleInv
  BY DEF Init, ConsoleInv, Increasing, Below

\* What the console's order rests on stays when no byte moves.
LEMMA ConsoleSame ==
  ASSUME ConsoleInv, UNCHANGED <<unread, held, tee, arrived>>,
         held = <<>> \/ \A l \in Links : pulse'[l] = NoPulse
  PROVE  ConsoleInv'
BY DEF ConsoleInv, Below, Increasing

\* A command begins with the bridge's buffer empty.
LEMMA ConsoleDispatch ==
  ASSUME ~Threaded, TypeOK, ConsoleInv, NEW l \in Links, Dispatch(l)
  PROVE  ConsoleInv'
<1> USE DeviceAssumption
<1>1. CASE Reboot(l)
  <2>1. /\ unread' = <<>> /\ held' = <<>> /\ tee' = tee /\ arrived' = arrived
    BY <1>1 DEF Reboot
  <2> QED
    BY <2>1 DEF ConsoleInv, Increasing, Below
<1>2. CASE UNCHANGED consVars
  <2>1. held = <<>>
    BY DEF Dispatch, Refuse, Greet, BadIndex, NoHook, Describe, HalCall, DataIn, Auth,
           AuthSet, ProtoSet, OutSet, OutToggle, OutPulse, Reboot, Admitted, Command, Free,
           SameTask
  <2> QED
    BY <1>2, <2>1, ConsoleSame DEF consVars
<1> QED
  BY <1>1, <1>2
  DEF Dispatch, Refuse, Greet, BadIndex, NoHook, Describe, HalCall, DataIn, Auth,
      AuthSet, ProtoSet, OutSet, OutToggle, OutPulse

\* The target's byte is the latest.
LEMMA ConsoleArrive ==
  ASSUME TypeOK, ConsoleInv, Arrive
  PROVE  ConsoleInv'
<1>0. /\ arrived \in Nat /\ unread \in Seq(1..MaxBytes)
      /\ held \in Seq(1..MaxBytes) /\ \A l \in Links : tee[l] \in Seq(1..MaxBytes)
      /\ arrived' = arrived + 1 /\ unread' = Append(unread, arrived + 1)
      /\ UNCHANGED <<held, tee, pulse>>
  BY DeviceAssumption DEF TypeOK, Arrive, outVars
<1>1. /\ Len(unread) \in Nat /\ Len(unread') = Len(unread) + 1
      /\ \A i \in 1..Len(unread) : unread'[i] = unread[i]
      /\ unread'[Len(unread) + 1] = arrived + 1
  BY <1>0
<1>2. \A i \in 1..Len(unread') : i \in 1..Len(unread) \/ i = Len(unread) + 1
  BY <1>1
<1>3. \A k \in 1..MaxBytes : k <= arrived => k < arrived + 1 /\ k <= arrived + 1
  BY <1>0
<1>4. /\ \A i \in 1..Len(unread) : unread[i] \in 1..MaxBytes /\ unread[i] <= arrived
      /\ \A i \in 1..Len(held) : held[i] \in 1..MaxBytes /\ held[i] <= arrived
      /\ \A l \in Links : \A i \in 1..Len(tee[l]) :
            tee[l][i] \in 1..MaxBytes /\ tee[l][i] <= arrived
  <2>1. /\ \A i \in 1..Len(unread) : unread[i] \in 1..MaxBytes
        /\ \A i \in 1..Len(held) : held[i] \in 1..MaxBytes
    BY <1>0, ElementOfSeq
  <2>2. ASSUME NEW l \in Links, NEW i \in 1..Len(tee[l]) PROVE tee[l][i] \in 1..MaxBytes
    BY <1>0, <2>2, ElementOfSeq
  <2> QED
    BY <2>1, <2>2 DEF ConsoleInv
<1>5. Increasing(unread')
  <2> SUFFICES ASSUME NEW i \in 1..Len(unread'), NEW j \in 1..Len(unread'), i < j
               PROVE  unread'[i] < unread'[j]
    BY DEF Increasing
  <2>1. i \in 1..Len(unread)
    BY <1>1
  <2>2. CASE j \in 1..Len(unread)
    BY <1>1, <2>1, <2>2 DEF ConsoleInv, Increasing
  <2>3. CASE j = Len(unread) + 1
    BY <1>1, <1>3, <1>4, <2>1, <2>3
  <2> QED
    BY <1>2, <2>2, <2>3
<1>6. Below(held, unread') /\ \A l \in Links : Below(tee[l], unread')
  BY <1>1, <1>2, <1>3, <1>4 DEF ConsoleInv, Below
<1>7. \A i \in 1..Len(unread') : unread'[i] <= arrived + 1
  BY <1>0, <1>1, <1>2, <1>3, <1>4
<1> QED
  BY <1>0, <1>3, <1>4, <1>5, <1>6, <1>7 DEF ConsoleInv

\* The parts of a sequence are below what it is below, and above what it is above.
LEMMA PartBelow ==
  ASSUME NEW s, NEW t, NEW p, \A i \in 1..Len(p) : \E k \in 1..Len(t) : p[i] = t[k]
  PROVE  (Below(s, t) => Below(s, p)) /\ (Below(t, s) => Below(p, s))
BY DEF Below

\* The bridge reads while no command waits.
LEMMA ConsoleRead ==
  ASSUME ~Threaded, TypeOK, ConsoleInv, NEW n \in 1..MaxBytes, BridgeRead(n)
  PROVE  ConsoleInv'
<1> USE DeviceAssumption
<1>0. /\ unread \in Seq(1..MaxBytes) /\ n \in 1..Len(unread)
      /\ held' = SubSeq(unread, 1, n) /\ unread' = SubSeq(unread, n + 1, Len(unread))
      /\ UNCHANGED <<tee, arrived, pulse>>
      /\ \A l \in Links : pulse[l] = NoPulse
  BY DEF TypeOK, BridgeRead, DataRead, outVars, Free, SameTask
<1>1. /\ Increasing(held') /\ Increasing(unread') /\ Below(held', unread')
      /\ \A i \in 1..Len(held') : \E k \in 1..Len(unread) : held'[i] = unread[k]
      /\ \A i \in 1..Len(unread') : \E k \in 1..Len(unread) : unread'[i] = unread[k]
  BY <1>0, ReadSplits DEF ConsoleInv
<1>2. \A l \in Links : Below(tee[l], held') /\ Below(tee[l], unread')
  BY <1>1, PartBelow DEF ConsoleInv
<1> QED
  BY <1>0, <1>1, <1>2 DEF ConsoleInv

\* Each link gets what the bridge holds after what it has.
LEMMA ConsoleFeed ==
  ASSUME TypeOK, ConsoleInv, BridgeFeed
  PROVE  ConsoleInv'
<1>0. /\ held' = <<>> /\ UNCHANGED <<unread, arrived, pulse>>
      /\ held \in Seq(1..MaxBytes) /\ \A l \in Links : tee[l] \in Seq(1..MaxBytes)
  BY DEF BridgeFeed, TypeOK, outVars
<1>1. \A l \in Links : tee'[l] = tee[l] \/ tee'[l] = tee[l] \o held
  BY DEF BridgeFeed, Feed
<1>2. ASSUME NEW l \in Links
      PROVE  /\ Increasing(tee'[l])
             /\ \A i \in 1..Len(tee'[l]) : \/ \E k \in 1..Len(tee[l]) : tee'[l][i] = tee[l][k]
                                           \/ \E k \in 1..Len(held) : tee'[l][i] = held[k]
  <2>1. Increasing(tee[l]) /\ Increasing(held) /\ Below(tee[l], held)
    BY DEF ConsoleInv
  <2>2. tee[l] \in Seq(Bytes) /\ held \in Seq(Bytes)
    BY <1>0 DEF Bytes
  <2>3. CASE tee'[l] = tee[l]
    BY <2>1, <2>3
  <2>4. CASE tee'[l] = tee[l] \o held
    <3>1. LET t == tee[l] \o held IN
          /\ Increasing(t)
          /\ \A i \in 1..Len(t) : \/ \E k \in 1..Len(tee[l]) : t[i] = tee[l][k]
                                  \/ \E k \in 1..Len(held) : t[i] = held[k]
      BY <2>1, <2>2, JoinOrdered
    <3> QED
      BY <2>4, <3>1
  <2> QED
    BY <1>1, <2>3, <2>4
<1>3. \A l \in Links : Below(tee'[l], unread) /\ \A i \in 1..Len(tee'[l]) : tee'[l][i] <= arrived
  <2> SUFFICES ASSUME NEW l \in Links
               PROVE  Below(tee'[l], unread) /\ \A i \in 1..Len(tee'[l]) : tee'[l][i] <= arrived
    OBVIOUS
  <2>1. /\ Below(tee[l], unread) /\ Below(held, unread)
        /\ (\A i \in 1..Len(tee[l]) : tee[l][i] <= arrived)
        /\ \A i \in 1..Len(held) : held[i] <= arrived
    BY DEF ConsoleInv
  <2>2. Below(tee'[l], unread)
    BY <1>2, <2>1 DEF Below
  <2>3. ASSUME NEW i \in 1..Len(tee'[l]) PROVE tee'[l][i] <= arrived
    BY <1>2, <2>1
  <2> QED
    BY <2>2, <2>3
<1> QED
  BY <1>0, <1>2, <1>3 DEF ConsoleInv, Increasing, Below

\* A command that waits reads with the bridge's buffer empty.
LEMMA ConsoleWait ==
  ASSUME TypeOK, ConsoleInv, NEW m \in Links, NEW n \in 1..MaxBytes, WaitPoll(m, n)
  PROVE  ConsoleInv'
<1> DEFINE first == SubSeq(unread, 1, n)
<1>0. /\ unread \in Seq(1..MaxBytes) /\ n \in 1..Len(unread)
      /\ unread' = SubSeq(unread, n + 1, Len(unread))
      /\ UNCHANGED <<held, arrived, pulse>> /\ held = <<>>
      /\ \A l \in Links : tee[l] \in Seq(1..MaxBytes)
  BY DEF TypeOK, WaitPoll, DataRead, outVars, ConsoleInv
<1>1. /\ first \in Seq(1..MaxBytes) /\ Increasing(first) /\ Increasing(unread')
      /\ Below(first, unread')
      /\ \A i \in 1..Len(first) : \E k \in 1..Len(unread) : first[i] = unread[k]
      /\ \A i \in 1..Len(unread') : \E k \in 1..Len(unread) : unread'[i] = unread[k]
  <2>1. Increasing(unread)
    BY DEF ConsoleInv
  <2>2. first \in Seq(1..MaxBytes)
    BY ReadTypes DEF WaitPoll
  <2> QED
    BY <1>0, <2>1, <2>2, ReadSplits
<1>2. \A l \in Links : tee'[l] = tee[l] \/ tee'[l] = tee[l] \o first
  BY DEF WaitPoll, Feed
<1> HIDE DEF first
<1>3. \A l \in Links : Below(tee[l], first) /\ Below(tee[l], unread')
  BY <1>1, PartBelow DEF ConsoleInv
<1>4. ASSUME NEW l \in Links
      PROVE  /\ Increasing(tee'[l])
             /\ \A i \in 1..Len(tee'[l]) : \/ \E k \in 1..Len(tee[l]) : tee'[l][i] = tee[l][k]
                                           \/ \E k \in 1..Len(first) : tee'[l][i] = first[k]
  <2>1. Increasing(tee[l]) /\ Below(tee[l], first)
    BY <1>3 DEF ConsoleInv
  <2>2. tee[l] \in Seq(Bytes) /\ first \in Seq(Bytes) /\ Increasing(first)
    BY <1>0, <1>1 DEF Bytes
  <2>3. CASE tee'[l] = tee[l]
    BY <2>1, <2>3
  <2>4. CASE tee'[l] = tee[l] \o first
    <3>1. LET t == tee[l] \o first IN
          /\ Increasing(t)
          /\ \A i \in 1..Len(t) : \/ \E k \in 1..Len(tee[l]) : t[i] = tee[l][k]
                                  \/ \E k \in 1..Len(first) : t[i] = first[k]
      BY <2>1, <2>2, JoinOrdered
    <3> QED
      BY <2>4, <3>1
  <2> QED
    BY <1>2, <2>3, <2>4
<1>5. ASSUME NEW l \in Links
      PROVE  Below(tee'[l], unread') /\ \A i \in 1..Len(tee'[l]) : tee'[l][i] <= arrived
  <2>1. \A i \in 1..Len(first) : first[i] <= arrived
    BY <1>1 DEF ConsoleInv
  <2>2. \A i \in 1..Len(tee[l]) : tee[l][i] <= arrived
    BY DEF ConsoleInv
  <2>3. \A i \in 1..Len(tee'[l]) : tee'[l][i] <= arrived
    BY <1>4, <2>1, <2>2
  <2>4. Below(tee[l], unread') /\ Below(first, unread')
    BY <1>1, <1>3
  <2>5. Below(tee'[l], unread')
    BY <1>4, <2>4, ZenonT(20) DEF Below
  <2> QED
    BY <2>3, <2>5
<1>6. \A i \in 1..Len(unread') : unread'[i] <= arrived
  BY <1>1 DEF ConsoleInv
<1>7. /\ held' = <<>> /\ arrived' = arrived
      /\ Increasing(held') /\ Below(held', unread')
      /\ \A l \in Links : Below(tee'[l], held')
      /\ \A i \in 1..Len(held') : held'[i] <= arrived'
  BY <1>0 DEF Increasing, Below
<1> QED
  BY <1>1, <1>4, <1>5, <1>6, <1>7 DEF ConsoleInv

\* In the Arduino loop every host gets the console bytes in the order the target
\* sent them and none twice, though a command that waits reads for its own link
\* and the bridge for all (skrit__wait, the bridge of main.cpp).
THEOREM LoopTeesInOrder ==
  ASSUME ~Threaded
  PROVE  Spec => []TeeInOrder
<1>1. TypeOK /\ ConsoleInv /\ [Next]_vars => ConsoleInv'
  <2> SUFFICES ASSUME TypeOK, ConsoleInv, [Next]_vars PROVE ConsoleInv'
    OBVIOUS
  <2>1. ASSUME NEW l \in Links, Connect(l) PROVE ConsoleInv'
    BY <2>1, ConsoleSame DEF Connect, consVars, outVars, ConsoleInv
  <2>2. ASSUME NEW l \in Links, PulseEnd(l) PROVE ConsoleInv'
    <3>1. UNCHANGED <<unread, held, tee, arrived>> /\ held = <<>>
      BY <2>2 DEF PulseEnd, consVars, ConsoleInv
    <3> QED
      BY <3>1, ConsoleSame
  <2>3. CASE UNCHANGED vars
    BY <2>3, ConsoleSame DEF vars, consVars, outVars, ConsoleInv
  <2> QED
    BY <2>1, <2>2, <2>3, ConsoleDispatch, ConsoleArrive, ConsoleRead, ConsoleFeed, ConsoleWait
       DEF Next, Console
<1>2. TypeOK /\ ConsoleInv => TeeInOrder
  <2> SUFFICES ASSUME TypeOK, ConsoleInv PROVE TeeInOrder
    OBVIOUS
  <2>1. \A l \in Links : DOMAIN tee[l] = 1..Len(tee[l])
    BY DEF TypeOK
  <2> QED
    BY <2>1 DEF ConsoleInv, Increasing, TeeInOrder
<1> QED
  BY <1>1, <1>2, InitConsole, TypeCorrect, PTL DEF Spec

-----------------------------------------------------------------------------
(***************************************************************************)
(* The table-driven output driver: the pins follow the latches in every    *)
(* table that hosts may store, an accepted table is there after a restart, *)
(* and a pulse restores the pins.                                          *)
(***************************************************************************)

OneRow == [type : Kinds, pin : Pins, low : BOOLEAN, name : Nat]

\* A table whose rows may be driven: each in a role of the menu or its own, the
\* pixels where they are wired.
RowFine(row) == KeepsDefaultRole(row) \/ RowOk(row)
TableFine(t) ==
  /\ t \in Table(Kinds) /\ Len(t) <= MaxRows
  /\ \A i \in 1..Len(t) : RowFine(t[i])

\* Row i of the table is the only one on its pin.
Alone(t, i) == \A j \in 1..Len(t) : t[j].pin = t[i].pin => j = i

\* The pin of row i shows what its latch says.
ShowsAt(b, t, r, i) ==
  Alone(t, i) =>
    /\ t[i].type = "io" => b.pin[t[i].pin] = Level(t[i], b.on[i])
    /\ (t[i].type = "pwm" /\ t[i].pin \in b.ledc) =>
         b.pin[t[i].pin] = Scaled(t[i], b.duty[i], r)

\* What the rows other than i show at a resolution they show after a step to c too.
Undisturbed(b, c, t, i) ==
  \A q : \A j \in 1..Len(t) : j # i /\ ShowsAt(b, t, q, j) => ShowsAt(c, t, q, j)

\* A PWM row is written from its latch.
IsPwm(t, i) == t[i].type = "pwm"
Written(b, t, i, r) == WritePwm(b, t[i], b.duty[i], r)

\* Both latches of row i are set.
Latched(b, i, d, v) == [b EXCEPT !.duty[i] = d, !.on[i] = v]

\* What a row shows it shows after a step to c.
StillShows(b, c, t, r) == \A j \in 1..Len(t) : ShowsAt(b, t, r, j) => ShowsAt(c, t, r, j)

Shows(b, t, r) == \A i \in 1..Len(t) : ShowsAt(b, t, r, i)

\* What is stored was checked; unless a reset failed, it is what was promised.
StoreInv ==
  /\ store # NoTable => Len(store) = 1 /\ TableFine(store[1])
  /\ wiped \/ store = Stored(promised) \/ (store = NoTable /\ promised = Compiled)

TableInv == IoTypeOK /\ TableFine(tbl) /\ StoreInv /\ Shows(io, tbl, res)

-----------------------------------------------------------------------------
(* Numbers                                                                 *)

\* A resolution has a top, and it is positive.
LEMMA Powers == ASSUME NEW r \in 1..16 PROVE 2^r \in Nat \ {0}
<1>1. r = 1 => 2^r = 2
  OBVIOUS
<1>2. r = 2 => 2^r = 4
  OBVIOUS
<1>3. r = 3 => 2^r = 8
  OBVIOUS
<1>4. r = 4 => 2^r = 16
  OBVIOUS
<1>5. r = 5 => 2^r = 32
  OBVIOUS
<1>6. r = 6 => 2^r = 64
  OBVIOUS
<1>7. r = 7 => 2^r = 128
  OBVIOUS
<1>8. r = 8 => 2^r = 256
  OBVIOUS
<1>9. r = 9 => 2^r = 512
  OBVIOUS
<1>10. r = 10 => 2^r = 1024
  OBVIOUS
<1>11. r = 11 => 2^r = 2048
  OBVIOUS
<1>12. r = 12 => 2^r = 4096
  OBVIOUS
<1>13. r = 13 => 2^r = 8192
  OBVIOUS
<1>14. r = 14 => 2^r = 16384
  OBVIOUS
<1>15. r = 15 => 2^r = 32768
  OBVIOUS
<1>16. r = 16 => 2^r = 65536
  OBVIOUS
<1>17. \/ r = 1 \/ r = 2 \/ r = 3 \/ r = 4 \/ r = 5 \/ r = 6 \/ r = 7 \/ r = 8
       \/ r = 9 \/ r = 10 \/ r = 11 \/ r = 12 \/ r = 13 \/ r = 14 \/ r = 15 \/ r = 16
  OBVIOUS
<1> QED
  BY <1>1, <1>2, <1>3, <1>4, <1>5, <1>6, <1>7, <1>8, <1>9, <1>10, <1>11, <1>12,
     <1>13, <1>14, <1>15, <1>16, <1>17

\* A duty, rescaled, fits the resolution.
LEMMA ScaledFits ==
  ASSUME NEW row \in OneRow, NEW d \in 0..PwmMax, NEW r \in 1..16
  PROVE  Scaled(row, d, r) \in Nat
<1>0. PwmMax \in Nat \ {0} /\ d \in Nat /\ d <= PwmMax
  BY TableAssumption
<1>1. PICK t : t = Top(r)
  OBVIOUS
<1>2. t \in Nat
  <2>1. 2^r \in Nat \ {0}
    BY Powers
  <2>2. PICK p : p = 2^r
    OBVIOUS
  <2> QED
    BY <1>1, <2>1, <2>2 DEF Top
<1>3. d * t \in Nat /\ d * t <= PwmMax * t
  BY <1>0, <1>2
<1>4. PICK x : x = d * t
  OBVIOUS
<1>5. (x \div PwmMax) \in Nat /\ PwmMax * (x \div PwmMax) <= x
  BY <1>0, <1>3, <1>4
<1>6. (x \div PwmMax) <= t
  BY <1>0, <1>2, <1>3, <1>4, <1>5
<1> QED
  BY <1>1, <1>2, <1>4, <1>5, <1>6 DEF Scaled

-----------------------------------------------------------------------------
(* Writing to the pins                                                     *)

\* The rows of a table.
LEMMA RowsOf ==
  ASSUME NEW t, TableFine(t)
  PROVE  /\ Len(t) \in Nat /\ Len(t) <= MaxRows
         /\ \A j \in 1..Len(t) : /\ t[j] \in OneRow /\ j \in 1..MaxRows
                                 /\ t[j].pin \in Pins /\ t[j].low \in BOOLEAN
                                 /\ t[j].type \in Kinds
<1>1. t \in Seq(OneRow) /\ Len(t) <= MaxRows /\ Len(t) \in Nat
  BY LenProperties DEF TableFine, Table, OneRow
<1>2. \A j \in 1..Len(t) : t[j] \in OneRow
  BY <1>1, ElementOfSeq
<1>3. \A x \in OneRow : x.pin \in Pins /\ x.low \in BOOLEAN /\ x.type \in Kinds
  BY DEF OneRow
<1>4. \A j \in 1..Len(t) : j \in 1..MaxRows
  BY <1>1, TableAssumption
<1> QED
  BY <1>1, <1>2, <1>3, <1>4

\* What the type of the board says of its parts.
LEMMA BoardParts ==
  ASSUME NEW b \in Board
  PROVE  /\ b.duty \in [1..MaxRows -> 0..PwmMax] /\ b.on \in [1..MaxRows -> {0, 1}]
         /\ b.pin \in [Pins -> Nat] /\ b.ledc \in SUBSET Pins
  BY DEF Board

\* A board is a record of those parts.
LEMMA BoardIs ==
  ASSUME NEW b \in Board
  PROVE  \E d, o, p, l : b = [duty |-> d, on |-> o, pin |-> p, ledc |-> l]
<1>1. b = [duty |-> b.duty, on |-> b.on, pin |-> b.pin, ledc |-> b.ledc]
  BY DEF Board
<1> QED
  BY <1>1

\* A digital row is driven: it shows its latch, and no other row is disturbed.
LEMMA DigitalShows ==
  ASSUME NEW b \in Board, NEW t, TableFine(t), NEW r, NEW i \in 1..Len(t),
         NEW v \in {0, 1}, NEW c, c = WriteDigital([b EXCEPT !.on[i] = v], t[i], v),
         t[i].type # "pwm"
  PROVE  /\ c \in Board /\ ShowsAt(c, t, r, i)
         /\ \A j \in 1..Len(t) : ShowsAt(b, t, r, j) => ShowsAt(c, t, r, j)
<1>0. /\ t[i] \in OneRow /\ i \in 1..MaxRows /\ MaxRows \in Nat
      /\ t[i].pin \in Pins /\ t[i].low \in BOOLEAN
      /\ \A j \in 1..Len(t) : t[j] \in OneRow /\ t[j].pin \in Pins /\ j \in 1..MaxRows
  BY RowsOf, TableAssumption
<1>1. Level(t[i], v) \in {0, 1}
  BY DEF Level
<1>2. c = [duty |-> b.duty, on |-> [b.on EXCEPT ![i] = v],
           pin |-> [b.pin EXCEPT ![t[i].pin] = Level(t[i], v)], ledc |-> b.ledc]
  <2>1. PICK d, o, p, l : b = [duty |-> d, on |-> o, pin |-> p, ledc |-> l]
    BY BoardIs
  <2>2. [b EXCEPT !.on[i] = v] = [duty |-> d, on |-> [o EXCEPT ![i] = v], pin |-> p, ledc |-> l]
    BY <2>1
  <2> QED
    BY <2>1, <2>2 DEF WriteDigital
<1>3. /\ c.duty = b.duty /\ c.ledc = b.ledc /\ c.on = [b.on EXCEPT ![i] = v]
      /\ c.pin = [b.pin EXCEPT ![t[i].pin] = Level(t[i], v)]
  BY <1>2
<1>4. c \in Board
  <2>1. /\ [b.on EXCEPT ![i] = v] \in [1..MaxRows -> {0, 1}]
        /\ [b.pin EXCEPT ![t[i].pin] = Level(t[i], v)] \in [Pins -> Nat]
    BY <1>0, <1>1, BoardParts
  <2> QED
    BY <1>2, <2>1, BoardParts DEF Board
<1>5. ShowsAt(c, t, r, i)
  BY <1>0, <1>3, BoardParts DEF ShowsAt
<1>6. ASSUME NEW j \in 1..Len(t), ShowsAt(b, t, r, j), j # i PROVE ShowsAt(c, t, r, j)
  <2>1. CASE t[j].pin = t[i].pin
    BY <1>6, <2>1 DEF ShowsAt, Alone
  <2>2. CASE t[j].pin # t[i].pin
    <3>1. c.on[j] = b.on[j] /\ c.pin[t[j].pin] = b.pin[t[j].pin]
      BY <1>0, <1>3, <1>6, <2>2, BoardParts
    <3> QED
      BY <1>3, <1>6, <3>1 DEF ShowsAt
  <2> QED
    BY <2>1, <2>2
<1> QED
  BY <1>3, <1>4, <1>5, <1>6

\* The latches of row i change: no other row is disturbed.
LEMMA LatchKeeps ==
  ASSUME NEW b \in Board, NEW t, TableFine(t), NEW i \in 1..Len(t),
         NEW d \in 0..PwmMax, NEW v \in {0, 1}, NEW c, c = Latched(b, i, d, v)
  PROVE  /\ c \in Board /\ c.ledc = b.ledc /\ c.pin = b.pin
         /\ c.duty[i] = d /\ c.on[i] = v
         /\ Undisturbed(b, c, t, i)
<1>0. /\ \A j \in 1..Len(t) : j \in 1..MaxRows
  BY RowsOf
<1>1. PICK du, o, pi, l : b = [duty |-> du, on |-> o, pin |-> pi, ledc |-> l]
  BY BoardIs
<1>2. /\ du \in [1..MaxRows -> 0..PwmMax] /\ o \in [1..MaxRows -> {0, 1}]
      /\ pi \in [Pins -> Nat] /\ l \in SUBSET Pins
  BY <1>1, BoardParts
<1>3. PICK x : x = [b EXCEPT !.duty[i] = d]
  OBVIOUS
<1>4. x = [duty |-> [du EXCEPT ![i] = d], on |-> o, pin |-> pi, ledc |-> l]
  BY <1>1, <1>3
<1>5. c = [x EXCEPT !.on[i] = v]
  BY <1>3 DEF Latched
<1>6. c = [duty |-> [du EXCEPT ![i] = d], on |-> [o EXCEPT ![i] = v], pin |-> pi, ledc |-> l]
  BY <1>4, <1>5
<1>7. /\ c.duty = [du EXCEPT ![i] = d] /\ c.on = [o EXCEPT ![i] = v] /\ c.pin = pi /\ c.ledc = l
  BY <1>6
<1>8. /\ [du EXCEPT ![i] = d] \in [1..MaxRows -> 0..PwmMax]
      /\ [o EXCEPT ![i] = v] \in [1..MaxRows -> {0, 1}]
  BY <1>0, <1>2
<1>9. c \in Board
  BY <1>2, <1>6, <1>8 DEF Board
<1>10. /\ b.duty = du /\ b.on = o /\ b.pin = pi /\ b.ledc = l
  BY <1>1
<1>11. c.duty[i] = d /\ c.on[i] = v
  BY <1>0, <1>2, <1>7
<1>12. ASSUME NEW q, NEW j \in 1..Len(t), ShowsAt(b, t, q, j), j # i
      PROVE  ShowsAt(c, t, q, j)
  <2>1. c.duty[j] = b.duty[j] /\ c.on[j] = b.on[j]
    BY <1>0, <1>2, <1>7, <1>10, <1>12
  <2> QED
    BY <1>7, <1>10, <1>12, <2>1 DEF ShowsAt
<1> QED
  BY <1>7, <1>9, <1>10, <1>11, <1>12 DEF Undisturbed

\* A PWM row is written from its latch: it shows it, and no other row is disturbed,
\* at whatever resolution those were written.
LEMMA PwmShows ==
  ASSUME NEW b \in Board, NEW t, TableFine(t), NEW r \in 1..16, NEW i \in 1..Len(t),
         IsPwm(t, i), NEW c, c = Written(b, t, i, r)
  PROVE  c \in Board /\ ShowsAt(c, t, r, i) /\ Undisturbed(b, c, t, i)
<1>0. /\ t[i] \in OneRow /\ t[i].pin \in Pins
      /\ \A j \in 1..Len(t) : t[j].pin \in Pins /\ j \in 1..MaxRows
  BY RowsOf
<1>1. Scaled(t[i], b.duty[i], r) \in Nat
  BY <1>0, ScaledFits, BoardParts
<1>2. PICK p : p = IF t[i].pin \in b.ledc
                   THEN [b.pin EXCEPT ![t[i].pin] = Scaled(t[i], b.duty[i], r)] ELSE b.pin
  OBVIOUS
<1>3. c = [duty |-> b.duty, on |-> b.on, pin |-> p, ledc |-> b.ledc]
  <2>1. PICK du, o, pi, l : b = [duty |-> du, on |-> o, pin |-> pi, ledc |-> l]
    BY BoardIs
  <2> QED
    BY <1>2, <2>1 DEF WritePwm, Written
<1>4. c.duty = b.duty /\ c.ledc = b.ledc /\ c.on = b.on /\ c.pin = p
  BY <1>3
<1>5. p \in [Pins -> Nat]
  BY <1>0, <1>1, <1>2, BoardParts
<1>6. c \in Board
  BY <1>3, <1>5, BoardParts DEF Board
<1>7. ShowsAt(c, t, r, i)
  BY <1>0, <1>2, <1>4, BoardParts DEF ShowsAt, IsPwm
<1>8. ASSUME NEW q, NEW j \in 1..Len(t), ShowsAt(b, t, q, j), j # i
      PROVE  ShowsAt(c, t, q, j)
  <2>1. CASE t[j].pin = t[i].pin
    BY <1>8, <2>1 DEF ShowsAt, Alone
  <2>2. CASE t[j].pin # t[i].pin
    <3>1. c.pin[t[j].pin] = b.pin[t[j].pin]
      BY <1>0, <1>2, <1>4, <1>8, <2>2, BoardParts
    <3> QED
      BY <1>4, <1>8, <3>1 DEF ShowsAt
  <2> QED
    BY <2>1, <2>2
<1> QED
  BY <1>4, <1>6, <1>7, <1>8 DEF Undisturbed

\* The pixels are written: they are alone on their pin, or no row is.
LEMMA PixelsShow ==
  ASSUME NEW b \in Board, NEW t, TableFine(t), NEW r, NEW i \in 1..Len(t),
         NEW x \in Nat, t[i].type = "rgb", NEW c, c = [b EXCEPT !.pin[RgbPin] = x]
  PROVE  c \in Board /\ StillShows(b, c, t, r)
<1>0. /\ t[i] \in OneRow /\ RgbPin \in Pins
      /\ \A j \in 1..Len(t) : t[j] \in OneRow /\ t[j].pin \in Pins
  BY RowsOf, TableAssumption
<1>1. t[i].pin = RgbPin
  <2>1. CASE KeepsDefaultRole(t[i])
    BY <2>1, BoardAssumption DEF KeepsDefaultRole
  <2>2. CASE ~KeepsDefaultRole(t[i])
    BY <2>2 DEF TableFine, RowFine, RowOk
  <2> QED
    BY <2>1, <2>2
<1>2. c = [duty |-> b.duty, on |-> b.on, pin |-> [b.pin EXCEPT ![RgbPin] = x], ledc |-> b.ledc]
  <2>1. PICK d, o, p, l : b = [duty |-> d, on |-> o, pin |-> p, ledc |-> l]
    BY BoardIs
  <2> QED
    BY <2>1
<1>3. c.duty = b.duty /\ c.ledc = b.ledc /\ c.on = b.on /\ c.pin = [b.pin EXCEPT ![RgbPin] = x]
  BY <1>2, BoardParts
<1>4. c \in Board
  <2>1. [b.pin EXCEPT ![RgbPin] = x] \in [Pins -> Nat]
    BY <1>0, BoardParts
  <2> QED
    BY <1>2, <2>1, BoardParts DEF Board
<1>5. ASSUME NEW j \in 1..Len(t), ShowsAt(b, t, r, j) PROVE ShowsAt(c, t, r, j)
  <2>1. CASE j = i
    BY <2>1 DEF ShowsAt
  <2>2. CASE j # i /\ t[j].pin = t[i].pin
    BY <1>5, <2>2 DEF ShowsAt, Alone
  <2>3. CASE t[j].pin # t[i].pin
    <3>1. c.pin[t[j].pin] = b.pin[t[j].pin]
      BY <1>0, <1>1, <1>3, <2>3, BoardParts
    <3> QED
      BY <1>3, <1>5, <3>1 DEF ShowsAt
  <2> QED
    BY <2>1, <2>2, <2>3
<1> QED
  BY <1>4, <1>5 DEF StillShows

\* duta_io_out_set: the row it is about shows its latch, and no other is disturbed.
LEMMA OutSetShows ==
  ASSUME NEW b \in Board, NEW t, TableFine(t), NEW r \in 1..16, NEW i \in 1..Len(t),
         NEW v \in {0, 1}, NEW c, c = IoOutSet(b, t, i, v, r)
  PROVE  /\ c \in Board /\ ShowsAt(c, t, r, i)
         /\ StillShows(b, c, t, r)
<1>0. t[i].type \in {"io", "pwm", "rgb"} /\ PwmMax \in Nat \ {0} /\ White \in Nat
  BY RowsOf, TableAssumption DEF Kinds
<1>1. CASE t[i].type = "pwm"
  <2>1. PICK d : d = IF v = 1 THEN PwmMax ELSE 0
    OBVIOUS
  <2>2. d \in 0..PwmMax
    BY <1>0, <2>1
  <2>3. PICK x : x = Latched(b, i, d, v)
    OBVIOUS
  <2>4. x \in Board /\ x.ledc = b.ledc /\ x.duty[i] = d /\ Undisturbed(b, x, t, i)
    BY <2>2, <2>3, LatchKeeps
  <2>5. c = Written(x, t, i, r) /\ IsPwm(t, i)
    BY <1>1, <2>1, <2>3, <2>4 DEF IoOutSet, Latched, Written, IsPwm
  <2>6. x \in Board /\ IsPwm(t, i) /\ c = Written(x, t, i, r)
    BY <2>4, <2>5
  <2>7. c \in Board
    BY <2>6, PwmShows
  <2>8. ShowsAt(c, t, r, i)
    BY <2>6, PwmShows
  <2>9. Undisturbed(x, c, t, i)
    BY <2>6, PwmShows
  <2> QED
    BY <2>4, <2>7, <2>8, <2>9 DEF Undisturbed, StillShows
<1>2. CASE t[i].type = "rgb"
  <2>1. PICK x : x = IF v = 1 THEN White ELSE 0
    OBVIOUS
  <2>2. c = [b EXCEPT !.pin[RgbPin] = x] /\ x \in Nat
    BY <1>0, <1>2, <2>1 DEF IoOutSet
  <2>3. c \in Board /\ StillShows(b, c, t, r)
    BY <1>2, <2>2, PixelsShow
  <2>4. ShowsAt(c, t, r, i)
    BY <1>2 DEF ShowsAt
  <2> QED
    BY <2>3, <2>4
<1>3. CASE t[i].type = "io"
  <2>1. c = WriteDigital([b EXCEPT !.on[i] = v], t[i], v)
    BY <1>3 DEF IoOutSet
  <2> QED
    BY <1>3, <2>1, DigitalShows DEF StillShows
<1> QED
  BY <1>0, <1>1, <1>2, <1>3

\* duta_io_out_get is a bit.
LEMMA OutGetBit ==
  ASSUME NEW b \in Board, NEW t, TableFine(t), NEW i \in 1..Len(t)
  PROVE  OutGet(b, t, i) \in {0, 1} /\ 1 - OutGet(b, t, i) \in {0, 1}
<1>1. t[i].type \in {"io", "pwm", "rgb"} /\ i \in 1..MaxRows
  BY RowsOf DEF Kinds
<1>2. b.on[i] \in {0, 1}
  BY <1>1, BoardParts
<1>3. OutGet(b, t, i) \in {0, 1}
  BY <1>1, <1>2 DEF OutGet
<1> QED
  BY <1>3

-----------------------------------------------------------------------------
(* Passes over the table                                                   *)
(*                                                                         *)
(* The induction theorems of the library have an operator as a parameter;  *)
(* WFMin has a set instead, and from it follows induction for sets.        *)

\* A set of numbers that is not empty has a least one.
LEMMA Least ==
  ASSUME NEW T, T \subseteq Nat, T # {}
  PROVE  \E x \in T : \A y \in T : x <= y
<1> DEFINE R == {z \in Nat \X Nat : z[1] < z[2]}
<1>1. IsWellFoundedOn(R, Nat)
  BY NatLessThanWellFounded DEF OpToRel
<1>2. PICK x \in T : \A y \in T : <<y, x>> \notin R
  <2> HIDE DEF R
  <2> QED
    BY <1>1, WFMin
<1>3. ASSUME NEW y \in T
      PROVE  x <= y
  <2>1. ~(y < x)
    BY <1>2
  <2> QED
    BY <2>1
<1> QED
  BY <1>3

\* Induction over the natural numbers.
LEMMA SetInduction ==
  ASSUME NEW T, 0 \in T, \A n \in Nat : n \in T => n + 1 \in T
  PROVE  \A n \in Nat : n \in T
<1> DEFINE U == {n \in Nat : n \notin T}
<1>1. CASE U = {}
  BY <1>1
<1>2. CASE U # {}
  <2>1. PICK x \in U : \A y \in U : x <= y
    <3>1. U \subseteq Nat
      OBVIOUS
    <3> HIDE DEF U
    <3> QED
      BY <1>2, <3>1, Least
  <2>2. x # 0 /\ x \in Nat
    OBVIOUS
  <2>3. x - 1 \in Nat /\ ~(x <= x - 1) /\ (x - 1) + 1 = x
    BY <2>2
  <2>4. x - 1 \in T
    BY <2>1, <2>3
  <2> QED
    BY <2>2, <2>3, <2>4
<1> QED
  BY <1>1, <1>2

\* The maximum of a set of small numbers is its largest element.
LEMMA MaxOf ==
  ASSUME NEW n \in Nat, NEW s \in SUBSET (1..n), s # {}
  PROVE  Max(s) \in s /\ \A y \in s : y <= Max(s)
<1> DEFINE T == {i \in Nat : n - i \in s}
<1>1. T # {}
  <2>1. PICK y \in s : TRUE
    OBVIOUS
  <2>2. n - y \in Nat /\ n - (n - y) = y
    OBVIOUS
  <2> QED
    BY <2>1, <2>2
<1>2. PICK i \in T : \A j \in T : i <= j
  <2>1. T \subseteq Nat
    OBVIOUS
  <2> HIDE DEF T
  <2> QED
    BY <1>1, <2>1, Least
<1>3. ASSUME NEW y \in s
      PROVE  n - i >= y
  <2>1. n - y \in Nat /\ n - (n - y) = y
    OBVIOUS
  <2>2. i <= n - y
    BY <1>2, <2>1
  <2> QED
    BY <2>2
<1>4. \E x \in s : \A y \in s : x >= y
  BY <1>2, <1>3
<1>5. Max(s) \in s /\ \A y \in s : Max(s) >= y
  BY <1>4 DEF Max
<1> QED
  BY <1>5

\* What the passes over the table do at row i: duta_io_begin turns the output
\* off, duta_io_pwm_config_set writes its duty again, duta_io_load counts the bytes
\* of its name.
OffAt(t, r, b, i)   == IF t[i].type = "rgb" THEN b ELSE IoOutSet(b, t, i, 0, r)
AgainAt(t, r, b, i) == IF t[i].type = "pwm" THEN WritePwm(b, t[i], b.duty[i], r) ELSE b
Pass(kind, t, r, b, i) ==
  CASE kind = "off"   -> OffAt(t, r, b, i)
    [] kind = "again" -> AgainAt(t, r, b, i)
    [] OTHER          -> b + t[i].name + 1

\* f is the result of a pass for every set of the first n rows.
Folded(f, kind, t, r, base, n) ==
  f = [s \in SUBSET (1..n) |->
         IF s = {} THEN base ELSE Pass(kind, t, r, f[s \ {Max(s)}], Max(s))]

\* The recursion of the fold has a solution.
LEMMA FoldExists ==
  ASSUME NEW kind, NEW t, NEW r, NEW base
  PROVE  \A k \in Nat : \E f : Folded(f, kind, t, r, base, k)
<1> DEFINE T == {k \in Nat : \E f : Folded(f, kind, t, r, base, k)}
<1>1. 0 \in T
  <2> DEFINE f == [s \in SUBSET (1..0) |-> base]
  <2>1. \A s \in SUBSET (1..0) : s = {}
    OBVIOUS
  <2>2. f = [s \in SUBSET (1..0) |->
               IF s = {} THEN base ELSE Pass(kind, t, r, f[s \ {Max(s)}], Max(s))]
    BY <2>1
  <2> QED
    BY <2>2 DEF Folded
<1>2. ASSUME NEW k \in T
      PROVE  k + 1 \in T
  <2>1. PICK f : Folded(f, kind, t, r, base, k)
    OBVIOUS
  <2> DEFINE G(s) == IF s \in SUBSET (1..k) THEN f[s]
                     ELSE Pass(kind, t, r, f[s \ {k + 1}], k + 1)
             g == [s \in SUBSET (1..(k + 1)) |-> G(s)]
  <2>2. ASSUME NEW s \in SUBSET (1..(k + 1))
        PROVE  g[s] = IF s = {} THEN base ELSE Pass(kind, t, r, g[s \ {Max(s)}], Max(s))
    <3>1. g[s] = G(s)
      OBVIOUS
    <3>2. CASE s \in SUBSET (1..k)
      <4>1. f[s] = IF s = {} THEN base ELSE Pass(kind, t, r, f[s \ {Max(s)}], Max(s))
        <5> HIDE DEF g
        <5> QED
          BY <2>1, <3>2 DEF Folded
      <4>2. s \ {Max(s)} \in SUBSET (1..k) /\ s \ {Max(s)} \in SUBSET (1..(k + 1))
        BY <3>2
      <4>3. g[s \ {Max(s)}] = f[s \ {Max(s)}]
        BY <4>2
      <4> HIDE DEF g
      <4> QED
        BY <3>1, <3>2, <4>1, <4>3
    <3>3. CASE s \notin SUBSET (1..k)
      <4>1. k + 1 \in s /\ s # {}
        BY <3>3
      <4>2. Max(s) = k + 1
        <5>1. k + 1 \in Nat
          OBVIOUS
        <5>2. Max(s) \in s /\ \A y \in s : y <= Max(s)
          BY <4>1, <5>1, MaxOf
        <5>3. Max(s) \in 1..(k + 1) /\ k + 1 <= Max(s)
          BY <5>2, <4>1
        <5> QED
          BY <5>3
      <4>3. s \ {k + 1} \in SUBSET (1..k) /\ s \ {k + 1} \in SUBSET (1..(k + 1))
        OBVIOUS
      <4>4. g[s \ {k + 1}] = f[s \ {k + 1}]
        BY <4>3
      <4>5. G(s) = Pass(kind, t, r, f[s \ {k + 1}], k + 1)
        BY <3>3
      <4> HIDE DEF g
      <4> QED
        BY <3>1, <4>1, <4>2, <4>4, <4>5
    <3> QED
      BY <3>2, <3>3
  <2>3. Folded(g, kind, t, r, base, k + 1)
    <3>1. g = [s \in SUBSET (1..(k + 1)) |-> g[s]]
      OBVIOUS
    <3> HIDE DEF g
    <3>2. [s \in SUBSET (1..(k + 1)) |-> g[s]]
            = [s \in SUBSET (1..(k + 1)) |->
                 IF s = {} THEN base ELSE Pass(kind, t, r, g[s \ {Max(s)}], Max(s))]
      BY <2>2
    <3> QED
      BY <3>1, <3>2 DEF Folded
  <2> QED
    BY <2>3
<1>3. \A n \in Nat : n \in T
  <2> HIDE DEF T
  <2> QED
    BY <1>1, <1>2, SetInduction
<1> QED
  BY <1>3

\* A chain of boards g, each the one before after a step of the pass.
Chain(g, kind, t, r, base, n) ==
  /\ g[0] = base
  /\ \A k \in 0..(n - 1) : g[k + 1] = Pass(kind, t, r, g[k], k + 1)

\* The result of a fold is the last of a chain of boards.
LEMMA FoldIsChain ==
  ASSUME NEW kind, NEW t, NEW r, NEW base, NEW n \in Nat, NEW f,
         Folded(f, kind, t, r, base, n)
  PROVE  \E g : Chain(g, kind, t, r, base, n) /\ f[1..n] = g[n]
<1> DEFINE g == [k \in 0..n |-> f[1..k]]
<1>4. g[0] = base
  <2>1. 1..0 = {} /\ 1..0 \in SUBSET (1..n)
    OBVIOUS
  <2>2. f[1..0] = base
    BY <2>1 DEF Folded
  <2> QED
    BY <2>2
<1>5. ASSUME NEW k \in 0..(n - 1)
      PROVE  g[k + 1] = Pass(kind, t, r, g[k], k + 1)
  <2>1. k + 1 \in 1..n /\ k \in Nat /\ k + 1 \in Nat
    OBVIOUS
  <2>2. 1..(k + 1) \in SUBSET (1..n) /\ k + 1 \in 1..(k + 1)
    BY <2>1
  <2>3. 1..(k + 1) # {} /\ 1..(k + 1) \in SUBSET (1..(k + 1))
    BY <2>2
  <2>4. Max(1..(k + 1)) = k + 1
    <3>1. Max(1..(k + 1)) \in 1..(k + 1) /\ k + 1 <= Max(1..(k + 1))
      BY <2>1, <2>2, <2>3, MaxOf
    <3> QED
      BY <3>1
  <2>5. (1..(k + 1)) \ {k + 1} = 1..k
    BY <2>1
  <2>6. f[1..(k + 1)] = Pass(kind, t, r, f[1..k], k + 1)
    BY <2>2, <2>3, <2>4, <2>5 DEF Folded
  <2>7. g[k + 1] = f[1..(k + 1)] /\ g[k] = f[1..k]
    BY <2>1
  <2> HIDE DEF g
  <2> QED
    BY <2>6, <2>7
<1>6. g[n] = f[1..n]
  OBVIOUS
<1> HIDE DEF g
<1> QED
  BY <1>4, <1>5, <1>6 DEF Chain

\* The board after all channels are attached and before any output is set up.
Dark(t) == [duty |-> [i \in 1..MaxRows |-> 0], on |-> [i \in 1..MaxRows |-> 0],
            pin |-> [p \in Pins |-> 0], ledc |-> Attached(t)]

\* duta_io_begin is a pass that turns every output off.
LEMMA BeginIsPass ==
  ASSUME NEW t, NEW r, Len(t) \in Nat
  PROVE  \E g : Chain(g, "off", t, r, Dark(t), Len(t)) /\ Begin(t, r) = g[Len(t)]
<1> DEFINE n == Len(t)
           seq == [i \in 1..n |-> i]
           Off(b, i) == IF t[i].type = "rgb" THEN b ELSE IoOutSet(b, t, i, 0, r)
           P(f) == f = [s \in SUBSET (1..n) |->
                          IF s = {} THEN Dark(t) ELSE Off(f[s \ {Max(s)}], seq[Max(s)])]
<1>1. Begin(t, r) = (CHOOSE f : P(f))[1..n]
  <2>1. DOMAIN seq = 1..n
    OBVIOUS
  <2>2. Begin(t, r) = (CHOOSE f : f = [s \in SUBSET DOMAIN seq |->
          IF s = {} THEN Dark(t) ELSE Off(f[s \ {Max(s)}], seq[Max(s)])])[DOMAIN seq]
    BY DEF Begin, FoldLeft, MapThenFoldSet, Dark
  <2> QED
    BY <2>1, <2>2
<1>2. ASSUME NEW f PROVE P(f) <=> Folded(f, "off", t, r, Dark(t), n)
  <2>1. ASSUME NEW s \in SUBSET (1..n), s # {}
        PROVE  Off(f[s \ {Max(s)}], seq[Max(s)]) = Pass("off", t, r, f[s \ {Max(s)}], Max(s))
    <3>1. Max(s) \in 1..n
      BY <2>1, MaxOf
    <3>2. seq[Max(s)] = Max(s)
      BY <3>1
    <3> HIDE DEF seq
    <3> QED
      BY <3>2 DEF Pass, OffAt
  <2> HIDE DEF Off, seq
  <2>2. [s \in SUBSET (1..n) |->
           IF s = {} THEN Dark(t) ELSE Off(f[s \ {Max(s)}], seq[Max(s)])]
        = [s \in SUBSET (1..n) |->
             IF s = {} THEN Dark(t) ELSE Pass("off", t, r, f[s \ {Max(s)}], Max(s))]
    BY <2>1
  <2> QED
    BY <2>2 DEF Folded
<1>3. \E f : P(f)
  <2>1. PICK f : Folded(f, "off", t, r, Dark(t), n)
    BY FoldExists
  <2> HIDE DEF P
  <2> QED
    BY <1>2, <2>1
<1> HIDE DEF P
<1>4. Folded(CHOOSE f : P(f), "off", t, r, Dark(t), n)
  BY <1>2, <1>3
<1>5. PICK h : h = CHOOSE f : P(f)
  OBVIOUS
<1>6. Folded(h, "off", t, r, Dark(t), n) /\ Begin(t, r) = h[1..n]
  BY <1>1, <1>4, <1>5
<1>7. \E g : Chain(g, "off", t, r, Dark(t), n) /\ h[1..n] = g[n]
  BY <1>6, FoldIsChain
<1> QED
  BY <1>6, <1>7

\* What duta_io_pwm_config_set does: it writes every duty again.
AllAgain(b, t, r) ==
  LET Again(x, j) == IF t[j].type = "pwm" THEN WritePwm(x, t[j], x.duty[j], r) ELSE x
  IN  FoldLeft(Again, b, [j \in 1..Len(t) |-> j])

\* It is a pass over the table.
LEMMA AgainIsPass ==
  ASSUME NEW b, NEW t, NEW r, Len(t) \in Nat
  PROVE  \E g : Chain(g, "again", t, r, b, Len(t)) /\ AllAgain(b, t, r) = g[Len(t)]
<1> DEFINE n == Len(t)
           seq == [i \in 1..n |-> i]
           Again(x, j) == IF t[j].type = "pwm" THEN WritePwm(x, t[j], x.duty[j], r) ELSE x
           P(f) == f = [s \in SUBSET (1..n) |->
                          IF s = {} THEN b ELSE Again(f[s \ {Max(s)}], seq[Max(s)])]
<1>1. AllAgain(b, t, r) = (CHOOSE f : P(f))[1..n]
  <2>1. DOMAIN seq = 1..n
    OBVIOUS
  <2>2. AllAgain(b, t, r) = (CHOOSE f : f = [s \in SUBSET DOMAIN seq |->
          IF s = {} THEN b ELSE Again(f[s \ {Max(s)}], seq[Max(s)])])[DOMAIN seq]
    BY DEF AllAgain, FoldLeft, MapThenFoldSet
  <2> QED
    BY <2>1, <2>2
<1>2. ASSUME NEW f PROVE P(f) <=> Folded(f, "again", t, r, b, n)
  <2>1. ASSUME NEW s \in SUBSET (1..n), s # {}
        PROVE  Again(f[s \ {Max(s)}], seq[Max(s)]) = Pass("again", t, r, f[s \ {Max(s)}], Max(s))
    <3>1. Max(s) \in 1..n
      BY <2>1, MaxOf
    <3>2. seq[Max(s)] = Max(s)
      BY <3>1
    <3> HIDE DEF seq
    <3> QED
      BY <3>2 DEF Pass, AgainAt
  <2> HIDE DEF Again, seq
  <2>2. [s \in SUBSET (1..n) |->
           IF s = {} THEN b ELSE Again(f[s \ {Max(s)}], seq[Max(s)])]
        = [s \in SUBSET (1..n) |->
             IF s = {} THEN b ELSE Pass("again", t, r, f[s \ {Max(s)}], Max(s))]
    BY <2>1
  <2> QED
    BY <2>2 DEF Folded
<1>3. \E f : P(f)
  <2>1. PICK f : Folded(f, "again", t, r, b, n)
    BY FoldExists
  <2> HIDE DEF P
  <2> QED
    BY <1>2, <2>1
<1> HIDE DEF P
<1>4. PICK h : h = CHOOSE f : P(f)
  OBVIOUS
<1>5. Folded(h, "again", t, r, b, n) /\ AllAgain(b, t, r) = h[1..n]
  BY <1>1, <1>2, <1>3, <1>4
<1>6. \E g : Chain(g, "again", t, r, b, n) /\ h[1..n] = g[n]
  BY <1>5, FoldIsChain
<1> QED
  BY <1>5, <1>6

\* The bytes of the names are counted in a pass.
LEMMA NamesIsPass ==
  ASSUME NEW t, Len(t) \in Nat, DOMAIN t = 1..Len(t)
  PROVE  \E g : Chain(g, "names", t, 0, 0, Len(t)) /\ NameBytes(t) = g[Len(t)]
<1> DEFINE n == Len(t)
           Add(x, row) == x + row.name + 1
           P(f) == f = [s \in SUBSET (1..n) |->
                          IF s = {} THEN 0 ELSE Add(f[s \ {Max(s)}], t[Max(s)])]
<1>1. NameBytes(t) = (CHOOSE f : P(f))[1..n]
  <2>2. NameBytes(t) = (CHOOSE f : f = [s \in SUBSET DOMAIN t |->
          IF s = {} THEN 0 ELSE Add(f[s \ {Max(s)}], t[Max(s)])])[DOMAIN t]
    BY DEF NameBytes, FoldLeft, MapThenFoldSet
  <2> QED
    BY <2>2
<1>2. ASSUME NEW f PROVE P(f) <=> Folded(f, "names", t, 0, 0, n)
  BY DEF Folded, Pass
<1>3. \E f : P(f)
  <2>1. PICK f : Folded(f, "names", t, 0, 0, n)
    BY FoldExists
  <2> HIDE DEF P
  <2> QED
    BY <1>2, <2>1
<1> HIDE DEF P
<1>4. PICK h : h = CHOOSE f : P(f)
  OBVIOUS
<1>5. Folded(h, "names", t, 0, 0, n) /\ NameBytes(t) = h[1..n]
  BY <1>1, <1>2, <1>3, <1>4
<1>6. \E g : Chain(g, "names", t, 0, 0, n) /\ h[1..n] = g[n]
  BY <1>5, FoldIsChain
<1> QED
  BY <1>5, <1>6

\* After k rows of a pass that turns them off, those show it.
OffInv(b, t, r, k) ==
  /\ b \in Board
  /\ \A j \in 1..Len(t) : j <= k => ShowsAt(b, t, r, j)

\* duta_io_begin leaves every output as its latch says.
LEMMA BeginShows ==
  ASSUME NEW t, TableFine(t), NEW r \in 1..16
  PROVE  Begin(t, r) \in Board /\ Shows(Begin(t, r), t, r)
<1>0. Len(t) \in Nat
  BY RowsOf
<1>1. PICK g : Chain(g, "off", t, r, Dark(t), Len(t)) /\ Begin(t, r) = g[Len(t)]
  BY <1>0, BeginIsPass
<1> DEFINE T == {k \in Nat : k <= Len(t) => OffInv(g[k], t, r, k)}
<1>2. 0 \in T
  <2>1. Attached(t) \in SUBSET Pins
    BY RowsOf DEF Attached
  <2>2. Dark(t) \in Board
    BY <2>1, TableAssumption DEF Dark, Board
  <2>3. g[0] = Dark(t)
    BY <1>1 DEF Chain
  <2> QED
    BY <1>0, <2>2, <2>3 DEF OffInv
<1>3. ASSUME NEW k \in T PROVE k + 1 \in T
  <2>0. SUFFICES ASSUME k + 1 <= Len(t) PROVE OffInv(g[k + 1], t, r, k + 1)
    OBVIOUS
  <2>1. k \in 0..(Len(t) - 1) /\ k + 1 \in 1..Len(t) /\ OffInv(g[k], t, r, k)
    BY <1>0, <2>0
  <2>2. g[k + 1] = Pass("off", t, r, g[k], k + 1)
    BY <1>1, <2>1 DEF Chain
  <2>3. g[k + 1] = OffAt(t, r, g[k], k + 1)
    BY <2>2 DEF Pass
  <2>4. PICK b, c : b = g[k] /\ c = g[k + 1]
    OBVIOUS
  <2>5. b \in Board /\ \A j \in 1..Len(t) : j <= k => ShowsAt(b, t, r, j)
    BY <2>1, <2>4 DEF OffInv
  <2>6. c \in Board /\ ShowsAt(c, t, r, k + 1)
        /\ \A j \in 1..Len(t) : ShowsAt(b, t, r, j) => ShowsAt(c, t, r, j)
    <3>1. CASE t[k + 1].type = "rgb"
      <4>1. c = b
        BY <2>3, <2>4, <3>1 DEF OffAt
      <4> QED
        BY <2>5, <3>1, <4>1 DEF ShowsAt
    <3>2. CASE t[k + 1].type # "rgb"
      <4>1. c = IoOutSet(b, t, k + 1, 0, r) /\ 0 \in {0, 1}
        BY <2>3, <2>4, <3>2 DEF OffAt
      <4>2. c \in Board
        BY <2>1, <2>5, <4>1, OutSetShows
      <4>3. ShowsAt(c, t, r, k + 1)
        BY <2>1, <2>5, <4>1, OutSetShows
      <4>4. StillShows(b, c, t, r)
        BY <2>1, <2>5, <4>1, OutSetShows
      <4> QED
        BY <4>2, <4>3, <4>4 DEF StillShows
    <3> QED
      BY <3>1, <3>2
  <2>7. \A j \in 1..Len(t) : j <= k + 1 => j <= k \/ j = k + 1
    OBVIOUS
  <2> QED
    BY <2>4, <2>5, <2>6, <2>7 DEF OffInv
<1>4. \A k \in Nat : k \in T
  <2> HIDE DEF T
  <2> QED
    BY <1>2, <1>3, SetInduction
<1>5. OffInv(g[Len(t)], t, r, Len(t))
  BY <1>0, <1>4
<1> QED
  BY <1>0, <1>1, <1>5 DEF OffInv, Shows

\* After k rows of the pass that changes the resolution from o to r.
AgainInv(b, t, o, r, k) ==
  /\ b \in Board
  /\ \A j \in 1..Len(t) : ShowsAt(b, t, IF j <= k THEN r ELSE o, j)

\* duta_io_pwm_config_set leaves every output as its latch says, at the new resolution.
LEMMA AgainShows ==
  ASSUME NEW b0 \in Board, NEW t, TableFine(t), NEW o, NEW r \in 1..16, Shows(b0, t, o)
  PROVE  AllAgain(b0, t, r) \in Board /\ Shows(AllAgain(b0, t, r), t, r)
<1>0. Len(t) \in Nat
  BY RowsOf
<1>1. PICK g : Chain(g, "again", t, r, b0, Len(t)) /\ AllAgain(b0, t, r) = g[Len(t)]
  BY <1>0, AgainIsPass
<1> DEFINE T == {k \in Nat : k <= Len(t) => AgainInv(g[k], t, o, r, k)}
<1>2. 0 \in T
  <2>1. g[0] = b0
    BY <1>1 DEF Chain
  <2> QED
    BY <1>0, <2>1 DEF AgainInv, Shows
<1>3. ASSUME NEW k \in T PROVE k + 1 \in T
  <2>0. SUFFICES ASSUME k + 1 <= Len(t) PROVE AgainInv(g[k + 1], t, o, r, k + 1)
    OBVIOUS
  <2>1. k \in 0..(Len(t) - 1) /\ k + 1 \in 1..Len(t) /\ AgainInv(g[k], t, o, r, k)
    BY <1>0, <2>0
  <2>2. g[k + 1] = Pass("again", t, r, g[k], k + 1)
    BY <1>1, <2>1 DEF Chain
  <2>3. g[k + 1] = AgainAt(t, r, g[k], k + 1)
    BY <2>2 DEF Pass
  <2>4. PICK b, c : b = g[k] /\ c = g[k + 1]
    OBVIOUS
  <2>5. b \in Board /\ \A j \in 1..Len(t) : ShowsAt(b, t, IF j <= k THEN r ELSE o, j)
    BY <2>1, <2>4 DEF AgainInv
  <2>6. c \in Board /\ ShowsAt(c, t, r, k + 1) /\ Undisturbed(b, c, t, k + 1)
    <3>1. CASE t[k + 1].type # "pwm"
      <4>1. c = b
        BY <2>3, <2>4, <3>1 DEF AgainAt
      <4>2. ShowsAt(b, t, IF k + 1 <= k THEN r ELSE o, k + 1)
        BY <2>1, <2>5
      <4> QED
        BY <2>5, <3>1, <4>1, <4>2 DEF ShowsAt, Undisturbed
    <3>2. CASE t[k + 1].type = "pwm"
      <4>1. c = Written(b, t, k + 1, r) /\ IsPwm(t, k + 1)
        BY <2>3, <2>4, <3>2 DEF AgainAt, Written, IsPwm
      <4>2. c \in Board
        BY <2>1, <2>5, <4>1, PwmShows
      <4>3. ShowsAt(c, t, r, k + 1)
        BY <2>1, <2>5, <4>1, PwmShows
      <4>4. Undisturbed(b, c, t, k + 1)
        BY <2>1, <2>5, <4>1, PwmShows
      <4> QED
        BY <4>2, <4>3, <4>4
    <3> QED
      BY <3>1, <3>2
  <2>7. ASSUME NEW j \in 1..Len(t)
        PROVE  ShowsAt(c, t, IF j <= k + 1 THEN r ELSE o, j)
    <3>1. CASE j = k + 1
      BY <2>6, <3>1
    <3>2. CASE j # k + 1
      <4>1. (IF j <= k + 1 THEN r ELSE o) = (IF j <= k THEN r ELSE o)
        BY <3>2, <2>1
      <4> QED
        BY <2>5, <2>6, <3>2, <4>1 DEF Undisturbed
    <3> QED
      BY <3>1, <3>2
  <2> QED
    BY <2>4, <2>6, <2>7 DEF AgainInv
<1>4. \A k \in Nat : k \in T
  <2> HIDE DEF T
  <2> QED
    BY <1>2, <1>3, SetInduction
<1>5. AgainInv(g[Len(t)], t, o, r, Len(t))
  BY <1>0, <1>4
<1> QED
  BY <1>0, <1>1, <1>5 DEF AgainInv, Shows

\* The names of a table have a number of bytes.
LEMMA NameBytesNat ==
  ASSUME NEW t \in Table(Kinds)
  PROVE  NameBytes(t) \in Nat
<1>0. Len(t) \in Nat /\ DOMAIN t = 1..Len(t) /\ \A j \in 1..Len(t) : t[j].name \in Nat
  <2>1. t \in Seq(OneRow)
    BY DEF Table, OneRow
  <2>2. Len(t) \in Nat /\ DOMAIN t = 1..Len(t) /\ \A j \in 1..Len(t) : t[j] \in OneRow
    BY <2>1, LenProperties, ElementOfSeq
  <2> QED
    BY <2>2 DEF OneRow
<1>1. PICK g : Chain(g, "names", t, 0, 0, Len(t)) /\ NameBytes(t) = g[Len(t)]
  BY <1>0, NamesIsPass
<1> DEFINE T == {k \in Nat : k <= Len(t) => g[k] \in Nat}
<1>2. 0 \in T
  BY <1>1 DEF Chain
<1>3. ASSUME NEW k \in T PROVE k + 1 \in T
  <2>0. SUFFICES ASSUME k + 1 <= Len(t) PROVE g[k + 1] \in Nat
    OBVIOUS
  <2>1. k \in 0..(Len(t) - 1) /\ k + 1 \in 1..Len(t) /\ g[k] \in Nat
    BY <1>0, <2>0
  <2>2. g[k + 1] = g[k] + t[k + 1].name + 1
    BY <1>1, <2>1 DEF Chain, Pass
  <2> QED
    BY <1>0, <2>1, <2>2
<1>4. \A k \in Nat : k \in T
  <2> HIDE DEF T
  <2> QED
    BY <1>2, <1>3, SetInduction
<1> QED
  BY <1>0, <1>1, <1>4

-----------------------------------------------------------------------------
(* The tables                                                              *)

\* Every row of the board's own table keeps the role the board gave its pin.
LEMMA CompiledFine == TableFine(Compiled)
<1>1. Compiled \in Seq(OneRow) /\ Len(Compiled) <= MaxRows
  BY TableAssumption DEF Table, OneRow
<1>2. ASSUME NEW i \in 1..Len(Compiled) PROVE KeepsDefaultRole(Compiled[i])
  <2> DEFINE T == {j \in 1..Len(Compiled) : Compiled[j].pin = Compiled[i].pin}
  <2>1. T \subseteq Nat /\ i \in T
    OBVIOUS
  <2>2. PICK j \in T : \A k \in T : j <= k
    <3> HIDE DEF T
    <3> QED
      BY <2>1, Least
  <2>3. Compiled[j].type = Compiled[i].type
    BY BoardAssumption
  <2>4. ASSUME NEW k \in 1..(j - 1) PROVE Compiled[k].pin # Compiled[i].pin
    <3>1. k \in 1..Len(Compiled) /\ ~(j <= k)
      BY <1>1, LenProperties
    <3> QED
      BY <2>2, <3>1
  <2> QED
    BY <2>3, <2>4 DEF KeepsDefaultRole
<1> QED
  BY <1>1, <1>2, TableAssumption DEF TableFine, RowFine

\* A table that passes the checks of CONFIG_SET may be driven.
LEMMA OkIsFine ==
  ASSUME NEW t \in Tables, TableOk(t)
  PROVE  TableFine(t)
<1> DEFINE Raw == [type : Kinds \union {"cut"}, pin : Pins, low : BOOLEAN, name : Nat]
<1>1. t \in Seq(Raw)
  BY TableAssumption DEF Table
<1>2. Len(t) \in Nat /\ t \in [1..Len(t) -> Raw]
  BY <1>1, LenProperties
<1>3. ASSUME NEW i \in 1..Len(t) PROVE t[i] \in OneRow
  <2>1. t[i] \in Raw /\ t[i].type # "cut"
    BY <1>2 DEF TableOk, RowOk
  <2> QED
    BY <2>1 DEF OneRow
<1>4. t \in Seq(OneRow)
  <2>1. t \in [1..Len(t) -> OneRow]
    BY <1>2, <1>3
  <2> QED
    BY <1>2, <2>1, SeqDef
<1> QED
  BY <1>4 DEF TableFine, TableOk, Table, OneRow, RowFine

\* duta_io_load gives a table that may be driven.
LEMMA LoadFine ==
  ASSUME StoreInv
  PROVE  TableFine(Load(store))
BY CompiledFine DEF StoreInv, Load

\* Tables that may be driven have rows in roles of the menu.
LEMMA FineIsOffered ==
  ASSUME TableFine(tbl)
  PROVE  OnlyOfferedRoles
BY DEF TableFine, RowFine, RowOk, OnlyOfferedRoles

-----------------------------------------------------------------------------
(* The invariant                                                           *)

\* It holds at power-up.
LEMMA TableInit == IoInit => TableInv
<1> SUFFICES ASSUME IoInit PROVE TableInv
  OBVIOUS
<1>1. TableFine(Compiled) /\ Compiled \in Table(Kinds) /\ Len(Compiled) <= MaxRows
  BY CompiledFine, TableAssumption
<1>2. 10 \in 1..16
  OBVIOUS
<1>3. Begin(Compiled, 10) \in Board /\ Shows(Begin(Compiled, 10), Compiled, 10)
  BY <1>1, <1>2, BeginShows
<1>4. StoreInv
  BY DEF IoInit, StoreInv
<1>5. ioCmds \in 0..MaxIoCmds /\ status = "OK" /\ wiped = FALSE /\ store = NoTable
  BY TableAssumption DEF IoInit
<1>6. tbl = Compiled /\ promised = Compiled /\ res = 10 /\ io \in Board
  BY <1>3 DEF IoInit
<1>7. IoTypeOK
  BY <1>1, <1>2, <1>5, <1>6 DEF IoTypeOK
<1> QED
  BY <1>1, <1>3, <1>4, <1>7 DEF IoInit, TableInv

\* A command is counted within the bound.
LEMMA Counted ==
  ASSUME IoTypeOK, NEW name, IoCommand(name)
  PROVE  ioCmds' \in 0..MaxIoCmds
BY TableAssumption DEF IoTypeOK, IoCommand

\* CONFIG_SET stores only what it checked.
LEMMA ConfigSetStep ==
  ASSUME TableInv, NEW t \in Tables, ConfigSet(t)
  PROVE  TableInv'
<1>1. IoTypeOK /\ TableFine(tbl) /\ StoreInv /\ Shows(io, tbl, res)
  BY DEF TableInv
<1>2. tbl' = tbl /\ res' = res /\ io' = io /\ ioCmds' \in 0..MaxIoCmds
  BY <1>1, Counted DEF ConfigSet
<1>3. CASE TableOk(t) /\ store' = Stored(t) /\ status' = "OK" /\ promised' = t /\ wiped' = FALSE
  <2>1. TableFine(t)
    BY <1>3, OkIsFine
  <2>2. Len(store') = 1 /\ store'[1] = t
    BY <1>3 DEF Stored
  <2>3. StoreInv'
    BY <1>3, <2>1, <2>2 DEF StoreInv
  <2>4. IoTypeOK'
    BY <1>1, <1>2, <1>3, <2>1, <2>2 DEF IoTypeOK, TableFine
  <2> QED
    BY <1>1, <1>2, <2>3, <2>4 DEF TableInv
<1>4. CASE status' \in {"STORAGE", "BADARGS"} /\ UNCHANGED <<store, promised, wiped>>
  <2>3. StoreInv'
    BY <1>1, <1>4 DEF StoreInv
  <2>4. IoTypeOK'
    BY <1>1, <1>2, <1>4 DEF IoTypeOK
  <2> QED
    BY <1>1, <1>2, <2>3, <2>4 DEF TableInv
<1> QED
  BY <1>3, <1>4 DEF ConfigSet

\* CONFIG_SET 0xFF promises the compiled table, and may fail to.
LEMMA ConfigResetStep ==
  ASSUME TableInv, ConfigReset
  PROVE  TableInv'
<1>1. IoTypeOK /\ TableFine(tbl) /\ StoreInv /\ Shows(io, tbl, res)
  BY DEF TableInv
<1>2. /\ tbl' = tbl /\ res' = res /\ io' = io /\ ioCmds' \in 0..MaxIoCmds
      /\ status' = "OK" /\ promised' = Compiled
  BY <1>1, Counted DEF ConfigReset
<1>3. \/ store' = NoTable /\ wiped' = FALSE
      \/ wiped' = (store # NoTable) /\ store' = store
  BY Zenon DEF ConfigReset
<1>4. StoreInv'
  BY <1>1, <1>2, <1>3 DEF StoreInv
<1>5. IoTypeOK'
  BY <1>1, <1>2, <1>3, TableAssumption DEF IoTypeOK
<1> QED
  BY <1>1, <1>2, <1>4, <1>5 DEF TableInv

\* A restart sets up the table that is there.
LEMMA RebootStep ==
  ASSUME TableInv, IoReboot
  PROVE  TableInv'
<1>1. IoTypeOK /\ TableFine(tbl) /\ StoreInv /\ Shows(io, tbl, res)
  BY DEF TableInv
<1>2. /\ tbl' = Load(store) /\ io' = Begin(Load(store), 10) /\ res' = 10 /\ status' = "OK"
      /\ UNCHANGED <<store, promised, wiped>> /\ ioCmds' \in 0..MaxIoCmds
  BY <1>1, Counted DEF IoReboot, Boot
<1>3. TableFine(Load(store)) /\ 10 \in 1..16
  BY <1>1, LoadFine
<1>4. Begin(Load(store), 10) \in Board /\ Shows(Begin(Load(store), 10), Load(store), 10)
  BY <1>3, BeginShows
<1>5. StoreInv'
  BY <1>1, <1>2 DEF StoreInv
<1>6. IoTypeOK'
  BY <1>1, <1>2, <1>3, <1>4 DEF IoTypeOK, TableFine
<1> QED
  BY <1>2, <1>3, <1>4, <1>5, <1>6 DEF TableInv

\* A command on an output that leaves a board on which the pins follow.
LEMMA DriveStep ==
  ASSUME TableInv, NEW name, NEW b \in Board, IoDrive(name, b), res' \in 1..16,
         Shows(b, tbl, res')
  PROVE  TableInv'
<1>1. IoTypeOK /\ TableFine(tbl) /\ StoreInv
  BY DEF TableInv
<1>2. /\ tbl' = tbl /\ io' = b /\ status' = "OK" /\ ioCmds' \in 0..MaxIoCmds
      /\ UNCHANGED <<store, promised, wiped>>
  BY <1>1, Counted DEF IoDrive
<1>3. StoreInv'
  BY <1>1, <1>2 DEF StoreInv
<1>4. IoTypeOK'
  BY <1>1, <1>2 DEF IoTypeOK
<1> QED
  BY <1>1, <1>2, <1>3, <1>4 DEF TableInv

\* IoOutSet keeps the pins with the latches.
LEMMA OutSetKeeps ==
  ASSUME NEW b \in Board, NEW t, TableFine(t), NEW r \in 1..16, Shows(b, t, r),
         NEW i \in 1..Len(t), NEW v \in {0, 1}
  PROVE  IoOutSet(b, t, i, v, r) \in Board /\ Shows(IoOutSet(b, t, i, v, r), t, r)
<1>1. PICK c : c = IoOutSet(b, t, i, v, r)
  OBVIOUS
<1>2. c \in Board
  BY <1>1, OutSetShows
<1>3. StillShows(b, c, t, r)
  BY <1>1, OutSetShows
<1> QED
  BY <1>1, <1>2, <1>3 DEF Shows, StillShows

\* Every command on an output.
LEMMA OutputStep ==
  ASSUME TableInv, NEW i \in 1..MaxRows,
         \/ Toggle(i) \/ Pulse(i) \/ \E v \in {0, 1} : Set(i, v)
  PROVE  TableInv'
<1>1. /\ TableFine(tbl) /\ Shows(io, tbl, res) /\ io \in Board /\ res \in 1..16
  BY DEF TableInv, IoTypeOK
<1>2. i \in 1..Len(tbl) /\ res' = res
  BY DEF Toggle, Pulse, Set, Row
<1>3. PICK p : p = OutGet(io, tbl, i)
  OBVIOUS
<1>4. p \in {0, 1} /\ 1 - p \in {0, 1}
  BY <1>1, <1>2, <1>3, OutGetBit
<1>5. CASE Toggle(i)
  <2>1. PICK b : b = IoOutSet(io, tbl, i, 1 - p, res)
    OBVIOUS
  <2>2. b \in Board /\ Shows(b, tbl, res)
    BY <1>1, <1>2, <1>4, <2>1, OutSetKeeps
  <2>3. IoDrive("toggle", b)
    BY <1>3, <1>5, <2>1 DEF Toggle
  <2> QED
    BY <1>1, <1>2, <2>2, <2>3, DriveStep
<1>6. CASE Pulse(i)
  <2>1. PICK a : a = IoOutSet(io, tbl, i, 1 - p, res)
    OBVIOUS
  <2>2. PICK b : b = IoOutSet(a, tbl, i, p, res)
    OBVIOUS
  <2>3. a \in Board /\ Shows(a, tbl, res)
    BY <1>1, <1>2, <1>4, <2>1, OutSetKeeps
  <2>4. b \in Board /\ Shows(b, tbl, res)
    BY <1>1, <1>2, <1>4, <2>2, <2>3, OutSetKeeps
  <2>5. IoDrive("pulse", b)
    BY <1>3, <1>6, <2>1, <2>2 DEF Pulse
  <2> QED
    BY <1>1, <1>2, <2>4, <2>5, DriveStep
<1>7. CASE \E v \in {0, 1} : Set(i, v)
  <2>1. PICK v \in {0, 1} : Set(i, v)
    BY <1>7
  <2>2. PICK b : b = IoOutSet(io, tbl, i, v, res)
    OBVIOUS
  <2>3. b \in Board /\ Shows(b, tbl, res)
    BY <1>1, <1>2, <2>2, OutSetKeeps
  <2>4. IoDrive("set", b)
    BY <2>1, <2>2 DEF Set
  <2> QED
    BY <1>1, <1>2, <2>3, <2>4, DriveStep
<1> QED
  BY <1>5, <1>6, <1>7

\* A duty is set.
LEMMA PwmSetStep ==
  ASSUME TableInv, NEW i \in 1..MaxRows, NEW d \in Duties, PwmSet(i, d)
  PROVE  TableInv'
<1>1. TableFine(tbl) /\ Shows(io, tbl, res) /\ io \in Board /\ res \in 1..16
  BY DEF TableInv, IoTypeOK
<1>2. i \in 1..Len(tbl) /\ res' = res /\ tbl[i].type = "pwm" /\ d \in 0..PwmMax
  BY TableAssumption DEF PwmSet, Row
<1>3. PICK x : x = [io EXCEPT !.duty[i] = d]
  OBVIOUS
<1>4. x = Latched(io, i, d, io.on[i]) /\ io.on[i] \in {0, 1}
  <2>1. PICK du, o, p, l : io = [duty |-> du, on |-> o, pin |-> p, ledc |-> l]
    BY <1>1, BoardIs
  <2>2. o \in [1..MaxRows -> {0, 1}] /\ io.on = o
    BY <1>1, <2>1, BoardParts
  <2>3. x = [duty |-> [du EXCEPT ![i] = d], on |-> o, pin |-> p, ledc |-> l]
    BY <1>3, <2>1
  <2>4. [o EXCEPT ![i] = o[i]] = o
    BY <2>2
  <2>5. [x EXCEPT !.on[i] = o[i]] = x
    BY <2>3, <2>4
  <2> QED
    BY <1>3, <2>2, <2>5 DEF Latched
<1>5. x \in Board /\ x.duty[i] = d /\ Undisturbed(io, x, tbl, i)
  BY <1>1, <1>2, <1>4, LatchKeeps
<1>6. PICK c : c = WritePwm(x, tbl[i], d, res)
  OBVIOUS
<1>7. c = Written(x, tbl, i, res) /\ IsPwm(tbl, i)
  BY <1>2, <1>5, <1>6 DEF Written, IsPwm
<1>8. c \in Board
  BY <1>1, <1>2, <1>5, <1>7, PwmShows
<1>9. ShowsAt(c, tbl, res, i)
  BY <1>1, <1>2, <1>5, <1>7, PwmShows
<1>10. Undisturbed(x, c, tbl, i)
  BY <1>1, <1>2, <1>5, <1>7, PwmShows
<1>11. Shows(c, tbl, res)
  BY <1>1, <1>5, <1>9, <1>10 DEF Shows, Undisturbed
<1>12. IoDrive("pwm", c)
  BY <1>3, <1>6 DEF PwmSet
<1> QED
  BY <1>1, <1>2, <1>8, <1>11, <1>12, DriveStep

\* The pixels are set.
LEMMA RgbSetStep ==
  ASSUME TableInv, NEW i \in 1..MaxRows, NEW k \in Colors, RgbSet(i, k)
  PROVE  TableInv'
<1>1. TableFine(tbl) /\ Shows(io, tbl, res) /\ io \in Board /\ res \in 1..16
  BY DEF TableInv, IoTypeOK
<1>2. i \in 1..Len(tbl) /\ res' = res /\ tbl[i].type = "rgb" /\ k \in Nat
  BY TableAssumption DEF RgbSet, Row
<1>3. PICK c : c = [io EXCEPT !.pin[RgbPin] = k]
  OBVIOUS
<1>4. c \in Board /\ StillShows(io, c, tbl, res)
  BY <1>1, <1>2, <1>3, PixelsShow
<1>5. IoDrive("rgb", c)
  BY <1>3 DEF RgbSet
<1> QED
  BY <1>1, <1>2, <1>4, <1>5, DriveStep DEF Shows, StillShows

\* The resolution changes, and every duty is written at it.
LEMMA PwmConfigStep ==
  ASSUME TableInv, NEW i \in 1..MaxRows, NEW r \in Resolutions, PwmConfig(i, r)
  PROVE  TableInv'
<1>1. TableFine(tbl) /\ Shows(io, tbl, res) /\ io \in Board
  BY DEF TableInv, IoTypeOK
<1>2. r \in 1..16 /\ res' = r
  BY TableAssumption DEF PwmConfig
<1>3. PICK b : b = AllAgain(io, tbl, r)
  OBVIOUS
<1>4. b \in Board /\ Shows(b, tbl, r)
  BY <1>1, <1>2, <1>3, AgainShows
<1>5. IoDrive("pwm_config", b)
  BY <1>3 DEF PwmConfig, AllAgain
<1> QED
  BY <1>2, <1>4, <1>5, DriveStep

\* Every step keeps the invariant.
LEMMA TableNext == TableInv /\ [IoNext]_ioVars => TableInv'
<1> SUFFICES ASSUME TableInv, [IoNext]_ioVars PROVE TableInv'
  OBVIOUS
<1>1. CASE ConfigReset
  BY <1>1, ConfigResetStep
<1>2. CASE IoReboot
  BY <1>2, RebootStep
<1>3. ASSUME NEW t \in Tables, ConfigSet(t) PROVE TableInv'
  BY <1>3, ConfigSetStep
<1>4. ASSUME NEW i \in 1..MaxRows, Toggle(i) \/ Pulse(i) \/ \E v \in {0, 1} : Set(i, v)
      PROVE  TableInv'
  BY <1>4, OutputStep
<1>5. ASSUME NEW i \in 1..MaxRows, NEW d \in Duties, PwmSet(i, d) PROVE TableInv'
  BY <1>5, PwmSetStep
<1>6. ASSUME NEW i \in 1..MaxRows, NEW k \in Colors, RgbSet(i, k) PROVE TableInv'
  BY <1>6, RgbSetStep
<1>7. ASSUME NEW i \in 1..MaxRows, NEW r \in Resolutions, PwmConfig(i, r) PROVE TableInv'
  BY <1>7, PwmConfigStep
<1>8. ASSUME NEW i \in 1..MaxRows, NEW type \in {"pwm", "rgb"}, Mismatch(i, type)
      PROVE  TableInv'
  <2>1. UNCHANGED <<tbl, store, res, io, promised, wiped>> /\ status' = "BADARGS"
    BY <1>8 DEF Mismatch
  <2>2. ioCmds' \in 0..MaxIoCmds
    BY <1>8, Counted DEF Mismatch, TableInv
  <2> QED
    BY <2>1, <2>2 DEF TableInv, IoTypeOK, StoreInv
<1>9. CASE UNCHANGED ioVars
  BY <1>9 DEF ioVars, TableInv, IoTypeOK, StoreInv
<1> QED
  BY <1>1, <1>2, <1>3, <1>4, <1>5, <1>6, <1>7, <1>8, <1>9 DEF IoNext

\* What the invariant says of the pins.
LEMMA ShowsIsFollow == TableInv => PinsFollowLatches
BY FineIsOffered DEF TableInv, PinsFollowLatches, Shows, ShowsAt, Alone, Sole

\* The invariant of the driver.
THEOREM TableInvariant == IoSpec => []TableInv
<1> QED
  BY TableInit, TableNext, PTL DEF IoSpec

\* No output is driven in a role it was not offered, and the pins show what the
\* latches say, whatever tables hosts store and whenever the board restarts.
THEOREM PinsFollow == IoSpec => []PinsFollowLatches
<1> QED
  BY TableInvariant, ShowsIsFollow, PTL

\* A table answered OK is there after a restart, unless its names do not fit the
\* pool or the reset failed silently.
THEOREM ConfigIsKept == IoSpec => PromiseKept
<1>1. TableInv /\ [IoNext]_ioVars =>
        [last' = "reboot" => tbl' = promised \/ wiped \/ NameBytes(promised) > Pool]_ioVars
  <2> SUFFICES ASSUME TableInv, IoNext, last' = "reboot"
               PROVE  tbl' = promised \/ wiped \/ NameBytes(promised) > Pool
    OBVIOUS
  <2>1. IoReboot
    BY DEF IoNext, ConfigReset, ConfigSet, IoCommand, Toggle, Pulse, Mismatch, Set, PwmSet,
       RgbSet, PwmConfig, IoDrive
  <2>2. tbl' = Load(store) /\ StoreInv /\ promised \in Table(Kinds)
    BY <2>1 DEF IoReboot, Boot, TableInv, IoTypeOK
  <2>3. PICK n : n = NameBytes(promised)
    OBVIOUS
  <2>4. n \in Nat /\ Pool \in Nat
    BY <2>2, <2>3, NameBytesNat, TableAssumption
  <2>5. CASE store = Stored(promised)
    <3>1. store # NoTable /\ store[1] = promised
      BY <2>5 DEF Stored, NoTable
    <3>2. n <= Pool \/ n > Pool
      BY <2>4
    <3>3. n <= Pool => tbl' = promised
      BY <2>2, <2>3, <3>1 DEF Load
    <3> QED
      BY <2>3, <3>2, <3>3
  <2>6. CASE store = NoTable /\ promised = Compiled
    BY <2>2, <2>6 DEF Load
  <2> QED
    BY <2>2, <2>5, <2>6 DEF StoreInv
<1> QED
  BY TableInvariant, <1>1, PTL DEF IoSpec, PromiseKept
-----------------------------------------------------------------------------
(* The pulse                                                               *)

\* What duta_io_out_set leaves on the pins.
PinsAfter(b, t, i, v, r) ==
  CASE t[i].type = "pwm" ->
         IF t[i].pin \in b.ledc
         THEN [b.pin EXCEPT ![t[i].pin] = Scaled(t[i], IF v = 1 THEN PwmMax ELSE 0, r)]
         ELSE b.pin
    [] t[i].type = "rgb" -> [b.pin EXCEPT ![RgbPin] = IF v = 1 THEN White ELSE 0]
    [] OTHER             -> [b.pin EXCEPT ![t[i].pin] = Level(t[i], v)]

\* So the channels stay, and those are the pins.
LEMMA OutSetPins ==
  ASSUME NEW b \in Board, NEW t, NEW i, NEW v, NEW r
  PROVE  /\ IoOutSet(b, t, i, v, r).pin = PinsAfter(b, t, i, v, r)
         /\ IoOutSet(b, t, i, v, r).ledc = b.ledc
<1>1. PICK du, o, p, l : b = [duty |-> du, on |-> o, pin |-> p, ledc |-> l]
  BY BoardIs
<1>2. b.pin = p /\ b.ledc = l
  BY <1>1
<1>3. PICK d : d = IF v = 1 THEN PwmMax ELSE 0
  OBVIOUS
<1>4. CASE t[i].type = "pwm"
  <2>1. PICK y : y = [b EXCEPT !.duty[i] = d]
    OBVIOUS
  <2>2. y = [duty |-> [du EXCEPT ![i] = d], on |-> o, pin |-> p, ledc |-> l]
    BY <1>1, <2>1
  <2>3. PICK x : x = [y EXCEPT !.on[i] = v]
    OBVIOUS
  <2>4. x = [duty |-> [du EXCEPT ![i] = d], on |-> [o EXCEPT ![i] = v], pin |-> p, ledc |-> l]
    BY <2>2, <2>3
  <2>5. IoOutSet(b, t, i, v, r) = WritePwm(x, t[i], d, r)
    BY <1>3, <1>4, <2>1, <2>3 DEF IoOutSet
  <2>6. CASE t[i].pin \in l
    <3>0. PICK w : w = Scaled(t[i], d, r)
      OBVIOUS
    <3>1. WritePwm(x, t[i], d, r)
            = [duty |-> [du EXCEPT ![i] = d], on |-> [o EXCEPT ![i] = v],
               pin |-> [p EXCEPT ![t[i].pin] = w], ledc |-> l]
      BY <2>4, <2>6, <3>0 DEF WritePwm
    <3>2. PinsAfter(b, t, i, v, r) = [p EXCEPT ![t[i].pin] = w]
      BY <1>2, <1>3, <1>4, <2>6, <3>0 DEF PinsAfter
    <3> QED
      BY <1>2, <2>5, <3>1, <3>2
  <2>7. CASE t[i].pin \notin l
    <3>1. WritePwm(x, t[i], d, r) = x
      BY <2>4, <2>7 DEF WritePwm
    <3>2. x.pin = p /\ x.ledc = l
      BY <2>4
    <3> QED
      BY <1>2, <1>4, <2>5, <2>7, <3>1, <3>2 DEF PinsAfter
  <2> QED
    BY <2>6, <2>7
<1>5. CASE t[i].type = "rgb"
  <2>1. PICK x : x = IF v = 1 THEN White ELSE 0
    OBVIOUS
  <2>2. IoOutSet(b, t, i, v, r)
          = [duty |-> du, on |-> o, pin |-> [p EXCEPT ![RgbPin] = x], ledc |-> l]
    BY <1>1, <1>5, <2>1 DEF IoOutSet
  <2> QED
    BY <1>2, <1>5, <2>1, <2>2 DEF PinsAfter
<1>6. CASE t[i].type \notin {"pwm", "rgb"}
  <2>1. IoOutSet(b, t, i, v, r) = WriteDigital([b EXCEPT !.on[i] = v], t[i], v)
    BY <1>6 DEF IoOutSet
  <2>2. [b EXCEPT !.on[i] = v] = [duty |-> du, on |-> [o EXCEPT ![i] = v], pin |-> p, ledc |-> l]
    BY <1>1
  <2>3. PICK w : w = Level(t[i], v)
    OBVIOUS
  <2>4. IoOutSet(b, t, i, v, r)
          = [duty |-> du, on |-> [o EXCEPT ![i] = v], pin |-> [p EXCEPT ![t[i].pin] = w], ledc |-> l]
    BY <2>1, <2>2, <2>3 DEF WriteDigital
  <2> QED
    BY <1>2, <1>6, <2>3, <2>4 DEF PinsAfter
<1> QED
  BY <1>4, <1>5, <1>6

\* Row i of a board is fully on or off.
FullyOn(b, t, i) ==
  CASE t[i].type = "pwm" -> b.duty[i] \in {0, PwmMax}
    [] t[i].type = "rgb" -> b.pin[RgbPin] \in {0, White}
    [] OTHER             -> TRUE

\* A pin that is written twice, at last with what it had.
LEMMA WrittenBack ==
  ASSUME NEW p, NEW q, NEW k \in Pins, NEW x, NEW y,
         p \in [Pins -> Nat], p[k] = x, q = [p EXCEPT ![k] = y]
  PROVE  [q EXCEPT ![k] = x] = p
OBVIOUS

\* Set to the opposite and back, the pins are as they were.
LEMMA PulseIsNeutral ==
  ASSUME NEW b \in Board, NEW t, TableFine(t), NEW r \in 1..16, NEW i \in 1..Len(t),
         ShowsAt(b, t, r, i), Alone(t, i), FullyOn(b, t, i),
         NEW v, v = OutGet(b, t, i), NEW a, a = IoOutSet(b, t, i, 1 - v, r), a \in Board
  PROVE  IoOutSet(a, t, i, v, r).pin = b.pin
<1>0. /\ t[i].type \in {"io", "pwm", "rgb"} /\ t[i].pin \in Pins /\ RgbPin \in Pins
      /\ v \in {0, 1} /\ i \in 1..MaxRows /\ PwmMax \in Nat \ {0} /\ White # 0
  BY RowsOf, OutGetBit, TableAssumption DEF Kinds
<1>1. a.pin = PinsAfter(b, t, i, 1 - v, r) /\ a.ledc = b.ledc
  BY OutSetPins
<1>2. IoOutSet(a, t, i, v, r).pin = PinsAfter(a, t, i, v, r)
  BY OutSetPins
<1>3. b.pin \in [Pins -> Nat] /\ a.pin \in [Pins -> Nat]
  BY BoardParts
<1>4. CASE t[i].type = "pwm"
  <2>1. CASE t[i].pin \in b.ledc
    <3>1. b.duty[i] = IF v = 1 THEN PwmMax ELSE 0
      BY <1>0, <1>4 DEF FullyOn, OutGet
    <3>2. PICK s : s = Scaled(t[i], b.duty[i], r)
      OBVIOUS
    <3>3. b.pin[t[i].pin] = s
      BY <1>4, <2>1, <3>2 DEF ShowsAt
    <3>4. PinsAfter(a, t, i, v, r) = [a.pin EXCEPT ![t[i].pin] = s]
      BY <1>1, <1>4, <2>1, <3>1, <3>2 DEF PinsAfter
    <3>5. PICK s0 : a.pin = [b.pin EXCEPT ![t[i].pin] = s0]
      BY <1>1, <1>4, <2>1 DEF PinsAfter
    <3> QED
      <4>1. [a.pin EXCEPT ![t[i].pin] = s] = b.pin
        BY <1>0, <1>3, <3>3, <3>5, WrittenBack
      <4> QED
        BY <1>2, <3>4, <4>1
  <2>2. CASE t[i].pin \notin b.ledc
    BY <1>1, <1>2, <1>4, <2>2 DEF PinsAfter
  <2> QED
    BY <2>1, <2>2
<1>5. CASE t[i].type = "rgb"
  <2>1. PICK x : x = b.pin[RgbPin]
    OBVIOUS
  <2>2. x = IF v = 1 THEN White ELSE 0
    BY <1>0, <1>5, <2>1 DEF FullyOn, OutGet
  <2>3. PinsAfter(a, t, i, v, r) = [a.pin EXCEPT ![RgbPin] = x]
    BY <1>5, <2>2 DEF PinsAfter
  <2>4. PICK y : a.pin = [b.pin EXCEPT ![RgbPin] = y]
    BY <1>1, <1>5 DEF PinsAfter
  <2> QED
    <3>1. [a.pin EXCEPT ![RgbPin] = x] = b.pin
      BY <1>0, <1>3, <2>1, <2>4, WrittenBack
    <3> QED
      BY <1>2, <2>3, <3>1
<1>6. CASE t[i].type = "io"
  <2>1. PICK x : x = Level(t[i], v)
    OBVIOUS
  <2>2. b.pin[t[i].pin] = x
    BY <1>6, <2>1 DEF ShowsAt, OutGet
  <2>3. PinsAfter(a, t, i, v, r) = [a.pin EXCEPT ![t[i].pin] = x]
    BY <1>6, <2>1 DEF PinsAfter
  <2>4. PICK y : a.pin = [b.pin EXCEPT ![t[i].pin] = y]
    BY <1>1, <1>6 DEF PinsAfter
  <2> QED
    <3>1. [a.pin EXCEPT ![t[i].pin] = x] = b.pin
      BY <1>0, <1>3, <2>2, <2>4, WrittenBack
    <3> QED
      BY <1>2, <2>3, <3>1
<1> QED
  BY <1>0, <1>4, <1>5, <1>6

\* A pulse leaves every pin as it was, as long as the outputs are fully on or off and
\* have a pin of their own.
THEOREM PulseIsRestored == IoSpec => PulseRestores
<1>1. TableInv /\ [IoNext]_ioVars =>
        [last' = "pulse" => \/ io'.pin = io.pin
                           \/ \E i \in 1..Len(tbl) : ~Sole(i) \/ ~AtRail(i)]_ioVars
  <2> SUFFICES ASSUME TableInv, IoNext, last' = "pulse",
                      ~\E i \in 1..Len(tbl) : ~Sole(i) \/ ~AtRail(i)
               PROVE  io'.pin = io.pin
    OBVIOUS
  <2>1. PICK i \in 1..MaxRows : Pulse(i)
    BY DEF IoNext, ConfigReset, ConfigSet, IoReboot, IoCommand, Toggle, Mismatch, Set, PwmSet,
       RgbSet, PwmConfig, IoDrive
  <2>2. TableFine(tbl) /\ Shows(io, tbl, res) /\ io \in Board /\ res \in 1..16
    BY DEF TableInv, IoTypeOK
  <2>3. i \in 1..Len(tbl)
    BY <2>1 DEF Pulse, Row
  <2>4. Alone(tbl, i) /\ FullyOn(io, tbl, i) /\ ShowsAt(io, tbl, res, i)
    BY <2>2, <2>3 DEF Sole, AtRail, Alone, FullyOn, Shows
  <2>5. PICK v : v = OutGet(io, tbl, i)
    OBVIOUS
  <2>6. v \in {0, 1} /\ 1 - v \in {0, 1}
    BY <2>2, <2>3, <2>5, OutGetBit
  <2>7. PICK a : a = IoOutSet(io, tbl, i, 1 - v, res)
    OBVIOUS
  <2>8. a \in Board
    BY <2>2, <2>3, <2>6, <2>7, OutSetKeeps
  <2>9. IoOutSet(a, tbl, i, v, res).pin = io.pin
    BY <2>2, <2>3, <2>4, <2>5, <2>7, <2>8, PulseIsNeutral
  <2>10. io' = IoOutSet(a, tbl, i, v, res)
    BY <2>1, <2>5, <2>7 DEF Pulse, IoDrive
  <2> QED
    BY <2>9, <2>10
<1> QED
  BY TableInvariant, <1>1, PTL DEF IoSpec, PulseRestores
=============================================================================
