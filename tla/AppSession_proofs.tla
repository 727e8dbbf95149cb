--------------------------- MODULE AppSession_proofs ---------------------------
(* What Update relies on, for any number of loops, overlapping or not.      *)
EXTENDS AppSession, TLAPS

Looking == {"range", "wait", "sync", "prune", "check", "teardown"}

\* While started is set there is a loop that has yet to look at the table, so
\* Update may leave its token to it: overlapping loops do not break this.
StartedHasLoop ==
  started => \E l \in Loops :
    pc[l] \in {"range", "wait", "sync", "prune", "check", "teardown"}

\* The invariant with the shape of pc, which the step needs.
IInv == pc \in [Loops -> Places] /\ StartedHasLoop

\* A step that leaves started as it is or resets it, and lets every loop that
\* has yet to look at the table stay one, keeps the invariant.
LEMMA LookingKept ==
  ASSUME StartedHasLoop, pc' \in [Loops -> Places], started' => started,
         \A l \in Loops : pc[l] \in Looking => pc'[l] \in Looking
  PROVE  IInv'
BY DEF IInv, StartedHasLoop, Looking

LEMMA LoopsInvariant == Spec => []IInv
<1>1. Init => IInv
  BY DEF Init, IInv, StartedHasLoop, Places
<1>2. IInv /\ [Next]_vars => IInv'
  <2> SUFFICES ASSUME IInv, [Next]_vars PROVE IInv'
    OBVIOUS
  <2> USE DEF IInv
  <2>1. CASE Crash
    BY <2>1 DEF Crash, StartedHasLoop, Places
  <2>2. ASSUME NEW t \in Tokens, Update(t), ~Crash PROVE IInv'
    <3>1. CASE pc' = pc /\ started' = started
      BY <3>1, LookingKept
    <3>2. CASE \E l \in Loops : pc[l] = "new" /\ pc' = [pc EXCEPT ![l] = "start"]
      BY <2>2, <3>2, LookingKept DEF Update, Looking, Places
    <3> QED
      BY <2>2, <3>1, <3>2 DEF Update
  <2>3. ASSUME NEW t \in Tokens, Expire(t) PROVE IInv'
    BY <2>3, LookingKept DEF Expire, mem
  <2>4. ASSUME NEW l \in Loops, Loop(l), ~Crash PROVE IInv'
    <3>1. CASE LoopStart(l)
      BY <3>1 DEF LoopStart, Step, StartedHasLoop, Places
    <3>2. CASE LoopTeardown(l)
      BY <3>2 DEF LoopTeardown, Step, StartedHasLoop, Places
    <3>3. CASE LoopRange(l) \/ LoopTick(l) \/ LoopSync(l) \/ LoopPrune(l) \/ LoopCheck(l)
      BY <2>4, <3>3, LookingKept
         DEF LoopRange, LoopTick, LoopSync, LoopPrune, LoopCheck, Step, mem, Looking, Places
    <3>4. CASE LoopOut(l) \/ LoopSend(l)
      BY <3>4, LookingKept DEF LoopOut, LoopSend, Step, mem, Looking, Places
    <3> QED
      BY <2>4, <3>1, <3>2, <3>3, <3>4 DEF Loop
  <2>5. ASSUME Killer, ~Crash PROVE IInv'
    <3>1. pc' = pc
      BY <2>5 DEF Killer, Kill, KillStart, KillStop, KillReset, KillChannel, KillReceive
    <3>2. started' => started
      BY <2>5 DEF Killer, KillStart, KillStop, KillReset, KillChannel, KillReceive, mem
    <3> QED
      BY <3>1, <3>2, LookingKept
  <2>6. CASE UNCHANGED vars
    BY <2>6, LookingKept DEF vars, mem
  <2> QED
    BY <2>1, <2>2, <2>3, <2>4, <2>5, <2>6 DEF Next
<1> QED
  BY <1>1, <1>2, PTL DEF Spec

\* A loop that has seen the table empty resets started before it goes.
THEOREM StartedLoops == Spec => []StartedHasLoop
<1>1. IInv => StartedHasLoop
  BY DEF IInv
<1> QED
  BY <1>1, LoopsInvariant, PTL
-----------------------------------------------------------------------------
(* Types.  That a loop never sends on a nil channel, where it would wait for  *)
(* ever, needs that one was made before: ch is set when a loop starts, and     *)
(* never reset while one runs.                                              *)

Channeled ==
  \A l \in Loops :
    /\ pc[l] \notin {"new", "start", "ended"} => ch \in Loops
    /\ pc[l] = "send" => out[l] \in Loops

Typed == TypeOK /\ Channeled

LEMMA UpdateTyped ==
  ASSUME Typed, NEW t \in Tokens, Update(t), ~Crash
  PROVE  Typed'
<1> USE DEF Typed, TypeOK
<1>1. pc' = pc \/ \E l \in Loops : pc' = [pc EXCEPT ![l] = "start"]
  BY DEF Update
<1>2. pc' \in [Loops -> Places]
  BY <1>1 DEF Places
<1>3. overlapped' \in BOOLEAN /\ late' \subseteq Tokens /\ session' \subseteq Tokens
  BY DEF Update
<1>4. UNCHANGED <<started, ticker, ch, sent, held, out, killer, killch, expired, record>>
  BY DEF Update
<1>5. Channeled'
  BY <1>1, <1>4 DEF Channeled
<1> QED
  BY <1>2, <1>3, <1>4, <1>5

LEMMA LoopTyped ==
  ASSUME Typed, NEW l \in Loops, Loop(l), ~Crash
  PROVE  Typed'
<1> USE DEF Typed, TypeOK, Channeled, Step, Places, mem
<1>1. CASE LoopStart(l)
  BY <1>1 DEF LoopStart
<1>2. CASE LoopRange(l) \/ LoopCheck(l)
  BY <1>2 DEF LoopRange, LoopCheck
<1>3. CASE LoopTick(l)
  BY <1>3 DEF LoopTick
<1>4. CASE LoopSync(l)
  <2>1. PICK s \in SUBSET (held[l] \cup session) : record' = record \cup s
    BY <1>4 DEF LoopSync
  <2>2. record' \subseteq Tokens
    BY <2>1
  <2>3. held' \in [Loops -> SUBSET Tokens] /\ pc' \in [Loops -> Places]
    BY <1>4 DEF LoopSync
  <2> QED
    BY <1>4, <2>2, <2>3 DEF LoopSync
<1>5. CASE LoopPrune(l)
  BY <1>5 DEF LoopPrune
<1>6. CASE LoopTeardown(l)
  BY <1>6 DEF LoopTeardown
<1>7. CASE LoopOut(l)
  BY <1>7 DEF LoopOut
<1>8. CASE LoopSend(l)
  BY <1>8 DEF LoopSend
<1> QED
  BY <1>1, <1>2, <1>3, <1>4, <1>5, <1>6, <1>7, <1>8 DEF Loop

LEMMA TypedInvariant == Spec => []Typed
<1>1. Init => Typed
  BY DEF Init, Typed, TypeOK, Channeled, Places
<1>2. Typed /\ [Next]_vars => Typed'
  <2> SUFFICES ASSUME Typed, [Next]_vars PROVE Typed'
    OBVIOUS
  <2> USE DEF Typed, TypeOK, Channeled
  <2>1. CASE Crash
    BY <2>1 DEF Crash, Places
  <2>2. ASSUME NEW t \in Tokens, Expire(t) PROVE Typed'
    BY <2>2 DEF Expire, mem
  <2>3. ASSUME Killer, ~Crash PROVE Typed'
    BY <2>3
    DEF Killer, Kill, KillStart, KillStop, KillReset, KillChannel, KillReceive, mem
  <2>4. CASE UNCHANGED vars
    BY <2>4 DEF vars, mem
  <2> QED
    BY <2>1, <2>2, <2>3, <2>4, UpdateTyped, LoopTyped DEF Next
<1> QED
  BY <1>1, <1>2, PTL DEF Spec

\* Every reachable state is well-typed, for any number of loops; in particular
\* a message is sent only on a channel that was made.
THEOREM TypeCorrect == Spec => []TypeOK
<1>1. Typed => TypeOK
  BY DEF Typed
<1> QED
  BY <1>1, TypedInvariant, PTL
-----------------------------------------------------------------------------
(* What is in the table, and the loop that will look at it.                *)

ToLook == Looking \cup {"start"}

\* A step that adds no token keeps the invariant if every loop on its way to the
\* table stays on it.
LEMMA TableKept ==
  ASSUME TokenHasLoop, session' \subseteq session,
         \A l \in Loops : pc[l] \in ToLook => pc'[l] \in ToLook
  PROVE  TokenHasLoop'
BY DEF TokenHasLoop, ToLook, Looking

\* A token put in while started is set is left to the loop that StartedHasLoop
\* speaks of.
LEMMA TableStep ==
  ASSUME IInv, IInv', TokenHasLoop, [Next]_vars
  PROVE  TokenHasLoop'
<1> USE DEF IInv
<1>1. CASE Crash
  BY <1>1 DEF Crash, TokenHasLoop
<1>2. ASSUME NEW t \in Tokens, Update(t), ~Crash PROVE TokenHasLoop'
  <2>1. CASE StartsLoop
    <3>1. PICK l \in Loops : pc[l] = "new" /\ pc' = [pc EXCEPT ![l] = "start"]
      BY <1>2, <2>1 DEF Update
    <3> QED
      BY <3>1 DEF TokenHasLoop
  <2>2. CASE ~StartsLoop
    <3>1. started /\ pc' = pc
      BY <1>2, <2>2 DEF Update, StartsLoop
    <3> QED
      BY <3>1 DEF StartedHasLoop, TokenHasLoop
  <2> QED
    BY <2>1, <2>2
<1>3. ASSUME NEW t \in Tokens, Expire(t) PROVE TokenHasLoop'
  BY <1>3, TableKept DEF Expire, mem
<1>4. ASSUME NEW l \in Loops, Loop(l), ~Crash PROVE TokenHasLoop'
  <2>1. CASE LoopTeardown(l)
    BY <2>1 DEF LoopTeardown, TokenHasLoop
  <2>2. CASE LoopStart(l) \/ LoopRange(l) \/ LoopTick(l) \/ LoopSync(l) \/ LoopCheck(l)
    BY <1>4, <2>2, TableKept
    DEF LoopStart, LoopRange, LoopTick, LoopSync, LoopCheck, Step, mem, ToLook, Looking, Places
  <2>3. CASE LoopPrune(l)
    BY <1>4, <2>3, TableKept DEF LoopPrune, Step, ToLook, Looking, Places
  <2>4. CASE LoopOut(l) \/ LoopSend(l)
    BY <2>4, TableKept DEF LoopOut, LoopSend, Step, mem, ToLook, Looking, Places
  <2> QED
    BY <1>4, <2>1, <2>2, <2>3, <2>4 DEF Loop
<1>5. ASSUME Killer, ~Crash PROVE TokenHasLoop'
  <2>1. pc' = pc
    BY <1>5 DEF Killer, Kill, KillStart, KillStop, KillReset, KillChannel, KillReceive
  <2>2. session' \subseteq session
    BY <1>5 DEF Killer, KillStart, KillStop, KillReset, KillChannel, KillReceive, mem
  <2> QED
    BY <2>1, <2>2, TableKept
<1>6. CASE UNCHANGED vars
  BY <1>6, TableKept DEF vars, mem
<1> QED
  BY <1>1, <1>2, <1>3, <1>4, <1>5, <1>6 DEF Next

\* No token is left in the table without a loop that will look at it.
THEOREM TokensLookedAt == Spec => []TokenHasLoop
<1>1. Init => TokenHasLoop
  BY DEF Init, TokenHasLoop
<1>2. TokenHasLoop /\ IInv /\ IInv' /\ [Next]_vars => TokenHasLoop'
  BY TableStep
<1> QED
  BY <1>1, <1>2, LoopsInvariant, PTL DEF Spec
-----------------------------------------------------------------------------
(* What Kill waits for.                                                     *)

\* A loop that will send on the channel c, if nobody replaces ch meanwhile.
Ends(l, c) ==
  \/ pc[l] \in Looking \cup {"out"} /\ ch = c
  \/ pc[l] = "send" /\ out[l] = c

Awaited(c) == c \in sent \/ \E l \in Loops : Ends(l, c)

\* Until Kill has read the channel, the one to be read is awaited; from then on,
\* the one it has read.  One loop at a time, so that who replaces the channel is
\* alone, and the message of the one before it has been sent.
KillInv ==
  ~overlapped /\ Up =>
    /\ \A l, m \in Running : l = m
    /\ ticker # None \/ killer \in {"stop", "reset", "channel"} => ch # None
    /\ ch # None /\ killer # "receive" => Awaited(ch)
    /\ killer = "receive" => Awaited(killch)

LEMMA KillUpdate ==
  ASSUME Typed, KillInv, NEW t \in Tokens, Update(t), ~Crash
  PROVE  KillInv'
<1> USE DEF Typed, TypeOK
<1> SUFFICES ASSUME ~overlapped', Up' PROVE KillInv'
  BY DEF KillInv
<1>1. UNCHANGED <<started, ticker, ch, sent, held, out, killer, killch>>
  BY DEF Update
<1>2. Up /\ ~overlapped
  BY <1>1 DEF Update, Up
<1>3. CASE pc' = pc
  BY <1>1, <1>2, <1>3 DEF KillInv, Running, Awaited, Ends, Up
<1>4. CASE pc' # pc
  <2>1. PICK l \in Loops : pc[l] = "new" /\ pc' = [pc EXCEPT ![l] = "start"]
    BY <1>4 DEF Update
  <2>2. Running = {}
    BY <1>4 DEF Update
  <2>3. \A m \in Loops : pc[m] \in {"new", "ended"}
    BY <2>2 DEF Running
  <2>4. \A c : Awaited(c) => Awaited(c)'
    BY <1>1, <2>3 DEF Awaited, Ends, Looking
  <2>5. \A m \in Running' : m = l
    BY <2>1, <2>3 DEF Running
  <2> QED
    BY <1>1, <1>2, <2>4, <2>5 DEF KillInv, Up, Awaited, Ends
<1> QED
  BY <1>3, <1>4

LEMMA KillLoop ==
  ASSUME Typed, KillInv, NEW l \in Loops, Loop(l), ~Crash
  PROVE  KillInv'
<1> USE DEF Typed, TypeOK
<1>1. /\ UNCHANGED <<killer, killch, overlapped>>
      /\ pc' = [pc EXCEPT ![l] = pc'[l]]
      /\ pc[l] \notin {"new", "ended"}
  BY DEF Loop, LoopStart, LoopRange, LoopTick, LoopSync, LoopPrune, LoopCheck, LoopTeardown,
         LoopOut, LoopSend, Step
<1> SUFFICES ASSUME ~overlapped, Up PROVE KillInv'
  BY <1>1 DEF KillInv, Up
<1>2. l \in Running /\ \A m \in Loops : m # l => pc[m] \in {"new", "ended"}
  BY <1>1 DEF KillInv, Running
<1>3. \A m, n \in Running' : m = n
  BY <1>1, <1>2 DEF Running
<1>4. CASE LoopStart(l)
  <2>1. ch' = l /\ Awaited(l)'
    BY <1>4 DEF LoopStart, Step, Awaited, Ends, Looking
  <2>2. \A c : Awaited(c) => Awaited(c)'
    BY <1>2, <1>4 DEF LoopStart, Step, Awaited, Ends, Looking
  <2> QED
    BY <1>1, <1>3, <2>1, <2>2, LoopsAssumption DEF KillInv, Up, Awaited, Ends
<1>5. CASE LoopSend(l)
  <2>1. \A c : Awaited(c) => Awaited(c)'
    BY <1>2, <1>5 DEF LoopSend, Step, Awaited, Ends, Looking
  <2> QED
    BY <1>1, <1>3, <1>5, <2>1 DEF LoopSend, KillInv, Up, Awaited, Ends
<1>6. CASE LoopOut(l)
  <2>1. \A c : Awaited(c) => Awaited(c)'
    BY <1>2, <1>6 DEF LoopOut, Step, mem, Awaited, Ends, Looking
  <2> QED
    BY <1>1, <1>3, <1>6, <2>1 DEF LoopOut, mem, KillInv, Up, Awaited, Ends
<1>7. CASE LoopTeardown(l)
  <2>1. \A c : Awaited(c) => Awaited(c)'
    BY <1>2, <1>7 DEF LoopTeardown, Step, Awaited, Ends, Looking
  <2> QED
    BY <1>1, <1>3, <1>7, <2>1 DEF LoopTeardown, KillInv, Up, Awaited, Ends
<1>8. CASE LoopRange(l) \/ LoopTick(l) \/ LoopSync(l) \/ LoopPrune(l) \/ LoopCheck(l)
  <2>1. UNCHANGED <<ticker, ch, sent, out>> /\ pc[l] \in Looking /\ pc'[l] \in Looking
    BY <1>8 DEF LoopRange, LoopTick, LoopSync, LoopPrune, LoopCheck, Step, mem, Looking
  <2>2. \A c : Awaited(c) => Awaited(c)'
    BY <1>2, <2>1 DEF Awaited, Ends, Looking
  <2> QED
    BY <1>1, <1>3, <2>1, <2>2 DEF KillInv, Up, Awaited, Ends
<1> QED
  BY <1>4, <1>5, <1>6, <1>7, <1>8 DEF Loop

LEMMA KillStep ==
  ASSUME Typed, KillInv, Killer, ~Crash
  PROVE  KillInv'
<1> USE DEF Typed, TypeOK
<1>1. UNCHANGED <<pc, out, overlapped>>
  BY DEF Killer, Kill, KillStart, KillStop, KillReset, KillChannel, KillReceive
<1>2. CASE KillReceive
  BY <1>2 DEF KillReceive, Kill, KillInv, Up
<1>3. CASE KillChannel
  BY <1>1, <1>3 DEF KillChannel, Kill, mem, KillInv, Up, Running, Awaited, Ends
<1>4. CASE KillStart \/ KillStop \/ KillReset
  BY <1>1, <1>4 DEF KillStart, KillStop, KillReset, Kill, mem, KillInv, Up, Running, Awaited, Ends
<1> QED
  BY <1>2, <1>3, <1>4 DEF Killer

\* Kill never waits on a channel that nobody is left to send on, unless loops
\* have overlapped.
THEOREM KillIsAnswered == Spec => []KillAwaited
<1>1. Init => KillInv
  BY LoopsAssumption DEF Init, KillInv, Running
<1>2. Typed /\ KillInv /\ [Next]_vars => KillInv'
  <2> SUFFICES ASSUME Typed, KillInv, [Next]_vars PROVE KillInv'
    OBVIOUS
  <2>1. CASE Crash
    BY <2>1 DEF Crash, KillInv, Up
  <2>2. ASSUME NEW t \in Tokens, Expire(t) PROVE KillInv'
    BY <2>2 DEF Expire, mem, KillInv, Up, Running, Awaited, Ends
  <2>3. CASE UNCHANGED vars
    BY <2>3 DEF vars, mem, KillInv, Up, Running, Awaited, Ends
  <2> QED
    BY <2>1, <2>2, <2>3, KillUpdate, KillLoop, KillStep DEF Next
<1>3. KillInv => KillAwaited
  BY DEF KillInv, KillAwaited, Up, Awaited, Ends, Looking
<1> QED
  BY <1>1, <1>2, <1>3, TypedInvariant, PTL DEF Spec
=============================================================================
