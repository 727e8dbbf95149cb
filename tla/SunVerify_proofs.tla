--------------------------- MODULE SunVerify_proofs ---------------------------
(***************************************************************************)
(* Theorems about SunVerify for every number of tags, keys and concurrent  *)
(* handlers, every counter bound and every jump threshold.                 *)
(***************************************************************************)
EXTENDS SunVerify, TLAPS

LEMMA IdleType == Idle \in Requests
BY ConstantsAssumption DEF Idle, Requests, Statuses

\* Verdict is a status, and REPEATED only at or below a non-zero stored value.
LEMMA VerdictType ==
  ASSUME NEW s \in 0..MaxRead, NEW c \in 0..MaxRead
  PROVE  /\ Verdict(s, c) \in Statuses
         /\ CounterToStore(s, c) \in 0..MaxRead
         /\ Verdict(s, c) = "REPEATED" => s # 0 /\ c <= s /\ CounterToStore(s, c) = s
         /\ Verdict(s, c) # "REPEATED" => CounterToStore(s, c) = c
         /\ Verdict(s, c) # "REPEATED" => s = 0 \/ c > s
BY ConstantsAssumption DEF Verdict, CounterToStore, Statuses

\* Type correctness: every record, tag and request keeps its shape.
THEOREM TypeCorrect == Spec => []TypeOK
<1> USE ConstantsAssumption
<1>1. Init => TypeOK
  BY IdleType DEF Init, TypeOK, Statuses
<1>2. TypeOK /\ [Next]_vars => TypeOK'
  <2> SUFFICES ASSUME TypeOK, [Next]_vars PROVE TypeOK'
    OBVIOUS
  <2> USE DEF TypeOK
  <2>1. ASSUME NEW u \in Uids, TagTap(u) PROVE TypeOK'
    BY <2>1 DEF TagTap, Suns, NotMirrored
  <2>2. ASSUME NEW u \in Uids, TagProgram(u) PROVE TypeOK'
    BY <2>2 DEF TagProgram
  <2>3. ASSUME NEW h \in Handlers, VerifyRead(h) PROVE TypeOK'
    <3>1. PICK s \in suns :
            req' = [req EXCEPT ![h] =
                     [pc |-> "update", uid |-> s.uid, ctr |-> s.ctr,
                      store |-> CounterToStore(ctr[s.uid], s.ctr),
                      verdict |-> Verdict(ctr[s.uid], s.ctr)]]
      BY <2>3 DEF VerifyRead, Authentic
    <3>2. s.uid \in Uids /\ s.ctr \in 0..MaxRead /\ ctr[s.uid] \in 0..MaxRead
      BY DEF Suns
    <3>3. req' \in [Handlers -> Requests]
      BY <3>1, <3>2, VerdictType DEF Requests
    <3> QED
      BY <2>3, <3>3 DEF VerifyRead, Authentic
  <2>4. ASSUME NEW h \in Handlers, VerifyAccept(h) PROVE TypeOK'
    BY <2>4 DEF VerifyAccept, UpdateCardCTR, Requests, tag
  <2>5. ASSUME NEW h \in Handlers, VerifyRefuse(h) PROVE TypeOK'
    BY <2>5, IdleType DEF VerifyRefuse, UpdateCardCTR, Requests, Statuses
  <2>6. ASSUME NEW h \in Handlers, VerifyAnswer(h) PROVE TypeOK'
    BY <2>6, IdleType DEF VerifyAnswer
  <2>7. ASSUME NEW h \in Handlers, NEW u \in Uids, CardWrite(h, u) PROVE TypeOK'
    BY <2>7 DEF CardWrite, card, Statuses
  <2>8. ASSUME NEW h \in Handlers, NEW u \in Uids, CardChecked(h, u) PROVE TypeOK'
    BY <2>8 DEF CardChecked, Statuses
  <2>9. ASSUME NEW h \in Handlers, NEW u \in Uids, NEW k \in Keys,
               CardPWUpdate(h, u, k) \/ CardDel(h, u, k)
        PROVE  TypeOK'
    BY <2>9 DEF CardPWUpdate, CardDel, Statuses
  <2>10. CASE Restart
    BY <2>10, IdleType DEF Restart
  <2>11. CASE UNCHANGED vars
    BY <2>11 DEF vars
  <2> QED
    BY <2>1, <2>2, <2>3, <2>4, <2>5, <2>6, <2>7, <2>8, <2>9, <2>10, <2>11
    DEF Next
<1> QED
  BY <1>1, <1>2, PTL DEF Spec

-----------------------------------------------------------------------------
(* The safety invariants hold under every interleaving of the handlers.    *)
(* They are inductive only together with what a pending request is about   *)
(* to store: a stale write is harmless because its value was accepted.     *)

\* What a pending request is about to store: its own counter if accepted, a
\* counter already accepted, at or above its own, if refused; so never the
\* placeholder 0, and a stale write cannot reset a card.
PendingStore ==
  \A h \in Handlers : req[h].pc = "update" =>
    /\ req[h].ctr # NotMirrored
    /\ IF req[h].verdict = "REPEATED"
         THEN req[h].ctr <= req[h].store /\ req[h].store <= peak[req[h].uid]
         ELSE req[h].store = req[h].ctr

IInv == TypeOK /\ StoredCounterWasAccepted /\ PendingStore

\* Every stored counter was accepted before, and every pending request will
\* store such a counter or accept its own.
THEOREM CountersSound == Spec => []IInv
<1> USE ConstantsAssumption
<1>1. Init => IInv
  <2> SUFFICES ASSUME Init PROVE IInv
    OBVIOUS
  <2>1. TypeOK
    BY IdleType DEF Init, TypeOK, Statuses
  <2>2. StoredCounterWasAccepted /\ PendingStore
    BY DEF Init, StoredCounterWasAccepted, PendingStore, Idle
  <2> QED
    BY <2>1, <2>2 DEF IInv
<1>2. IInv /\ TypeOK' /\ [Next]_vars => IInv'
  <2> SUFFICES ASSUME IInv, TypeOK', [Next]_vars
               PROVE  StoredCounterWasAccepted' /\ PendingStore'
    BY DEF IInv
  <2> USE DEF IInv, TypeOK, StoredCounterWasAccepted, PendingStore
  <2>1. ASSUME NEW u \in Uids, TagTap(u) \/ TagProgram(u)
        PROVE  StoredCounterWasAccepted' /\ PendingStore'
    BY <2>1 DEF TagTap, TagProgram
  <2>2. ASSUME NEW h \in Handlers, VerifyRead(h)
        PROVE  StoredCounterWasAccepted' /\ PendingStore'
    <3>1. StoredCounterWasAccepted'
      BY <2>2 DEF VerifyRead, Authentic
    <3>2. PICK s \in suns :
            /\ s.ctr # NotMirrored
            /\ req' = [req EXCEPT ![h] =
                 [pc |-> "update", uid |-> s.uid, ctr |-> s.ctr,
                  store |-> CounterToStore(ctr[s.uid], s.ctr),
                  verdict |-> Verdict(ctr[s.uid], s.ctr)]]
      BY <2>2 DEF VerifyRead, Authentic
    <3>3. s.uid \in Uids /\ s.ctr \in 0..MaxRead /\ ctr[s.uid] \in 0..MaxRead
      BY DEF Suns
    <3>4. ctr[s.uid] <= peak[s.uid] /\ peak' = peak
      BY <2>2, <3>3 DEF VerifyRead, Authentic
    <3>5. /\ req'[h].ctr # NotMirrored
          /\ IF req'[h].verdict = "REPEATED"
               THEN req'[h].ctr <= req'[h].store /\ req'[h].store <= peak'[req'[h].uid]
               ELSE req'[h].store = req'[h].ctr
      <4> DEFINE st == CounterToStore(ctr[s.uid], s.ctr)
                 vd == Verdict(ctr[s.uid], s.ctr)
      <4>1. /\ st \in 0..MaxRead
            /\ vd = "REPEATED" => ctr[s.uid] # 0 /\ s.ctr <= ctr[s.uid] /\ st = ctr[s.uid]
            /\ vd # "REPEATED" => st = s.ctr
        BY <3>3, VerdictType
      <4>2. /\ req'[h].store = st /\ req'[h].verdict = vd
            /\ req'[h].ctr = s.ctr /\ req'[h].uid = s.uid
        BY <3>2
      <4> HIDE DEF st, vd
      <4> QED
        BY <3>2, <3>3, <3>4, <4>1, <4>2 DEF NotMirrored
    <3>6. \A g \in Handlers : g # h => req'[g] = req[g]
      BY <3>2
    <3> QED
      BY <3>1, <3>4, <3>5, <3>6
  <2>3. ASSUME NEW h \in Handlers, VerifyAccept(h)
        PROVE  StoredCounterWasAccepted' /\ PendingStore'
    <3> DEFINE u == req[h].uid
    <3>1. u \in Uids /\ req[h].ctr \in 0..MaxRead /\ req[h].store = req[h].ctr
      BY <2>3 DEF VerifyAccept, Requests
    <3>2. \A v \in Uids : peak'[v] >= peak[v] /\ peak'[u] >= req[h].ctr
      BY <2>3, <3>1 DEF VerifyAccept
    <3>3. \A v \in Uids : ctr'[v] = ctr[v] \/ (v = u /\ ctr'[v] = req[h].ctr)
      BY <2>3, <3>1 DEF VerifyAccept, UpdateCardCTR
    <3>4. StoredCounterWasAccepted'
      BY <3>1, <3>2, <3>3
    <3>5. \A g \in Handlers :
            /\ req'[g].pc = "update" => req'[g] = req[g]
            /\ req[g].uid \in Uids /\ req[g].store \in 0..MaxRead
      BY <2>3 DEF VerifyAccept, Requests
    <3>6. PendingStore'
      BY <3>2, <3>5
    <3> QED
      BY <3>4, <3>6
  <2>4. ASSUME NEW h \in Handlers, VerifyRefuse(h)
        PROVE  StoredCounterWasAccepted' /\ PendingStore'
    <3>1. req[h].uid \in Uids /\ req[h].store <= peak[req[h].uid] /\ peak' = peak
      BY <2>4 DEF VerifyRefuse, Requests
    <3>2. StoredCounterWasAccepted'
      BY <2>4, <3>1 DEF VerifyRefuse, UpdateCardCTR
    <3>3. PendingStore'
      BY <2>4, <3>1 DEF VerifyRefuse, Idle
    <3> QED
      BY <3>2, <3>3
  <2>5. ASSUME NEW h \in Handlers, VerifyAnswer(h)
        PROVE  StoredCounterWasAccepted' /\ PendingStore'
    BY <2>5 DEF VerifyAnswer, Idle
  <2>6. ASSUME NEW h \in Handlers, NEW u \in Uids,
               CardWrite(h, u) \/ CardChecked(h, u)
        PROVE  StoredCounterWasAccepted' /\ PendingStore'
    BY <2>6 DEF CardWrite, CardChecked, card
  <2>7. ASSUME NEW h \in Handlers, NEW u \in Uids, NEW k \in Keys,
               CardPWUpdate(h, u, k) \/ CardDel(h, u, k)
        PROVE  StoredCounterWasAccepted' /\ PendingStore'
    BY <2>7 DEF CardPWUpdate, CardDel
  <2>8. CASE Restart
    BY <2>8 DEF Restart, Idle
  <2>9. CASE UNCHANGED vars
    BY <2>9 DEF vars
  <2> QED
    BY <2>1, <2>2, <2>3, <2>4, <2>5, <2>6, <2>7, <2>8, <2>9 DEF Next
<1> QED
  BY <1>1, <1>2, TypeCorrect, PTL DEF Spec

\* Stored counters are accepted counters, as SunVerify checks it.
THEOREM StoredCountersAccepted == Spec => []StoredCounterWasAccepted
<1>1. IInv => StoredCounterWasAccepted
  BY DEF IInv
<1> QED
  BY <1>1, CountersSound, PTL

\* A tap is called repeated only if its counter, or a later one, was accepted.
THEOREM NoFalseAlarm == Spec => []RepeatedWasAccepted
<1>1. IInv => RepeatedWasAccepted
  <2> SUFFICES ASSUME IInv, NEW h \in Handlers,
                      req[h].pc = "update", req[h].verdict = "REPEATED"
               PROVE  req[h].ctr <= peak[req[h].uid]
    BY DEF RepeatedWasAccepted
  <2>1. /\ req[h].ctr <= req[h].store /\ req[h].store <= peak[req[h].uid]
        /\ req[h].ctr \in Nat /\ req[h].store \in Nat /\ peak[req[h].uid] \in Nat
    BY ConstantsAssumption DEF IInv, PendingStore, TypeOK, Requests
  <2> QED
    BY <2>1
<1> QED
  BY <1>1, CountersSound, PTL

-----------------------------------------------------------------------------
(* Action properties, under every interleaving of the handlers.            *)

\* The baseline, once set, is never wiped while the card stays registered.
THEOREM BaselineNeverLost == Spec => BaselineKept
<1> DEFINE Kept == \A u \in Uids :
                     u \in registered /\ u \in registered' /\ ctr[u] # 0
                       => ctr'[u] # 0
<1>1. IInv /\ [Next]_vars => [Kept]_vars
  <2> SUFFICES ASSUME IInv, [Next]_vars, NEW u \in Uids,
                      u \in registered, u \in registered', ctr[u] # 0
               PROVE  ctr'[u] # 0
    OBVIOUS
  <2> USE DEF IInv, TypeOK
  <2>1. ASSUME NEW h \in Handlers, VerifyAccept(h) \/ VerifyRefuse(h)
        PROVE  ctr'[u] # 0
    <3>1. req[h].store # 0 /\ req[h].uid \in Uids
      BY <2>1, ConstantsAssumption
      DEF PendingStore, NotMirrored, VerifyAccept, VerifyRefuse, Requests
    <3>2. ctr'[u] = ctr[u] \/ ctr'[u] = req[h].store
      BY <2>1, <3>1 DEF VerifyAccept, VerifyRefuse, UpdateCardCTR
    <3> QED
      BY <3>1, <3>2
  <2>2. ASSUME NEW h \in Handlers, NEW v \in Uids, NEW k \in Keys, CardDel(h, v, k)
        PROVE  ctr'[u] # 0
    BY <2>2 DEF CardDel
  <2>3. ASSUME NEW h \in Handlers, NEW v \in Uids, CardWrite(h, v)
        PROVE  ctr'[u] # 0
    BY <2>3 DEF CardWrite, card
  <2>4. CASE UNCHANGED ctr
    BY <2>4
  <2> QED
    BY <2>1, <2>2, <2>3, <2>4
    DEF Next, TagTap, TagProgram, VerifyRead, VerifyAnswer, CardChecked,
        CardPWUpdate, Restart, vars
<1> QED
  BY <1>1, CountersSound, PTL DEF BaselineKept, Spec

\* Only cardchecked or deletion clears a REPEATED flag.
THEOREM FlagSticky == Spec => FlagKept
<1> DEFINE Kept == \A u \in Uids :
                     u \in registered /\ status[u] = "REPEATED"
                       => \/ status'[u] = "REPEATED"
                          \/ u \notin registered'
                          \/ \E h \in Handlers : CardChecked(h, u)
<1>1. TypeOK /\ [Next]_vars => [Kept]_vars
  <2> SUFFICES ASSUME TypeOK, [Next]_vars, NEW u \in Uids,
                      u \in registered, status[u] = "REPEATED", status'[u] # "REPEATED"
               PROVE  u \notin registered' \/ \E h \in Handlers : CardChecked(h, u)
    OBVIOUS
  <2> USE DEF TypeOK
  <2>1. ASSUME NEW h \in Handlers, VerifyAccept(h) \/ VerifyRefuse(h)
        PROVE  FALSE
    BY <2>1 DEF VerifyAccept, VerifyRefuse, UpdateCardCTR
  <2>2. ASSUME NEW h \in Handlers, NEW v \in Uids, NEW k \in Keys, CardDel(h, v, k)
        PROVE  u \notin registered'
    BY <2>2 DEF CardDel
  <2>3. ASSUME NEW h \in Handlers, NEW v \in Uids, CardChecked(h, v)
        PROVE  \E g \in Handlers : CardChecked(g, u)
    <3>1. u = v
      BY <2>3 DEF CardChecked
    <3> QED
      BY <2>3, <3>1
  <2>4. ASSUME NEW h \in Handlers, NEW v \in Uids, CardWrite(h, v)
        PROVE  FALSE
    BY <2>4 DEF CardWrite, card
  <2>5. CASE UNCHANGED status
    BY <2>5
  <2> QED
    BY <2>1, <2>2, <2>3, <2>4, <2>5
    DEF Next, TagTap, TagProgram, VerifyRead, VerifyAnswer,
        CardPWUpdate, Restart, vars
<1> QED
  BY <1>1, TypeCorrect, PTL DEF FlagKept, Spec

\* A refused tap leaves a listed card flagged, whatever ran since it was read.
THEOREM RefusalLeavesFlag == Spec => RefusalFlags
<1> DEFINE Flags == \A h \in Handlers :
       req[h].pc = "update" /\ req[h].verdict = "REPEATED" /\ VerifyRefuse(h)
         => \/ req[h].uid \notin registered'
            \/ status'[req[h].uid] = "REPEATED"
<1>1. TypeOK /\ [Next]_vars => [Flags]_vars
  BY DEF TypeOK, Requests, VerifyRefuse, UpdateCardCTR
<1> QED
  BY <1>1, TypeCorrect, PTL DEF RefusalFlags, Spec

-----------------------------------------------------------------------------
(* Refinement: while requests are served one at a time, the card records   *)
(* are the ledger.  One transaction's decision is then still true when the *)
(* next one applies it (PendingCurrent), which is exactly what two         *)
(* handlers break.                                                         *)

\* A verification still pending when its card is deleted leaves nothing for
\* the next card of that uid: an absent record is as blank as a new one.
AbsentBlank ==
  \A u \in Uids \ registered : ctr[u] = 0 /\ status[u] = "NORMAL"

\* With one handler, what a pending request decided still holds.
PendingCurrent ==
  \A h \in Handlers : req[h].pc = "update" =>
    /\ req[h].uid \in registered
    /\ req[h].verdict = Verdict(ctr[req[h].uid], req[h].ctr)
    /\ req[h].store = CounterToStore(ctr[req[h].uid], req[h].ctr)

SerialInv == IInv /\ AbsentBlank /\ PendingCurrent

LEMMA SerialInvariant ==
  ASSUME NEW only, Handlers = {only}
  PROVE  Spec => []SerialInv
<1> USE ConstantsAssumption
<1>1. Init => AbsentBlank /\ PendingCurrent
  BY DEF Init, AbsentBlank, PendingCurrent, Idle
<1>2. IInv /\ AbsentBlank /\ PendingCurrent /\ IInv' /\ [Next]_vars
        => AbsentBlank' /\ PendingCurrent'
  <2> SUFFICES ASSUME IInv, AbsentBlank, PendingCurrent, IInv', [Next]_vars
               PROVE  AbsentBlank' /\ PendingCurrent'
    OBVIOUS
  <2> USE DEF IInv, TypeOK, AbsentBlank, PendingCurrent
  <2>1. ASSUME NEW u \in Uids, TagTap(u) \/ TagProgram(u)
        PROVE  AbsentBlank' /\ PendingCurrent'
    BY <2>1 DEF TagTap, TagProgram, Verdict, CounterToStore
  <2>2. ASSUME VerifyRead(only)
        PROVE  AbsentBlank' /\ PendingCurrent'
    <3>1. PICK s \in suns :
            /\ s.uid \in registered
            /\ req' = [req EXCEPT ![only] =
                 [pc |-> "update", uid |-> s.uid, ctr |-> s.ctr,
                  store |-> CounterToStore(ctr[s.uid], s.ctr),
                  verdict |-> Verdict(ctr[s.uid], s.ctr)]]
      BY <2>2 DEF VerifyRead, Authentic
    <3>2. UNCHANGED <<registered, ctr, status>>
      BY <2>2 DEF VerifyRead, Authentic
    <3> QED
      BY <3>1, <3>2 DEF Verdict, CounterToStore
  <2>3. ASSUME VerifyAccept(only) \/ VerifyRefuse(only) \/ VerifyAnswer(only)
        PROVE  AbsentBlank' /\ PendingCurrent'
    <3>1. req'[only].pc # "update"
      BY <2>3 DEF VerifyAccept, VerifyRefuse, VerifyAnswer, Idle, Requests
    <3>2. AbsentBlank'
      BY <2>3 DEF VerifyAccept, VerifyRefuse, VerifyAnswer, UpdateCardCTR
    <3> QED
      BY <3>1, <3>2
  <2>4. ASSUME NEW u \in Uids,
               \/ CardWrite(only, u) \/ CardChecked(only, u)
               \/ \E k \in Keys : CardPWUpdate(only, u, k) \/ CardDel(only, u, k)
        PROVE  AbsentBlank' /\ PendingCurrent'
    <3>1. req[only].pc = "idle" /\ req' = req
      BY <2>4 DEF CardWrite, CardChecked, CardPWUpdate, CardDel
    <3>2. PendingCurrent'
      BY <3>1
    <3>3. AbsentBlank'
      BY <2>4 DEF CardWrite, CardChecked, CardPWUpdate, CardDel, card
    <3> QED
      BY <3>2, <3>3
  <2>5. CASE Restart
    BY <2>5 DEF Restart, Idle
  <2>6. CASE UNCHANGED vars
    BY <2>6 DEF vars, Verdict, CounterToStore
  <2> QED
    BY <2>1, <2>2, <2>3, <2>4, <2>5, <2>6 DEF Next
<1> QED
  BY <1>1, <1>2, CountersSound, PTL DEF SerialInv, Spec

LEMMA LedgerStep ==
  ASSUME NEW u \in Uids, NEW c \in 1..MaxRead,
         Ledger!Accept(u, c) \/ Ledger!Refuse(u, c)
  PROVE  Ledger!Next
BY DEF Ledger!Next

\* With one handler the stored counters and flags behave as the ledger says:
\* every accepted tap raises the mark, every repeated one is refused.
THEOREM SerialImplementsLedger ==
  ASSUME NEW only, Handlers = {only}
  PROVE  Spec => LedgerSpec
<1> USE ConstantsAssumption
<1>1. Init => Ledger!Init
  BY DEF Init, Ledger!Init
<1>2. SerialInv /\ [Next]_vars => [Ledger!Next]_(Ledger!ledger)
  <2> SUFFICES ASSUME SerialInv, [Next]_vars
               PROVE  Ledger!Next \/ UNCHANGED <<registered, ctr, status>>
    BY DEF Ledger!ledger
  <2> USE DEF SerialInv, IInv, TypeOK
  <2>1. ASSUME VerifyAccept(only)
        PROVE  Ledger!Next
    <3> DEFINE u == req[only].uid
               c == req[only].ctr
    <3>1. /\ u \in registered /\ u \in Uids /\ c \in 0..MaxRead /\ c # 0
          /\ ctr[u] \in 0..MaxRead
          /\ req[only].verdict = Verdict(ctr[u], c)
          /\ req[only].store = c
      BY <2>1 DEF VerifyAccept, PendingCurrent, PendingStore, NotMirrored, Requests
    <3>2. c > ctr[u] /\ c \in 1..MaxRead
      BY <2>1, <3>1, VerdictType DEF VerifyAccept
    <3>3. /\ ctr' = [ctr EXCEPT ![u] = c]
          /\ registered' = registered
          /\ \A v \in Uids : status'[v] = "REPEATED" <=> status[v] = "REPEATED"
      BY <2>1, <3>1 DEF VerifyAccept, UpdateCardCTR
    <3>4. Ledger!Accept(u, c)
      BY <3>1, <3>2, <3>3 DEF Ledger!Accept
    <3> QED
      BY <3>1, <3>2, <3>4, LedgerStep
  <2>2. ASSUME VerifyRefuse(only)
        PROVE  Ledger!Next
    <3>1. req[only].uid \in Uids /\ req[only].ctr \in 0..MaxRead
      BY DEF Requests
    <3>2. PICK u \in Uids, c \in 0..MaxRead : u = req[only].uid /\ c = req[only].ctr
      BY <3>1
    <3>3. /\ u \in registered /\ c # 0 /\ ctr[u] \in 0..MaxRead
          /\ Verdict(ctr[u], c) = "REPEATED"
          /\ req[only].store = CounterToStore(ctr[u], c)
      BY <2>2, <3>2 DEF VerifyRefuse, PendingCurrent, PendingStore, NotMirrored
    <3>4. c <= ctr[u] /\ req[only].store = ctr[u] /\ c \in 1..MaxRead
      BY <3>3, VerdictType
    <3>5. /\ ctr' = ctr /\ registered' = registered
          /\ status' = [status EXCEPT ![u] = "REPEATED"]
      BY <2>2, <3>2, <3>3, <3>4 DEF VerifyRefuse, UpdateCardCTR
    <3>6. {v \in Uids : status'[v] = "REPEATED"}
            = {v \in Uids : status[v] = "REPEATED"} \cup {u}
      BY <3>5
    <3>7. Ledger!Refuse(u, c)
      BY <3>3, <3>4, <3>5, <3>6 DEF Ledger!Refuse
    <3> QED
      BY <3>4, <3>7, LedgerStep
  <2>3. ASSUME NEW u \in Uids, CardWrite(only, u), u \notin registered
        PROVE  Ledger!Next
    <3>1. /\ registered' = registered \cup {u}
          /\ ctr' = ctr /\ status' = status
      BY <2>3 DEF CardWrite, AbsentBlank
    <3> QED
      BY <2>3, <3>1 DEF Ledger!Next, Ledger!Register
  <2>4. ASSUME NEW u \in Uids, CardChecked(only, u)
        PROVE  Ledger!Next
    <3>1. {v \in Uids : status'[v] = "REPEATED"}
            = {v \in Uids : status[v] = "REPEATED"} \ {u}
      BY <2>4 DEF CardChecked
    <3> QED
      BY <2>4, <3>1 DEF Ledger!Next, Ledger!Clear, CardChecked
  <2>5. ASSUME NEW u \in Uids, NEW k \in Keys, CardDel(only, u, k)
        PROVE  Ledger!Next
    <3>1. {v \in Uids : status'[v] = "REPEATED"}
            = {v \in Uids : status[v] = "REPEATED"} \ {u}
      BY <2>5 DEF CardDel
    <3> QED
      BY <2>5, <3>1 DEF Ledger!Next, Ledger!Unregister, CardDel
  <2>6. CASE UNCHANGED <<registered, ctr, status>>
    BY <2>6
  <2> QED
    BY <2>1, <2>2, <2>3, <2>4, <2>5, <2>6
    DEF Next, TagTap, TagProgram, VerifyRead, VerifyAnswer, CardWrite, card,
        CardPWUpdate, Restart, vars
<1> QED
  BY <1>1, <1>2, SerialInvariant, PTL DEF LedgerSpec, Ledger!Spec, Spec

\* With one handler no tap is accepted twice: acceptance raises the counter.
THEOREM SerialNoReplay ==
  ASSUME NEW only, Handlers = {only}
  PROVE  Spec => AcceptRaisesCounter
<1> USE ConstantsAssumption
<1> DEFINE Raises == \A h \in Handlers :
                       VerifyAccept(h) /\ req[h].uid \in registered
                         => ctr'[req[h].uid] > ctr[req[h].uid]
<1>1. SerialInv /\ [Next]_vars => [Raises]_vars
  <2> SUFFICES ASSUME SerialInv, NEW h \in Handlers, VerifyAccept(h),
                      req[h].uid \in registered
               PROVE  ctr'[req[h].uid] > ctr[req[h].uid]
    OBVIOUS
  <2> USE DEF SerialInv, IInv, TypeOK
  <2>1. req[h].uid \in Uids /\ req[h].ctr \in 0..MaxRead
    BY DEF Requests
  <2>2. PICK u \in Uids, c \in 0..MaxRead : u = req[h].uid /\ c = req[h].ctr
    BY <2>1
  <2>3. /\ u \in registered /\ c # 0 /\ ctr[u] \in 0..MaxRead
        /\ Verdict(ctr[u], c) # "REPEATED"
        /\ req[h].store = c
    BY <2>2 DEF VerifyAccept, PendingCurrent, PendingStore, NotMirrored
  <2>4. c > ctr[u]
    BY <2>3, VerdictType
  <2>5. ctr'[u] = c
    BY <2>2, <2>3 DEF VerifyAccept, UpdateCardCTR
  <2> QED
    BY <2>2, <2>4, <2>5
<1> QED
  BY <1>1, SerialInvariant, PTL DEF AcceptRaisesCounter, Spec
\* With one handler, the key a pending SUN was made with is still the card's.
PendingUnderKey ==
  \A h \in Handlers : req[h].pc = "update" =>
    [uid |-> req[h].uid, ctr |-> req[h].ctr, key |-> fkey[req[h].uid]] \in suns

LEMMA PendingUnderKeyStep ==
  ASSUME NEW only, Handlers = {only}, TypeOK, PendingUnderKey, [Next]_vars
  PROVE  PendingUnderKey'
<1> USE DEF TypeOK, PendingUnderKey
<1>1. CASE VerifyRead(only)
  <2>1. PICK s \in suns :
          /\ s.key = fkey[s.uid]
          /\ req' = [req EXCEPT ![only] =
               [pc |-> "update", uid |-> s.uid, ctr |-> s.ctr,
                store |-> CounterToStore(ctr[s.uid], s.ctr),
                verdict |-> Verdict(ctr[s.uid], s.ctr)]]
    BY <1>1 DEF VerifyRead, Authentic
  <2>2. req'[only].uid = s.uid /\ req'[only].ctr = s.ctr
    BY <2>1
  <2>3. s = [uid |-> s.uid, ctr |-> s.ctr, key |-> s.key]
    BY DEF Suns
  <2>4. UNCHANGED <<fkey, suns>>
    BY <1>1 DEF VerifyRead
  <2> QED
    BY <2>1, <2>2, <2>3, <2>4
<1>2. CASE VerifyAccept(only) \/ VerifyRefuse(only) \/ VerifyAnswer(only)
  <2>1. req'[only].pc # "update"
    BY <1>2 DEF VerifyAccept, VerifyRefuse, VerifyAnswer, Idle, Requests
  <2> QED
    BY <2>1
<1>3. ASSUME NEW u \in Uids,
             \/ CardWrite(only, u) \/ CardChecked(only, u)
             \/ \E k \in Keys : CardPWUpdate(only, u, k) \/ CardDel(only, u, k)
      PROVE  PendingUnderKey'
  <2>1. req[only].pc = "idle" /\ req' = req
    BY <1>3 DEF CardWrite, CardChecked, CardPWUpdate, CardDel
  <2> QED
    BY <2>1
<1>4. ASSUME NEW u \in Uids, TagTap(u) \/ TagProgram(u)
      PROVE  PendingUnderKey'
  <2>1. UNCHANGED <<req, fkey>> /\ suns \subseteq suns'
    BY <1>4 DEF TagTap, TagProgram
  <2> QED
    BY <2>1
<1>5. CASE Restart
  BY <1>5 DEF Restart, Idle
<1>6. CASE UNCHANGED vars
  BY <1>6 DEF vars
<1> QED
  BY <1>1, <1>2, <1>3, <1>4, <1>5, <1>6 DEF Next

\* With one handler no SUN is accepted under a key the card no longer has.
THEOREM SerialCurrentKey ==
  ASSUME NEW only, Handlers = {only}
  PROVE  Spec => AcceptedUnderCurrentKey
<1> DEFINE Current == \A h \in Handlers :
       VerifyAccept(h) /\ req[h].uid \in registered
         => [uid |-> req[h].uid, ctr |-> req[h].ctr, key |-> fkey[req[h].uid]]
              \in suns
<1>1. Init => PendingUnderKey
  BY DEF Init, Idle, PendingUnderKey
<1>2. TypeOK /\ PendingUnderKey /\ [Next]_vars => PendingUnderKey'
  BY PendingUnderKeyStep
<1>3. PendingUnderKey /\ [Next]_vars => [Current]_vars
  BY DEF PendingUnderKey, VerifyAccept
<1> QED
  BY <1>1, <1>2, <1>3, TypeCorrect, PTL DEF AcceptedUnderCurrentKey, Spec
=============================================================================
