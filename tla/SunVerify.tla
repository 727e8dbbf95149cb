------------------------------ MODULE SunVerify ------------------------------
(***************************************************************************)
(* The tap verification path of the server and the card records it reads   *)
(* and writes: verifySUN and VerifyPICCData, the card transactions of      *)
(* CardDatabase, and the administrator's cardwrite / cardchecked /         *)
(* cardpwupdate / carddel.                                                 *)
(*                                                                         *)
(* Every HTTP request runs in a goroutine of its own (a handler here).  A  *)
(* bbolt transaction is one atomic step; a handler that uses two of them   *)
(* (VerifyPICCData reads the record in a View and writes the counter in an *)
(* Update) can be overtaken in between.  A tag is outside the server: it   *)
(* counts its reads and emits SUN messages, which may reach the server     *)
(* late, twice, out of order or never.                                     *)
(***************************************************************************)
EXTENDS Naturals, FiniteSets

CONSTANTS Uids,            \* card identifiers (7-byte UIDs)
          Keys,            \* file keys
          DerivedKey,      \* DerivedKey[u]: the key GenCardFileKey gives u
          Mirrored,        \* tags configured to mirror their read counter
          Handlers,        \* request goroutines that may run at once
          MaxRead,         \* bound on a tag's read counter
          JumpThreshold    \* statusCtrJumpThreshold

ASSUME ConstantsAssumption ==
  /\ Uids # {}
  /\ DerivedKey \in [Uids -> Keys]
  /\ Mirrored \subseteq Uids
  /\ MaxRead \in Nat \ {0}
  /\ JumpThreshold \in Nat

VARIABLES registered,      \* the keys of the card bucket
          fkey, ctr, status,      \* the fields of a card record, per uid
          reads, tagKey,   \* a tag's read counter and the key it holds
          suns,            \* every SUN emitted so far
          req,             \* req[h]: the request handler h is serving
          peak             \* history: highest counter ever accepted, per uid

card == <<registered, fkey, ctr, status>>
tag  == <<reads, tagKey, suns>>
vars == <<registered, fkey, ctr, status, reads, tagKey, suns, req, peak>>

Statuses == {"NORMAL", "JUMP", "REPEATED"}

\* The counter field of a SUN whose tag does not mirror it.
NotMirrored == 0

Suns == [uid : Uids, ctr : 0..MaxRead, key : Keys]

\* What a handler holds between its transactions: the uid and counter of the
\* SUN, the counter it is about to store and the verdict it has reached.
Requests == [pc : {"idle", "update", "link"}, uid : Uids, ctr : 0..MaxRead,
             store : 0..MaxRead, verdict : Statuses]

Idle == [pc |-> "idle", uid |-> CHOOSE u \in Uids : TRUE, ctr |-> 0,
         store |-> 0, verdict |-> "NORMAL"]

TypeOK ==
  /\ registered \subseteq Uids
  /\ fkey \in [Uids -> Keys]
  /\ ctr \in [Uids -> 0..MaxRead]
  /\ status \in [Uids -> Statuses]
  /\ reads \in [Uids -> 0..MaxRead]
  /\ tagKey \in [Uids -> Keys]
  /\ suns \subseteq Suns
  /\ req \in [Handlers -> Requests]
  /\ peak \in [Uids -> 0..MaxRead]

Init ==
  /\ registered = {}
  /\ fkey = DerivedKey
  /\ ctr = [u \in Uids |-> 0]
  /\ status = [u \in Uids |-> "NORMAL"]
  /\ reads = [u \in Uids |-> 0]
  /\ tagKey = DerivedKey
  /\ suns = {}
  /\ req = [h \in Handlers |-> Idle]
  /\ peak = [u \in Uids |-> 0]

-----------------------------------------------------------------------------
(* The tag, outside the server: a tap emits a SUN carrying the next value  *)
(* of the read counter; the phone that wrote the card programs the file    *)
(* key the server returned.                                                *)

TagTap(u) ==
  /\ reads[u] < MaxRead
  /\ reads' = [reads EXCEPT ![u] = @ + 1]
  /\ suns' = suns \cup {[uid |-> u, key |-> tagKey[u],
                         ctr |-> IF u \in Mirrored THEN reads[u] + 1
                                                   ELSE NotMirrored]}
  /\ UNCHANGED <<registered, fkey, ctr, status, tagKey, req, peak>>

TagProgram(u) ==
  /\ u \in registered
  /\ tagKey' = [tagKey EXCEPT ![u] = fkey[u]]
  /\ UNCHANGED <<registered, fkey, ctr, status, reads, suns, req, peak>>

-----------------------------------------------------------------------------
(* Verification of a SUN.                                                  *)

VerdictSame(saved, c) ==           \* mutant: the same counter passes
  IF saved = 0 THEN "NORMAL" ELSE IF c < saved THEN "REPEATED"
  ELSE IF c - saved > JumpThreshold THEN "JUMP" ELSE "NORMAL"

VerdictNext(saved, c) ==           \* mutant: the next counter is refused
  IF saved = 0 THEN "NORMAL" ELSE IF c <= saved + 1 THEN "REPEATED"
  ELSE IF c - saved > JumpThreshold THEN "JUMP" ELSE "NORMAL"

\* The status decision, from the stored counter and the one in the SUN.  A
\* stored 0 is the placeholder of a card that has not been scanned yet.
Verdict(saved, c) ==
  IF saved = 0 THEN "NORMAL"
  ELSE IF c <= saved THEN "REPEATED"
  ELSE IF c - saved > JumpThreshold THEN "JUMP"
  ELSE "NORMAL"

CounterToStoreNext(saved, c) == c + 1    \* mutant: the counter expected next
CounterToStoreNone(saved, c) ==          \* mutant: a refused SUN stores nothing
  IF Verdict(saved, c) = "REPEATED" THEN 0 ELSE c

\* A refused SUN writes back the counter that was read, not its own.
CounterToStore(saved, c) == IF Verdict(saved, c) = "REPEATED" THEN saved ELSE c

AuthenticAnyKey(s) == s.uid \in registered /\ s.ctr # NotMirrored   \* mutant

\* The card is known, the MAC was made with its key, and a counter is there.
Authentic(s) ==
  /\ s.uid \in registered
  /\ s.key = fkey[s.uid]
  /\ s.ctr # NotMirrored

\* First transaction: ReadCardFilekey, then the MAC comparison and the status
\* decision on the values read.  A SUN of an unknown card, one under another
\* key, or one without a counter fails here and leaves no trace.
VerifyRead(h) ==
  /\ req[h].pc = "idle"
  /\ \E s \in suns :
       /\ Authentic(s)
       /\ req' = [req EXCEPT ![h] =
            [pc |-> "update", uid |-> s.uid, ctr |-> s.ctr,
             store |-> CounterToStore(ctr[s.uid], s.ctr),
             verdict |-> Verdict(ctr[s.uid], s.ctr)]]
  /\ UNCHANGED <<registered, fkey, ctr, status, reads, tagKey, suns, peak>>

UpdateCardCTRPlain(u, c, st) ==      \* mutant: the flag is overwritten
  /\ ctr' = [ctr EXCEPT ![u] = IF u \in registered THEN c ELSE @]
  /\ status' = [status EXCEPT ![u] = IF u \in registered THEN st ELSE @]
  /\ UNCHANGED <<registered, fkey>>

UpdateCardCTRSticky(u, c, st) ==     \* mutant: JUMP is kept like REPEATED
  /\ ctr' = [ctr EXCEPT ![u] = IF u \in registered THEN c ELSE @]
  /\ status' = [status EXCEPT ![u] =
                  IF u \in registered /\ @ = "NORMAL" THEN st ELSE @]
  /\ UNCHANGED <<registered, fkey>>

\* UpdateCardCTR: on a missing card it fails, and its caller ignores that.
UpdateCardCTR(u, c, st) ==
  /\ ctr' = [ctr EXCEPT ![u] = IF u \in registered THEN c ELSE @]
  /\ status' = [status EXCEPT ![u] =
                  IF u \in registered /\ @ # "REPEATED" THEN st ELSE @]
  /\ UNCHANGED <<registered, fkey>>

\* Second transaction of an accepted SUN; the card link is still to be read.
VerifyAccept(h) ==
  /\ req[h].pc = "update"
  /\ req[h].verdict # "REPEATED"
  /\ UpdateCardCTR(req[h].uid, req[h].store, req[h].verdict)
  /\ req' = [req EXCEPT ![h].pc = "link"]
  /\ peak' = [peak EXCEPT ![req[h].uid] =
                IF req[h].ctr > @ THEN req[h].ctr ELSE @]
  /\ UNCHANGED tag

\* Second transaction of a repeated SUN, answered with FAIL.
VerifyRefuse(h) ==
  /\ req[h].pc = "update"
  /\ req[h].verdict = "REPEATED"
  /\ UpdateCardCTR(req[h].uid, req[h].store, "REPEATED")
  /\ req' = [req EXCEPT ![h] = Idle]
  /\ UNCHANGED <<reads, tagKey, suns, peak>>

\* Third transaction: ReadCardData, and the OK answer with or without a link.
VerifyAnswer(h) ==
  /\ req[h].pc = "link"
  /\ req' = [req EXCEPT ![h] = Idle]
  /\ UNCHANGED <<registered, fkey, ctr, status, reads, tagKey, suns, peak>>

-----------------------------------------------------------------------------
(* The administrator's handlers: one transaction each, run by a goroutine  *)
(* that is not serving anything else.                                      *)

CardWriteFresh(h, u) ==              \* mutant: a known card starts again
  /\ req[h].pc = "idle"
  /\ registered' = registered \cup {u}
  /\ fkey' = [fkey EXCEPT ![u] = DerivedKey[u]]
  /\ ctr' = [ctr EXCEPT ![u] = 0]
  /\ status' = [status EXCEPT ![u] = "NORMAL"]
  /\ UNCHANGED <<reads, tagKey, suns, req, peak>>

\* WriteCardData: a known card keeps key, counter and status (only its link
\* and signature, not modelled here, change); a new one starts at counter 0.
CardWrite(h, u) ==
  /\ req[h].pc = "idle"
  /\ \/ /\ u \in registered
        /\ UNCHANGED card
     \/ /\ u \notin registered
        /\ registered' = registered \cup {u}
        /\ fkey' = [fkey EXCEPT ![u] = DerivedKey[u]]
        /\ ctr' = [ctr EXCEPT ![u] = 0]
        /\ status' = [status EXCEPT ![u] = "NORMAL"]
  /\ UNCHANGED <<reads, tagKey, suns, req, peak>>

CardChecked(h, u) ==
  /\ req[h].pc = "idle"
  /\ u \in registered
  /\ status' = [status EXCEPT ![u] = "NORMAL"]
  /\ UNCHANGED <<registered, fkey, ctr, reads, tagKey, suns, req, peak>>

CardPWUpdate(h, u, k) ==
  /\ req[h].pc = "idle"
  /\ u \in registered
  /\ fkey' = [fkey EXCEPT ![u] = k]
  /\ UNCHANGED <<registered, ctr, status, reads, tagKey, suns, req, peak>>

\* The record goes only if the password sent is the stored file key.
CardDel(h, u, pw) ==
  /\ req[h].pc = "idle"
  /\ u \in registered
  /\ pw = fkey[u]
  /\ registered' = registered \ {u}
  /\ fkey' = [fkey EXCEPT ![u] = DerivedKey[u]]
  /\ ctr' = [ctr EXCEPT ![u] = 0]
  /\ status' = [status EXCEPT ![u] = "NORMAL"]
  /\ UNCHANGED <<reads, tagKey, suns, req, peak>>

\* The process stops and is started again: requests are lost, the file is not.
Restart ==
  /\ \E h \in Handlers : req[h].pc # "idle"
  /\ req' = [h \in Handlers |-> Idle]
  /\ UNCHANGED <<registered, fkey, ctr, status, reads, tagKey, suns, peak>>

Next ==
  \/ \E u \in Uids : TagTap(u) \/ TagProgram(u)
  \/ \E h \in Handlers :
       VerifyRead(h) \/ VerifyAccept(h) \/ VerifyRefuse(h) \/ VerifyAnswer(h)
  \/ \E h \in Handlers, u \in Uids :
       \/ CardWrite(h, u) \/ CardChecked(h, u)
       \/ \E k \in Keys : CardPWUpdate(h, u, k) \/ CardDel(h, u, k)
  \/ Restart

Spec == Init /\ [][Next]_vars

-----------------------------------------------------------------------------
(* Properties that hold whatever the interleaving of the handlers.         *)

\* A counter is stored only after the server accepted a SUN that carries it
\* or a higher one: VerifyPICCData never writes a value of its own making,
\* even when the card is deleted and written again under a pending request.
StoredCounterWasAccepted == \A u \in Uids : ctr[u] <= peak[u]

\* No false alarm: VerifyPICCData treats a SUN as repeated only if the server
\* really accepted that counter or a later one of the same tag before.
RepeatedWasAccepted ==
  \A h \in Handlers :
    req[h].pc = "update" /\ req[h].verdict = "REPEATED"
      => req[h].ctr <= peak[req[h].uid]

\* Once a first scan has set the baseline, no request brings the counter back
\* to the placeholder 0, on which VerifyPICCData would accept any old SUN.
BaselineKept ==
  [][\A u \in Uids :
       u \in registered /\ u \in registered' /\ ctr[u] # 0 => ctr'[u] # 0]_vars

\* A REPEATED flag survives every tap, rewrite, key change and restart: only
\* cardchecked, or deleting the card, takes it away.
FlagKept ==
  [][\A u \in Uids :
       u \in registered /\ status[u] = "REPEATED"
         => \/ status'[u] = "REPEATED"
            \/ u \notin registered'
            \/ \E h \in Handlers : CardChecked(h, u)]_vars

\* A tap found to be repeated leaves the card flagged whatever ran since the
\* decision, unless the card is gone.
RefusalFlags ==
  [][\A h \in Handlers :
       req[h].pc = "update" /\ req[h].verdict = "REPEATED" /\ VerifyRefuse(h)
         => \/ req[h].uid \notin registered'
            \/ status'[req[h].uid] = "REPEATED"]_vars

(* Properties that hold when handlers run one at a time, and not otherwise. *)

\* A SUN is accepted only above the counter it replaces: the same tap is
\* never accepted twice and the stored counter never goes back.
AcceptRaisesCounter ==
  [][\A h \in Handlers :
       VerifyAccept(h) /\ req[h].uid \in registered
         => ctr'[req[h].uid] > ctr[req[h].uid]]_vars

\* A SUN is accepted only while the card still has the key it was made with:
\* after cardpwupdate, messages under the old key are dead.
AcceptedUnderCurrentKey ==
  [][\A h \in Handlers :
       VerifyAccept(h) /\ req[h].uid \in registered
         => [uid |-> req[h].uid, ctr |-> req[h].ctr, key |-> fkey[req[h].uid]]
              \in suns]_vars

\* The card records implement the ledger of counters: registrations, accepted
\* and refused taps and cleared flags are its steps, everything else stutters.
Ledger == INSTANCE TagLedger WITH
            listed <- registered, mark <- ctr,
            flagged <- {u \in Uids : status[u] = "REPEATED"}
LedgerSpec == Ledger!Spec
=============================================================================
