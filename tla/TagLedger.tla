------------------------------ MODULE TagLedger ------------------------------
(***************************************************************************)
(* What the card database promises about the read counters of the tags,   *)
(* told without requests, keys or transactions: a registered card has a    *)
(* high-water mark, a tap above it is accepted and raises it, a tap at or  *)
(* below it is refused and flags the card until an administrator clears    *)
(* the flag.  SunVerify implements it when handlers run one at a time.     *)
(***************************************************************************)
EXTENDS Naturals

CONSTANTS Uids,             \* the tags
          MaxRead           \* the largest value of a tag's read counter

VARIABLES listed,           \* the registered cards
          mark,             \* mark[u]: the highest accepted counter, 0 if none
          flagged           \* the cards flagged REPEATED

ledger == <<listed, mark, flagged>>

Init == listed = {} /\ mark = [u \in Uids |-> 0] /\ flagged = {}

Register(u) ==
  /\ u \notin listed
  /\ listed' = listed \cup {u}
  /\ UNCHANGED <<mark, flagged>>

Unregister(u) ==
  /\ u \in listed
  /\ listed' = listed \ {u}
  /\ mark' = [mark EXCEPT ![u] = 0]
  /\ flagged' = flagged \ {u}

Accept(u, c) ==
  /\ u \in listed
  /\ c > mark[u]
  /\ mark' = [mark EXCEPT ![u] = c]
  /\ UNCHANGED <<listed, flagged>>

Refuse(u, c) ==
  /\ u \in listed
  /\ c <= mark[u]
  /\ flagged' = flagged \cup {u}
  /\ UNCHANGED <<listed, mark>>

Clear(u) ==
  /\ u \in listed
  /\ flagged' = flagged \ {u}
  /\ UNCHANGED <<listed, mark>>

Next == \E u \in Uids :
  \/ Register(u) \/ Unregister(u) \/ Clear(u)
  \/ \E c \in 1..MaxRead : Accept(u, c) \/ Refuse(u, c)

Spec == Init /\ [][Next]_ledger
=============================================================================
