----------------------------- MODULE AncientAuth -----------------------------
(***************************************************************************)
(* The picture demonstration kept for old clients (ancientAuth): a request *)
(* submits pictures of an object, each of which is compared with the       *)
(* reference picture of its own number.  A request and its answer are one  *)
(* function: the requests share nothing but ./uploadtmp, where each has a  *)
(* directory of its own.                                                   *)
(***************************************************************************)
EXTENDS Integers, Sequences

CONSTANTS Objects,         \* ids of list
          WithItems        \* those that listitem has too

ASSUME ObjectsAssumption == WithItems \subseteq Objects /\ "" \notin Objects

\* Scores are in hundredths; a distance is what AuthDemo sums over the bins.
ScoreBase == 250
NotCompared == -100        \* the score AuthDemo starts from

Sum(s) ==
  LET sum[n \in 0..Len(s)] == IF n = 0 THEN 0 ELSE sum[n - 1] + s[n]
  IN sum[Len(s)]

\* MakeAuthDB: of two references per object, those whose file is there; disk[o]
\* is the sequence of the two, each "none", "ok", or "bad" (not a jpeg).
References(disk, o) ==
  LET added(f) == IF f = "none" THEN <<>> ELSE <<f>>
  IN IF o \in WithItems THEN added(disk[o][1]) \o added(disk[o][2]) ELSE <<>>

\* authRef: the references of an object, for the page to show.
authRef(disk, o) ==
  IF o = "" THEN "notfound" ELSE IF References(disk, o) = <<>> THEN "FAIL" ELSE "OK"

-----------------------------------------------------------------------------
(* authSubmit.  A part of the form is missing ("none"), no jpeg ("bad"), or a *)
(* picture, with its distance from the reference it is compared with.      *)

Parts == [kind : {"none", "bad", "picture"}, distance : Int]

\* AuthDemo, with a reference there: one that cannot be decoded leaves the
\* score as it began.
AuthDemo(refs, i, part) ==
  IF refs[i] = "bad" THEN NotCompared ELSE part.distance - ScoreBase

\* What picture i comes to: a failed request ends there.
testResult(refs, i, part) ==
  CASE part.kind = "none" -> "missing"
    [] part.kind = "bad" -> "undecodable"
    [] part.kind = "picture" -> IF i > Len(refs) THEN "panic" ELSE "scored"

\* mutant: the sum is not divided
FinalSum(scores) ==
  LET f == 100 - Sum(scores)
  IN IF scores = <<>> \/ f < 0 THEN 0 ELSE IF f > 100 THEN 100 ELSE f

\* The final score, from 0 to 100.
Final(scores) ==
  LET f == 100 - Sum(scores) \div Len(scores)
  IN IF scores = <<>> \/ f < 0 THEN 0 ELSE IF f > 100 THEN 100 ELSE f

Reply(msg, score, left) == [msg |-> msg, score |-> score, left |-> left]

\* left: the request's directory is still in ./uploadtmp.  A picture is stored
\* before it is decoded.
authSubmit(disk, o, num, parts) ==
  LET refs == References(disk, o)
      taken == IF num < 0 THEN 0 ELSE num
      part(i) == IF i <= Len(parts) THEN parts[i] ELSE [kind |-> "none"]
      bad == {i \in 1..taken : testResult(refs, i, part(i)) # "scored"}
      first == CHOOSE i \in bad : \A j \in bad : i <= j
      how == testResult(refs, first, part(first))
      score == Final([i \in 1..taken |-> AuthDemo(refs, i, part(i))])
  IN CASE o \notin Objects -> Reply("BadRequest", 0, FALSE)
       [] o \in Objects /\ num = 0 -> Reply("FAIL", 0, FALSE)
       [] o \in Objects /\ num # 0 /\ bad # {} ->
            Reply(how, 0, first > 1 \/ how # "missing")
       [] OTHER -> Reply("OK", score, FALSE)
=============================================================================
