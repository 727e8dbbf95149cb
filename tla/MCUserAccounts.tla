--------------------------- MODULE MCUserAccounts ---------------------------
(* Small instances of UserAccounts.  The store starts empty, or as it is    *)
(* after the bootstrap account root has made a second admin or an operator  *)
(* of account i1, both have set passwords of their own and logged in.       *)
EXTENDS UserAccounts, TLC

CONSTANTS root, ann, p1, i1, t1, t2

Row(n, r) == [name |-> n, pw |-> p1, role |-> r, must |-> FALSE]

EmptySeed == [id \in Ids |-> Row(root, "operator")]
NoSessions == {}

TwoAdmins == [id \in Ids |-> IF id = i1 THEN Row(ann, "admin") ELSE Row(root, "admin")]
TwoAdminSessions == {[token |-> t1, id |-> root, role |-> "admin"],
                     [token |-> t2, id |-> i1, role |-> "admin"]}

HandlerSymmetry == Permutations(Handlers)
TokenSymmetry == Permutations(Tokens)

\* granted is written and never read, and no property of the serial run is
\* about it: states that differ in nothing else are one.
SerialView == <<store, lastToken, minted, req, handed, own, cut>>

OneAdminSession == {[token |-> t1, id |-> root, role |-> "admin"]}
=============================================================================
