------------------------------ MODULE MCAccess ------------------------------
(* Small instances of Access: an admin and an operator.                     *)
EXTENDS Access, TLC

CONSTANTS boss, clerk

OneAdmin == [id \in Ids |-> IF id = boss THEN "admin" ELSE "operator"]

Symmetry == Permutations(Clients) \cup Permutations(Tokens) \cup Permutations(Handlers)
=============================================================================
