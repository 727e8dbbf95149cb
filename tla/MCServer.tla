------------------------------ MODULE MCServer ------------------------------
(* Small instances of Server.  Servers are not interchangeable for TLC here: *)
(* StartSettles is a liveness property, for which symmetry is not sound.     *)
EXTENDS Server, TLC
=============================================================================
