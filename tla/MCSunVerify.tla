----------------------------- MODULE MCSunVerify -----------------------------
(* Small instances of SunVerify: the derived key of every card is k1.      *)
EXTENDS SunVerify, TLC

CONSTANTS k1
MCDerivedKey == [u \in Uids |-> k1]
=============================================================================
