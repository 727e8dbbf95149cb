---------------------------- MODULE MCAppSession ----------------------------
(* Small instances of AppSession.                                           *)
EXTENDS AppSession, TLC
=============================================================================
