----------------------------- MODULE MCNetState -----------------------------
(***************************************************************************)
(* Instances of NetState for TLC.                                          *)
(***************************************************************************)
EXTENDS NetState
=============================================================================
