------------------------------- MODULE MCHid -------------------------------
(***************************************************************************)
(* Instances of Hid for TLC.                                               *)
(***************************************************************************)
EXTENDS Hid
=============================================================================
