------------------------------ MODULE MCUdisk ------------------------------
(***************************************************************************)
(* Instances of Udisk for TLC.                                             *)
(***************************************************************************)
EXTENDS Udisk
=============================================================================
