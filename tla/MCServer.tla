------------------------------ MODULE MCServer ------------------------------
(***************************************************************************)
(* Instances of Server for TLC.  The module is finite as it stands.        *)
(***************************************************************************)
EXTENDS Server
=============================================================================
