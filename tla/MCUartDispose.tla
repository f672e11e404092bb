--------------------------- MODULE MCUartDispose ----------------------------
(***************************************************************************)
(* Instances of UartDispose for TLC.                                       *)
(***************************************************************************)
EXTENDS UartDispose, TLC

CONSTANTS main, hid
MCThreads == {main, hid}
MCSymmetry == Permutations(MCThreads)
=============================================================================
