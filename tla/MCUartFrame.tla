---------------------------- MODULE MCUartFrame ----------------------------
(***************************************************************************)
(* Instances of UartFrame for TLC, with bytes of three bits.               *)
(***************************************************************************)
EXTENDS UartFrame

\* head, 0, length, body, checksum: two without and two with head bytes inside,
\* the second of which hold what looks like a frame.
MCFrames == {<<7, 0, 4, 0, 1, 2, 3, 6>>, <<7, 0, 5, 0, 2, 1, 1, 2, 6>>,
             <<7, 0, 4, 7, 7, 0, 7, 5>>, <<7, 0, 5, 0, 7, 0, 4, 0, 3>>}
=============================================================================
