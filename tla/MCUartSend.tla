----------------------------- MODULE MCUartSend -----------------------------
(***************************************************************************)
(* Instances of UartSend for TLC.                                          *)
(***************************************************************************)
EXTENDS UartDelivery, TLC

CONSTANTS main, hid, recv
MCProducers == {main, hid}
MCOneProducer == {main}

\* Poll memory that happens to be zero, ...
MCZeroed == {ZeroPoll}

\* ... or in which delay and type are left over from something else.
MCLeftover == {ZeroPoll, [delay |-> 5, times |-> 0, type |-> 7, free_flag |-> 0]}
=============================================================================
