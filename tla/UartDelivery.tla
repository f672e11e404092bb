---------------------------- MODULE UartDelivery ----------------------------
(***************************************************************************)
(* UartSend implements Delivery: the send list is the queue, and a frame   *)
(* is on its way to the line from mailbox_post to the send task's test of  *)
(* free_flag.                                                              *)
(***************************************************************************)
EXTENDS UartSend

\* The number in a frame is uart_send_sn or the peer's.
SentFrames == [kind : {"ntf", "reply"}, sn : 0 .. SnMod - 1 \cup PeerSn]

Waits(b) == [slot |-> b, frame |-> frame[b], tries |-> posts[b], answered |-> answered[b]]
OnItsWay(b) == [slot |-> b, frame |-> frame[b]]

QueueOfList == [i \in DOMAIN sendList |-> Waits(sendList[i])]
Outgoing == IF sendBuf = NoBuf THEN mbx ELSE <<sendBuf>> \o mbx
LineOfMailbox == [i \in DOMAIN Outgoing |-> OnItsWay(Outgoing[i])]

Delivery == INSTANCE Delivery WITH
    Slots <- Buf, Frames <- SentFrames, MaxTries <- MaxTimes,
    queue <- QueueOfList, line <- LineOfMailbox

\* The sender keeps the promises of Delivery: frames are transmitted in their
\* turn and as they were submitted, a reply once, a notification until its answer is
\* seen or its tries are used up and never after, and no buffer is filled anew
\* while its frame is listed, in the mailbox, or being written.
ImplementsDelivery == Delivery!Spec
=============================================================================
