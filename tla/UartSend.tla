------------------------------ MODULE UartSend ------------------------------
(***************************************************************************)
(* The reliable sender of the UART link: the buffer pool                   *)
(* g_uart_send_buf, the send list g_uart_send_list with its mutex          *)
(* uart_poll_mutex, the mailbox /mq_uart, and the threads that share them: *)
(*   - Producers: every thread that calls a *_ntf function (main, the HID  *)
(*     tasks, the U-disk task), all through uart_protocol_dispose;         *)
(*   - Recv: uart_recv_tsk, which answers the peer's commands, marks       *)
(*     notifications as answered, and reports the result of an upload;     *)
(*   - uart_poll_tsk, which walks the list every 5 ms and posts frames;    *)
(*   - uart_send_tsk, which writes posted frames to the UART.              *)
(* All threads run under SCHED_OTHER: any interleaving is possible.  The   *)
(* poll task holds uart_poll_mutex exactly while pollPc # "sleep".         *)
(***************************************************************************)
EXTENDS Integers, SequencesExt

CONSTANTS
    NumBuf,     \* buffers in the pool (16 in uart_context_init)
    MaxMsg,     \* capacity of /mq_uart (16 in uart_context_init)
    PollStep,   \* added to poll.delay by a pass (5 ms)
    PollLimit,  \* poll.delay at which a notification is posted again (500 ms)
    MaxTimes,   \* posts of a notification that is never answered (3)
    SnMod,      \* uart_send_sn is a byte (256)
    Producers, Recv,
    FreshPoll,  \* what malloc may leave in the poll field of a new buffer
    PeerSn,     \* sequence numbers of the peer's commands that get a reply
    UploadSn,   \* sequence numbers of the peer's CMD_HTTP_UP_DATA
    Timely      \* the timing assumptions TimelyRefill ... TimelyPost hold

Buf == 1 .. NumBuf
NoBuf == 0
Threads == Producers \cup {Recv}

ZeroPoll == [delay |-> 0, times |-> 0, type |-> 0, free_flag |-> 0]
\* A fresh poll field does not count as posted or answered.
CleanPoll == \A p \in FreshPoll : p.times = 0 /\ p.free_flag = 0
PollFields == [delay : Nat, times : Nat, type : Nat, free_flag : Nat]
Frames == [kind : {"ntf", "reply"}, sn : Nat]

ASSUME BoundsAssumption ==
    /\ {NumBuf, MaxMsg, PollStep, PollLimit, MaxTimes, SnMod} \subseteq Nat \ {0}
    /\ Timely \in BOOLEAN
ASSUME ThreadsAssumption == Recv \notin Producers
ASSUME DataAssumption ==
    /\ FreshPoll \subseteq PollFields
    /\ PeerSn \subseteq Nat /\ UploadSn \subseteq Nat

VARIABLES
    status,        \* "running", "exit" (ERROR) or "corrupt" (a list node linked twice)
    free,          \* the pool's ring, head first
    poll,          \* sendpdata->poll of each buffer
    frame,         \* what each buffer carries: its kind and header.sn
    sendList,      \* g_uart_send_list, head first
    mbx,           \* /mq_uart, oldest message first
    pollPc, cursor,            \* uart_poll_tsk: where it is, and the position of p
    sendPc, sendBuf,           \* uart_send_tsk: where it is, and Data_OutMbx
    held,                      \* the buffer a thread has taken and not linked yet
    recvPc, recvSn,            \* uart_recv_tsk: where it is, sn of the upload
    uart_send_sn,
    posts, answered, heard     \* history: posts of the frame, answered, received by the peer

pollVars == <<pollPc, cursor>>
sendVars == <<sendPc, sendBuf>>
recvVars == <<recvPc, recvSn>>
history  == <<posts, answered, heard>>
vars == <<status, free, poll, frame, sendList, mbx, pollVars, sendVars, held,
          recvVars, uart_send_sn, history>>

Linked == ToSet(sendList)
InFlight(b) == b \in ToSet(mbx) \/ b = sendBuf
Unlocked == pollPc = "sleep"

Init ==
    /\ status = "running"
    /\ free = [i \in Buf |-> i]
    /\ poll \in [Buf -> FreshPoll]
    /\ frame = [b \in Buf |-> [kind |-> "reply", sn |-> 0]]
    /\ sendList = <<>> /\ mbx = <<>>
    /\ pollPc = "sleep" /\ cursor = 1
    /\ sendPc = "pend" /\ sendBuf = NoBuf
    /\ held = [t \in Threads |-> NoBuf]
    /\ recvPc = "parse" /\ recvSn = 0
    /\ uart_send_sn = 0
    /\ posts = [b \in Buf |-> 0]
    /\ answered = [b \in Buf |-> FALSE]
    /\ heard = {}

-----------------------------------------------------------------------------
(* The timing assumptions, in force when Timely is TRUE.                     *)

NtfWaits(b, sn) == b \notin ToSet(free) /\ frame[b].kind = "ntf" /\ frame[b].sn = sn

\* 256 sequence numbers are not used up while a notification waits (1.5 s), ...
TimelyRefill == Timely => \A b \in Buf : ~NtfWaits(b, uart_send_sn)

\* ... nor while the peer still repeats its answer to a former one.
TimelyAnswer(b) ==
    Timely /\ b \in ToSet(free) => \A c \in Buf : ~NtfWaits(c, frame[b].sn)

\* A frame with b's number comes from the peer only once b has been posted
\* and the send task is done with it.
TimelyMark(b) ==
    Timely /\ poll[b].type = 1 => poll[b].times > 0 /\ ~InFlight(b)

\* Writing a posted frame takes less than the 500 ms before the next post.
TimelyPost(b) == Timely => ~InFlight(b)

-----------------------------------------------------------------------------
(* buf_factory_produce and buf_factory_recycle.                              *)

\* list_add_tail of a node that is in the ring already breaks the ring: what
\* the program does from there on is not modelled.
Recycle(b) ==
    IF b \in ToSet(free)
    THEN status' = "corrupt" /\ free' = free
    ELSE status' = status /\ free' = Append(free, b)

\* The pool is empty: ERROR("buf factory crash !") ends the process.
BufFactoryCrash(t) ==
    /\ status = "running" /\ held[t] = NoBuf /\ free = <<>>
    /\ status' = "exit"
    /\ UNCHANGED <<free, poll, frame, sendList, mbx, pollVars, sendVars, held,
                   recvVars, uart_send_sn, history>>

\* Thread t takes the first free buffer for frame f, with poll.type = type.
Produce(t, f, type) ==
    LET b == Head(free) IN
    /\ free # <<>>
    /\ free' = Tail(free)
    /\ held' = [held EXCEPT ![t] = b]
    /\ frame' = [frame EXCEPT ![b] = f]
    /\ poll' = [poll EXCEPT ![b].type = type]
    /\ posts' = [posts EXCEPT ![b] = 0]
    /\ answered' = [answered EXCEPT ![b] = FALSE]
    /\ heard' = heard \ {b}

-----------------------------------------------------------------------------
(* uart_protocol_dispose: take a buffer, fill it, link it.                   *)

DisposeFill(t, type) ==
    /\ status = "running" /\ held[t] = NoBuf
    /\ t = Recv => recvPc = "upload" /\ type = 0
    /\ TimelyRefill
    /\ Produce(t, [kind |-> IF type = 1 THEN "ntf" ELSE "reply", sn |-> uart_send_sn], type)
    /\ uart_send_sn' = (uart_send_sn + 1) % SnMod
    /\ UNCHANGED <<status, sendList, mbx, pollVars, sendVars, recvVars>>

\* list_add_tail under uart_poll_mutex; a node that is linked already breaks
\* the list.
Link(t) ==
    /\ status = "running" /\ held[t] # NoBuf /\ Unlocked
    /\ IF held[t] \in Linked
       THEN status' = "corrupt" /\ sendList' = sendList
       ELSE status' = status /\ sendList' = Append(sendList, held[t])
    /\ held' = [held EXCEPT ![t] = NoBuf]
    /\ UNCHANGED <<free, poll, frame, mbx, pollVars, sendVars, recvVars,
                   uart_send_sn, history>>

-----------------------------------------------------------------------------
(* uart_recv_tsk: uart_protocol_parse of one checked frame.                  *)

\* Sets free_flag of the first entry of the list whose header.sn is sn, of
\* whatever type and command; `own' is the notification the frame answers.
Mark(sn, own) ==
    /\ Unlocked
    /\ \/ /\ \A i \in DOMAIN sendList : frame[sendList[i]].sn # sn
          /\ UNCHANGED <<poll, answered>>
       \/ \E i \in DOMAIN sendList :
             LET b == sendList[i] IN
             /\ frame[b].sn = sn
             /\ \A j \in 1 .. i - 1 : frame[sendList[j]].sn # sn
             /\ TimelyMark(b)
             /\ poll' = [poll EXCEPT ![b].free_flag = 1]
             /\ answered' = [answered EXCEPT ![b] = @ \/ b = own]

\* A command with an ackword: the reply is built in a buffer, then linked.
RecvCommand(sn) ==
    /\ status = "running" /\ recvPc = "parse" /\ held[Recv] = NoBuf
    /\ Produce(Recv, [kind |-> "reply", sn |-> sn], 0)
    /\ UNCHANGED <<status, sendList, mbx, pollVars, sendVars, recvVars, uart_send_sn>>

\* The peer's answer to notification b, marked by its sequence number.
RecvResponse(b) ==
    /\ status = "running" /\ recvPc = "parse" /\ held[Recv] = NoBuf
    /\ b \in heard /\ TimelyAnswer(b)
    /\ Mark(frame[b].sn, b)
    /\ UNCHANGED <<status, free, frame, sendList, mbx, pollVars, sendVars, held,
                   recvVars, uart_send_sn, posts, heard>>

\* CMD_HTTP_UP_DATA has ackword 0: http_up_data_rsp posts the record (and
\* calls http_up_data_ntf any number of times: DisposeFill(Recv, 0)), then
\* the peer's command marks the list as if it were an answer.
RecvUpload(sn) ==
    /\ status = "running" /\ recvPc = "parse" /\ held[Recv] = NoBuf
    /\ recvPc' = "upload" /\ recvSn' = sn
    /\ UNCHANGED <<status, free, poll, frame, sendList, mbx, pollVars, sendVars,
                   held, uart_send_sn, history>>

RecvUploadMark ==
    /\ status = "running" /\ recvPc = "upload" /\ held[Recv] = NoBuf
    /\ Mark(recvSn, NoBuf)
    /\ recvPc' = "parse"
    /\ UNCHANGED <<status, free, frame, sendList, mbx, pollVars, sendVars, held,
                   recvSn, uart_send_sn, posts, heard>>

-----------------------------------------------------------------------------
(* uart_poll_tsk: every 5 ms it takes the mutex and visits the whole list.   *)

Visiting(type) ==
    /\ status = "running" /\ pollPc = "visit" /\ cursor <= Len(sendList)
    /\ poll[sendList[cursor]].type = type

PollBegin ==
    /\ status = "running" /\ Unlocked
    /\ pollPc' = "visit" /\ cursor' = 1
    /\ UNCHANGED <<status, free, poll, frame, sendList, mbx, sendVars, held,
                   recvVars, uart_send_sn, history>>

PollEnd ==
    /\ status = "running" /\ pollPc = "visit" /\ cursor > Len(sendList)
    /\ pollPc' = "sleep" /\ cursor' = 1
    /\ UNCHANGED <<status, free, poll, frame, sendList, mbx, sendVars, held,
                   recvVars, uart_send_sn, history>>

\* mailbox_post of b: it blocks, with the mutex held, while the mailbox is full.
Post(b) ==
    /\ Len(mbx) < MaxMsg
    /\ mbx' = Append(mbx, b)
    /\ posts' = [posts EXCEPT ![b] = @ + 1]
    /\ UNCHANGED <<answered, heard>>

\* list_del, memset of the poll field and recycle of the entry at the cursor.
Release(b) ==
    /\ sendList' = RemoveAt(sendList, cursor)
    /\ poll' = [poll EXCEPT ![b] = ZeroPoll]
    /\ Recycle(b)

\* PollReply that unlinks the entry before posting it.
PollReplyUnlinked ==
    /\ Visiting(0)
    /\ poll' = [poll EXCEPT ![sendList[cursor]].free_flag = 1]
    /\ sendList' = RemoveAt(sendList, cursor)
    /\ pollPc' = "post_unlink"
    /\ UNCHANGED <<status, free, frame, mbx, cursor, sendVars, held,
                   recvVars, uart_send_sn, history>>

\* A reply: free_flag is set first, so that the send task will recycle it, ...
PollReply ==
    /\ Visiting(0)
    /\ poll' = [poll EXCEPT ![sendList[cursor]].free_flag = 1]
    /\ pollPc' = "post_unlink"
    /\ UNCHANGED <<status, free, frame, sendList, mbx, cursor, sendVars, held,
                   recvVars, uart_send_sn, history>>

\* PollPostUnlink without the list_del.
PollPostLinked ==
    /\ status = "running" /\ pollPc = "post_unlink"
    /\ Post(sendList[cursor])
    /\ pollPc' = "visit" /\ cursor' = cursor + 1
    /\ UNCHANGED <<status, free, poll, frame, sendList, sendVars, held,
                   recvVars, uart_send_sn>>

\* ... then it is posted and unlinked.  The list_del after the post is in the
\* same step: the list is only touched under the mutex, which this task holds.
PollPostUnlink ==
    /\ status = "running" /\ pollPc = "post_unlink"
    /\ Post(sendList[cursor])
    /\ sendList' = RemoveAt(sendList, cursor)
    /\ pollPc' = "visit"
    /\ UNCHANGED <<status, free, poll, frame, cursor, sendVars, held,
                   recvVars, uart_send_sn>>

\* A notification that was never posted: post it, ...
PollFirst ==
    /\ Visiting(1) /\ poll[sendList[cursor]].times = 0
    /\ Post(sendList[cursor])
    /\ pollPc' = "count"
    /\ UNCHANGED <<status, free, poll, frame, sendList, cursor, sendVars, held,
                   recvVars, uart_send_sn>>

\* PollCount without times++.
PollCountForgotten ==
    /\ status = "running" /\ pollPc = "count"
    /\ pollPc' = "visit" /\ cursor' = cursor + 1
    /\ UNCHANGED <<status, free, poll, frame, sendList, mbx, sendVars, held,
                   recvVars, uart_send_sn, history>>

\* ... and count the post only after it.
PollCount ==
    /\ status = "running" /\ pollPc = "count"
    /\ poll' = [poll EXCEPT ![sendList[cursor]].times = @ + 1]
    /\ pollPc' = "visit" /\ cursor' = cursor + 1
    /\ UNCHANGED <<status, free, frame, sendList, mbx, sendVars, held,
                   recvVars, uart_send_sn, history>>

\* PollAnswered that leaves the entry to the give-up branch, which never comes.
PollAnsweredKept ==
    LET b == sendList[cursor] IN
    /\ Visiting(1) /\ poll[b].times # 0 /\ poll[b].free_flag # 0
    /\ cursor' = cursor + 1
    /\ UNCHANGED <<status, free, poll, frame, sendList, mbx, pollPc, sendVars, held,
                   recvVars, uart_send_sn, history>>

\* An answered notification leaves the list and its buffer returns.
PollAnswered ==
    LET b == sendList[cursor] IN
    /\ Visiting(1) /\ poll[b].times # 0 /\ poll[b].free_flag # 0
    /\ Release(b)
    /\ UNCHANGED <<frame, mbx, pollVars, sendVars, held, recvVars, uart_send_sn,
                   history>>

\* A posted notification without an answer yet.
Waiting ==
    LET b == sendList[cursor] IN
    Visiting(1) /\ poll[b].times # 0 /\ poll[b].free_flag = 0

Due(b) == poll[b].delay + PollStep >= PollLimit

\* PollWait without poll.delay += 5.
PollWaitUncounted ==
    /\ Waiting /\ ~Due(sendList[cursor])
    /\ cursor' = cursor + 1
    /\ UNCHANGED <<status, free, poll, frame, sendList, mbx, pollPc, sendVars, held,
                   recvVars, uart_send_sn, history>>

PollWait ==
    LET b == sendList[cursor] IN
    /\ Waiting /\ ~Due(b)
    /\ poll' = [poll EXCEPT ![b].delay = @ + PollStep]
    /\ cursor' = cursor + 1
    /\ UNCHANGED <<status, free, frame, sendList, mbx, pollPc, sendVars, held,
                   recvVars, uart_send_sn, history>>

\* LastTry off by one.
LastTryEarly(b) == poll[b].times + 1 >= MaxTimes

LastTry(b) == poll[b].times + 1 > MaxTimes

\* Half a second without an answer: count and post again, ...
PollTimeout ==
    LET b == sendList[cursor] IN
    /\ Waiting /\ Due(b) /\ ~LastTry(b) /\ TimelyPost(b)
    /\ poll' = [poll EXCEPT ![b].delay = 0, ![b].times = @ + 1]
    /\ pollPc' = "post"
    /\ UNCHANGED <<status, free, frame, sendList, mbx, cursor, sendVars, held,
                   recvVars, uart_send_sn, history>>

PollPost ==
    /\ status = "running" /\ pollPc = "post"
    /\ Post(sendList[cursor])
    /\ pollPc' = "visit" /\ cursor' = cursor + 1
    /\ UNCHANGED <<status, free, poll, frame, sendList, sendVars, held,
                   recvVars, uart_send_sn>>

\* ... or give up after the last post.
PollGiveUp ==
    LET b == sendList[cursor] IN
    /\ Waiting /\ Due(b) /\ LastTry(b) /\ TimelyPost(b)
    /\ Release(b)
    /\ UNCHANGED <<frame, mbx, pollVars, sendVars, held, recvVars, uart_send_sn,
                   history>>

PollTask ==
    \/ PollBegin \/ PollEnd
    \/ PollReply \/ PollPostUnlink
    \/ PollFirst \/ PollCount
    \/ PollAnswered \/ PollWait
    \/ PollTimeout \/ PollPost \/ PollGiveUp

-----------------------------------------------------------------------------
(* uart_send_tsk.                                                            *)

SendPend ==
    /\ status = "running" /\ sendPc = "pend" /\ mbx # <<>>
    /\ sendBuf' = Head(mbx) /\ mbx' = Tail(mbx)
    /\ sendPc' = "write"
    /\ UNCHANGED <<status, free, poll, frame, sendList, pollVars, held,
                   recvVars, uart_send_sn, history>>

\* The write loop: the whole frame reaches the peer, or an error or the line
\* loses it.
SendWrite ==
    /\ status = "running" /\ sendPc = "write"
    /\ \/ heard' = heard
       \/ frame[sendBuf].kind = "ntf" /\ heard' = heard \cup {sendBuf}
    /\ sendPc' = "check"
    /\ UNCHANGED <<status, free, poll, frame, sendList, mbx, pollVars, sendBuf,
                   held, recvVars, uart_send_sn, posts, answered>>

\* SendCheck that recycles whatever it has written.
SendCheckAlways ==
    /\ status = "running" /\ sendPc = "check"
    /\ poll' = [poll EXCEPT ![sendBuf] = ZeroPoll] /\ Recycle(sendBuf)
    /\ sendPc' = "pend" /\ sendBuf' = NoBuf
    /\ UNCHANGED <<frame, sendList, mbx, pollVars, held, recvVars,
                   uart_send_sn, history>>

\* With free_flag set, the poll field is cleared and the buffer recycled.
SendCheck ==
    /\ status = "running" /\ sendPc = "check"
    /\ IF poll[sendBuf].free_flag # 0
       THEN poll' = [poll EXCEPT ![sendBuf] = ZeroPoll] /\ Recycle(sendBuf)
       ELSE UNCHANGED <<poll, status, free>>
    /\ sendPc' = "pend" /\ sendBuf' = NoBuf
    /\ UNCHANGED <<frame, sendList, mbx, pollVars, held, recvVars,
                   uart_send_sn, history>>

SendTask == SendPend \/ SendWrite \/ SendCheck

-----------------------------------------------------------------------------
\* The process has ended, or what it does next is not modelled.
Halted == status # "running" /\ UNCHANGED vars

Next ==
    \/ \E t \in Threads : \/ BufFactoryCrash(t) \/ Link(t)
                          \/ \E type \in {0, 1} : DisposeFill(t, type)
    \/ \E sn \in PeerSn : RecvCommand(sn)
    \/ \E b \in Buf : RecvResponse(b)
    \/ \E sn \in UploadSn : RecvUpload(sn)
    \/ RecvUploadMark
    \/ PollTask
    \/ SendTask
    \/ Halted

\* The poll and the send task block only on the mailbox; the poll task sleeps
\* between passes, so a thread waiting for the mutex gets it sooner or later.
Fairness ==
    /\ WF_vars(PollTask) /\ WF_vars(SendTask)
    /\ \A t \in Threads : SF_vars(Link(t))
    /\ SF_vars(RecvUploadMark)

Spec == Init /\ [][Next]_vars
FairSpec == Spec /\ Fairness

-----------------------------------------------------------------------------
(* Properties.                                                               *)

\* Every variable stays in its type, and a step that needs an entry of the
\* list has one at the cursor.
TypeOK ==
    /\ status \in {"running", "exit", "corrupt"}
    /\ free \in Seq(Buf) /\ sendList \in Seq(Buf) /\ mbx \in Seq(Buf)
    /\ poll \in [Buf -> PollFields] /\ frame \in [Buf -> Frames]
    /\ pollPc \in {"sleep", "visit", "post_unlink", "count", "post"}
    /\ cursor \in Nat \ {0}
    /\ pollPc \in {"post_unlink", "count", "post"} => cursor \in DOMAIN sendList
    /\ sendPc \in {"pend", "write", "check"}
    /\ sendBuf \in IF sendPc = "pend" THEN {NoBuf} ELSE Buf
    /\ held \in [Threads -> Buf \cup {NoBuf}]
    /\ recvPc \in {"parse", "upload"} /\ recvSn \in Nat
    /\ uart_send_sn \in Nat
    /\ posts \in [Buf -> Nat] /\ answered \in [Buf -> BOOLEAN]
    /\ heard \subseteq Buf

\* A buffer of the pool is in one place only: free, taken by one thread, or on
\* the send list once, and a free or taken buffer is not queued for writing; one
\* that is nowhere else is a posted reply that its send will recycle.  No node is ever
\* linked twice (list.c would lose the ring).
BufferOwnership ==
    /\ status # "corrupt"
    /\ IsInjective(free) /\ IsInjective(sendList)
    /\ \A t, u \in Threads : held[t] = held[u] /\ held[t] # NoBuf => t = u
    /\ \A b \in Buf :
          LET isFree == b \in ToSet(free)
              isHeld == \E t \in Threads : held[t] = b
          IN  /\ ~(isFree /\ isHeld)
              /\ isFree \/ isHeld => b \notin Linked /\ ~InFlight(b)
              /\ ~isFree /\ ~isHeld /\ b \notin Linked =>
                    InFlight(b) /\ poll[b].free_flag # 0

\* Why BufferOwnership holds: which poll field a buffer has in each place, and
\* what uart_poll_tsk knows of the entry at the cursor between two steps.
Queues ==
    /\ status # "corrupt"
    /\ IsInjective(free) /\ IsInjective(sendList) /\ IsInjective(mbx)
    /\ sendBuf \notin ToSet(mbx)
HeldOnce == \A t, u \in Threads : held[t] = held[u] /\ held[t] # NoBuf => t = u
IsHeld(b) == \E t \in Threads : held[t] = b
IdleClean(b) ==
    b \in ToSet(free) \/ IsHeld(b) =>
       /\ b \notin Linked /\ ~InFlight(b)
       /\ poll[b].times = 0 /\ poll[b].free_flag = 0
NotFreeAndHeld(b) == ~(b \in ToSet(free) /\ IsHeld(b))
TypeSet(b) == IsHeld(b) \/ b \in Linked => poll[b].type \in {0, 1}
PostedReply(b) ==
    b \notin ToSet(free) /\ ~IsHeld(b) /\ b \notin Linked =>
       InFlight(b) /\ poll[b].free_flag # 0
LinkedReply(b) == b \in Linked /\ poll[b].type = 0 => ~InFlight(b)
LinkedNtf(b) ==
    b \in Linked /\ poll[b].type = 1 =>
       /\ poll[b].free_flag # 0 => poll[b].times > 0 /\ ~InFlight(b)
       /\ poll[b].times = 0 /\ InFlight(b) =>
             pollPc = "count" /\ b = sendList[cursor]
AtCursor ==
    LET b == sendList[cursor] IN
    /\ pollPc = "post_unlink" => poll[b].type = 0 /\ poll[b].free_flag # 0
    /\ pollPc = "count" => poll[b].type = 1 /\ poll[b].free_flag = 0
    /\ pollPc = "post" => /\ poll[b].type = 1 /\ poll[b].free_flag = 0
                          /\ poll[b].times > 0 /\ ~InFlight(b)
BufferRules(b) ==
    /\ IdleClean(b) /\ NotFreeAndHeld(b) /\ TypeSet(b)
    /\ PostedReply(b) /\ LinkedReply(b) /\ LinkedNtf(b)
Discipline == Queues /\ HeldOnce /\ AtCursor /\ \A b \in Buf : BufferRules(b)

\* A notification leaves the send list only when its own answer has come
\* or it has been posted MaxTimes times (uart_poll_tsk: the ack branch and the
\* give-up branch): none is dropped early, none is tried for ever.
NtfFate ==
    [][\A b \in Buf :
          b \in Linked /\ b \notin Linked' /\ frame[b].kind = "ntf" =>
             answered[b] \/ posts[b] = MaxTimes]_vars

\* With a mailbox as large as the pool, uart_poll_tsk never blocks in
\* mailbox_post, where it would hold uart_poll_mutex against every producer.
PollPosting ==
    \/ pollPc \in {"post_unlink", "post"}
    \/ Visiting(1) /\ poll[sendList[cursor]].times = 0
PollNeverBlocks == PollPosting => Len(mbx) < MaxMsg

\* The branch for replies ("if it is a data reply") only posts replies: a
\* notification is never sent and dropped as if it were one.
RepliesOnly == pollPc = "post_unlink" => frame[sendList[cursor]].kind = "reply"

\* The flag by which uart_poll_tsk sees that "an answer has been received"
\* is only up on a posted notification that the peer has answered.
FlagMeansAnswered ==
    \A b \in Linked :
       frame[b].kind = "ntf" /\ poll[b].free_flag # 0 => answered[b]

\* Every linked frame leaves the list unless the process ends: neither a full
\* mailbox, nor a long list, nor an answer at a bad moment stops the passes.
FramesMove ==
    \A b \in Buf : b \in Linked ~> b \notin Linked \/ status # "running"

\* Every buffer returns to the pool unless the process ends.
BuffersReturn ==
    \A b \in Buf : b \notin ToSet(free) ~> b \in ToSet(free) \/ status # "running"
=============================================================================
