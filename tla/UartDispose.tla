---------------------------- MODULE UartDispose -----------------------------
(***************************************************************************)
(* uart_protocol_dispose, the one function behind every *_ntf, access by   *)
(* access.  Several threads call it without a lock, and two things in it   *)
(* are shared: its `static Respdata', through which it fills the frame,    *)
(* and uart_send_sn.  UartSend takes and fills a buffer in one step; this  *)
(* module shows what that step hides.                                      *)
(*                                                                         *)
(* A production is one call (or one reply of uart_recv_tsk); its index     *)
(* stands for what it puts into a frame.  A field of a frame holds the     *)
(* index of the production that wrote it.                                  *)
(***************************************************************************)
EXTENDS Integers, SequencesExt

CONSTANTS
    Threads,   \* the callers: main, the HID tasks, udisk_tsk, uart_recv_tsk
    NumBuf,    \* buffers in the pool
    MaxProd    \* bound: productions in a behaviour (fewer than 256 numbers)

ASSUME DisposeAssumption == NumBuf \in Nat \ {0} /\ MaxProd \in Nat

Buf == 1 .. NumBuf
NoBuf == 0
Prod == 1 .. MaxProd
NoProd == 0
NoNumber == -1

VARIABLES
    pc, buf, prod,    \* of each caller: where it is, its sendpdata, its info
    Respdata,         \* the buffer the static pointer points into
    uart_send_sn,
    loaded,           \* of each caller: what it has read of uart_send_sn
    content,          \* the frame in each buffer
    free, sendList,   \* the pool, and the list: buffers with the info they were
                      \* linked for (poll.type)
    made,             \* how many productions have begun
    took, number,     \* history: the production that took a buffer, the number
    overlapped,       \* one put into a frame, those that ran beside another (all
                      \* three forget a production when its frame leaves the list)
    lastAlone         \* history: the number of the last call that ran alone

frameVars == <<Respdata, uart_send_sn, loaded, content>>
listVars  == <<free, sendList>>
vars == <<pc, buf, prod, frameVars, listVars, made, took, number, overlapped, lastAlone>>

Blank == [head |-> NoProd, sn |-> NoNumber, body |-> NoProd, sum |-> <<>>]

\* What the checksum is taken over: sta_param to the end of the data.
Summed(f) == <<f.head, f.sn, f.body>>

Init ==
    /\ pc = [t \in Threads |-> "idle"]
    /\ buf = [t \in Threads |-> NoBuf] /\ prod = [t \in Threads |-> NoProd]
    /\ Respdata = NoBuf /\ uart_send_sn = 0
    /\ loaded = [t \in Threads |-> 0]
    /\ content = [b \in Buf |-> Blank]
    /\ free = [i \in Buf |-> i] /\ sendList = <<>>
    /\ made = 0
    /\ took = [b \in Buf |-> NoProd] /\ number = [p \in Prod |-> NoNumber]
    /\ overlapped = {} /\ lastAlone = NoNumber

Inside == {t \in Threads : pc[t] # "idle"}

\* Production `made + 1' takes the first free buffer.  It overlaps every call
\* that is under way.
Begin ==
    /\ made < MaxProd /\ free # <<>>
    /\ made' = made + 1
    /\ took' = [took EXCEPT ![Head(free)] = made + 1]
    /\ overlapped' = IF Inside = {} THEN overlapped
                     ELSE overlapped \cup {made + 1} \cup {prod[t] : t \in Inside}

Goto(t, from, to) == pc[t] = from /\ pc' = [pc EXCEPT ![t] = to]

\* The compiler may keep what it has stored in Respdata, or read it again.
Target(t) == {buf[t], Respdata}

-----------------------------------------------------------------------------
(* uart_protocol_dispose.                                                    *)

\* buf_factory_produce and the local sendpdata.
Take(t) ==
    /\ Goto(t, "idle", "point") /\ Begin
    /\ buf' = [buf EXCEPT ![t] = Head(free)] /\ free' = Tail(free)
    /\ prod' = [prod EXCEPT ![t] = made + 1]
    /\ UNCHANGED <<frameVars, sendList, number, lastAlone>>

\* Point without the assignment.
PointForgotten(t) ==
    /\ Goto(t, "point", "head")
    /\ UNCHANGED <<buf, prod, frameVars, listVars, made, took, number, overlapped, lastAlone>>

\* Point for a pointer that is set once, to the buffer of the first call.
PointOnce(t) ==
    /\ Goto(t, "point", "head")
    /\ Respdata' = IF Respdata = NoBuf THEN buf[t] ELSE Respdata
    /\ UNCHANGED <<buf, prod, uart_send_sn, loaded, content, listVars, made,
                   took, number, overlapped, lastAlone>>

\* Respdata = &(sendpdata->cmd).
Point(t) ==
    /\ Goto(t, "point", "head")
    /\ Respdata' = buf[t]
    /\ UNCHANGED <<buf, prod, uart_send_sn, loaded, content, listVars, made,
                   took, number, overlapped, lastAlone>>

\* head, length and sta_param; uart_send_sn is read for the next line.
WriteHead(t) ==
    /\ Goto(t, "head", "sn")
    /\ \E b \in Target(t) : content' = [content EXCEPT ![b].head = prod[t]]
    /\ loaded' = [loaded EXCEPT ![t] = uart_send_sn]
    /\ UNCHANGED <<buf, prod, Respdata, uart_send_sn, listVars, made, took,
                   number, overlapped, lastAlone>>

\* header.sn; for the increment the number is read again, or not.
WriteSn(t) ==
    /\ Goto(t, "sn", "increment")
    /\ \E b \in Target(t) : content' = [content EXCEPT ![b].sn = loaded[t]]
    /\ number' = [number EXCEPT ![prod[t]] = loaded[t]]
    /\ \E n \in {loaded[t], uart_send_sn} : loaded' = [loaded EXCEPT ![t] = n]
    /\ UNCHANGED <<buf, prod, Respdata, uart_send_sn, listVars, made, took, overlapped, lastAlone>>

\* Increment that is left out.
IncrementForgotten(t) ==
    /\ Goto(t, "increment", "body")
    /\ loaded' = [loaded EXCEPT ![t] = 0]
    /\ UNCHANGED <<buf, prod, Respdata, uart_send_sn, content, listVars, made, took,
                   number, overlapped, lastAlone>>

\* uart_send_sn++ stores one more than what was read.
Increment(t) ==
    /\ Goto(t, "increment", "body")
    /\ uart_send_sn' = loaded[t] + 1 /\ loaded' = [loaded EXCEPT ![t] = 0]
    /\ UNCHANGED <<buf, prod, Respdata, content, listVars, made, took,
                   number, overlapped, lastAlone>>

\* pdt_type, cmd_id and the memcpy of info->data.
WriteBody(t) ==
    /\ Goto(t, "body", "sum")
    /\ \E b \in Target(t) : content' = [content EXCEPT ![b].body = prod[t]]
    /\ UNCHANGED <<buf, prod, Respdata, uart_send_sn, loaded, listVars, made,
                   took, number, overlapped, lastAlone>>

\* check_sum_cal reads one frame and its result is stored in one.
WriteSum(t) ==
    /\ Goto(t, "sum", "link")
    /\ \E b, c \in Target(t) : content' = [content EXCEPT ![b].sum = Summed(content[c])]
    /\ UNCHANGED <<buf, prod, Respdata, uart_send_sn, loaded, listVars, made,
                   took, number, overlapped, lastAlone>>

\* Link through the static pointer.
LinkShared(t) ==
    /\ Goto(t, "link", "idle")
    /\ sendList' = Append(sendList, [buf |-> Respdata, info |-> prod[t]])
    /\ buf' = [buf EXCEPT ![t] = NoBuf] /\ prod' = [prod EXCEPT ![t] = NoProd]
    /\ UNCHANGED <<frameVars, free, made, took, number, overlapped, lastAlone>>

\* poll.type and list.owner through the local sendpdata; list_add_tail under
\* the mutex.
Link(t) ==
    /\ Goto(t, "link", "idle")
    /\ sendList' = Append(sendList, [buf |-> buf[t], info |-> prod[t]])
    /\ buf' = [buf EXCEPT ![t] = NoBuf] /\ prod' = [prod EXCEPT ![t] = NoProd]
    /\ lastAlone' = IF prod[t] \in overlapped THEN lastAlone ELSE number[prod[t]]
    /\ UNCHANGED <<frameVars, free, made, took, number, overlapped>>

-----------------------------------------------------------------------------
(* The rest of the program, as far as it touches these frames.               *)

\* A reply of uart_recv_tsk: uart_protocol_parse has pointers of its own, which
\* no other thread uses, and takes its number from the peer's command.
Reply(p) == [head |-> p, sn |-> NoNumber, body |-> p, sum |-> <<p, NoNumber, p>>]

BuildReply ==
    /\ Begin
    /\ content' = [content EXCEPT ![Head(free)] = Reply(made + 1)]
    /\ sendList' = Append(sendList, [buf |-> Head(free), info |-> made + 1])
    /\ free' = Tail(free)
    /\ UNCHANGED <<pc, buf, prod, Respdata, uart_send_sn, loaded, number, lastAlone>>

\* The poll and the send task are done with an entry: its buffer is recycled.
\* What it holds of the frame is forgotten, since no property looks at it again.
Leave(i) ==
    LET e == sendList[i] IN
    /\ free' = Append(free, e.buf)
    /\ sendList' = RemoveAt(sendList, i)
    /\ took' = [took EXCEPT ![e.buf] = NoProd]
    /\ number' = [number EXCEPT ![e.info] = NoNumber]
    /\ overlapped' = overlapped \ {e.info}
    /\ content' = [content EXCEPT ![e.buf] = Blank]
    /\ UNCHANGED <<pc, buf, prod, Respdata, uart_send_sn, loaded, made, lastAlone>>

Dispose(t) ==
    \/ Take(t) \/ Point(t) \/ WriteHead(t) \/ WriteSn(t) \/ Increment(t)
    \/ WriteBody(t) \/ WriteSum(t) \/ Link(t)

Next ==
    \/ \E t \in Threads : Dispose(t)
    \/ BuildReply
    \/ \E i \in DOMAIN sendList : Leave(i)

Spec == Init /\ [][Next]_vars

-----------------------------------------------------------------------------
(* Properties.                                                               *)

TypeOK ==
    /\ pc \in [Threads -> {"idle", "point", "head", "sn", "increment", "body", "sum", "link"}]
    /\ buf \in [Threads -> Buf \cup {NoBuf}]
    /\ \A t \in Threads : pc[t] = "idle" <=> buf[t] = NoBuf
    /\ prod \in [Threads -> 0 .. made] /\ made \in 0 .. MaxProd
    /\ Respdata \in Buf \cup {NoBuf}
    /\ \A t \in Threads : pc[t] \notin {"idle", "point"} => Respdata # NoBuf
    /\ uart_send_sn \in Nat /\ loaded \in [Threads -> Nat]
    /\ \A b \in Buf : DOMAIN content[b] = DOMAIN Blank
    /\ free \in Seq(Buf)
    /\ sendList \in Seq([buf : Buf, info : Prod])
    /\ took \in [Buf -> 0 .. made]
    /\ number \in [Prod -> Nat \cup {NoNumber}]
    /\ overlapped \subseteq Prod /\ lastAlone \in Nat \cup {NoNumber}

\* A frame is its own production's, field by field, under that production's number
\* and with a checksum over just that.
Intact(f, p) ==
    /\ f.head = p /\ f.body = p /\ f.sn = number[p]
    /\ f.sum = Summed(f)

\* Whatever the threads do to each other's frames through Respdata, a frame whose
\* production ran beside no other is intact as long as it is listed: a pointer
\* left over from an earlier call never reaches it.
AloneIntact ==
    \A i \in DOMAIN sendList :
       LET e == sendList[i] IN e.info \notin overlapped => Intact(content[e.buf], e.info)

\* Lost increments give one number to two frames, but only beside another
\* production: a call that runs alone gets a higher number than all those before it
\* that ran alone.
AloneNumbersGrow ==
    \A t \in Threads :
       pc[t] \in {"increment", "body", "sum", "link"} /\ prod[t] \notin overlapped =>
          number[prod[t]] > lastAlone

\* The damage ends at the contents: however calls overlap, each links the buffer
\* it took, once, with its own poll.type, and no buffer is in two places.
OwnBufferLinked ==
    /\ \A i \in DOMAIN sendList :
          LET e == sendList[i] IN
          /\ e.info = took[e.buf]
          /\ e.buf \notin ToSet(free) /\ \A t \in Threads : buf[t] # e.buf
          /\ \A j \in DOMAIN sendList : sendList[j].buf = e.buf => i = j
    /\ \A t \in Threads : buf[t] # NoBuf => took[buf[t]] = prod[t]
=============================================================================
