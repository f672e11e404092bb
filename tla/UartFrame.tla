----------------------------- MODULE UartFrame -----------------------------
(***************************************************************************)
(* uart_get_data, which cuts the bytes of the serial line into frames, and *)
(* procotol_check, which decides whether a frame is handled.  A frame is   *)
(*   head, length_msb, length_lsb, body of `length' bytes, checksum        *)
(* where the body is sta_param, sn, pdt_type, cmd_id and the data.         *)
(* The line may lose bytes and add bytes of its own.                       *)
(***************************************************************************)
EXTENDS Integers, SequencesExt

CONSTANTS
    ByteSize,     \* 256
    HeadByte,     \* 0xC0
    MaxLen,       \* UART_PROCOTOL_MAX_LEN: body and checksum (129)
    RecvBuf,      \* size of uart_recv_buf: header of 7 and data (136)
    MinLen,       \* least length that procotol_check accepts (4)
    PeerFrames,   \* frames the peer sends
    MaxFrames, MaxFaults   \* bounds: frames sent, bytes lost or added

Byte == 0 .. ByteSize - 1
HeaderLen == 3

ASSUME SizesAssumption ==
    /\ {ByteSize, MaxLen, RecvBuf, MinLen} \subseteq Nat \ {0}
    /\ HeadByte \in Byte
    /\ MaxLen + HeaderLen <= RecvBuf
    /\ MaxFrames \in Nat /\ MaxFaults \in Nat
    /\ PeerFrames \subseteq Seq(Byte)

VARIABLES
    line,            \* bytes on the line; each knows its frame (0: none) and position
    proctol_start, recv_len, data_len, uart_recv_buf,   \* statics of uart_get_data
    handled,         \* frames that passed procotol_check: their bytes
    starts,          \* history: for each frame sent, where in the stream it starts and
                     \* whether it has the head byte inside
    sent,            \* history: bytes put on the line
    faults, fault    \* history: number of faults, position of the last one

parser == <<proctol_start, recv_len, data_len, uart_recv_buf>>
history == <<starts, sent, faults, fault>>
vars == <<line, parser, handled, history>>

Items == [byte : Byte, frame : Nat, pos : Nat]
Starts == [at : Nat, heads : BOOLEAN]

Init ==
    /\ line = <<>>
    /\ proctol_start = FALSE /\ recv_len = 0 /\ data_len = 0 /\ uart_recv_buf = <<>>
    /\ handled = <<>>
    /\ starts = <<>> /\ sent = 0 /\ faults = 0 /\ fault = 0

-----------------------------------------------------------------------------
(* The peer and the line.                                                    *)

PeerSends(f) ==
    /\ Len(starts) < MaxFrames
    /\ line' = line \o [i \in DOMAIN f |->
                          [byte |-> f[i], frame |-> Len(starts) + 1, pos |-> sent + i]]
    /\ starts' = Append(starts, [at |-> sent + 1, heads |-> \E i \in 2 .. Len(f) : f[i] = HeadByte])
    /\ sent' = sent + Len(f)
    /\ UNCHANGED <<parser, handled, faults, fault>>

\* The next byte is lost.
LoseByte ==
    /\ line # <<>> /\ faults < MaxFaults
    /\ line' = Tail(line)
    /\ faults' = faults + 1 /\ fault' = Head(line).pos
    /\ UNCHANGED <<parser, handled, starts, sent>>

\* A byte that nobody sent comes before the others.
AddByte(b) ==
    /\ faults < MaxFaults
    /\ fault' = IF line = <<>> THEN sent ELSE Head(line).pos
    /\ line' = <<[byte |-> b, frame |-> 0, pos |-> fault']>> \o line
    /\ faults' = faults + 1
    /\ UNCHANGED <<parser, handled, starts, sent>>

-----------------------------------------------------------------------------
(* The receiver.                                                             *)

Length(buf) == buf[2].byte * ByteSize + buf[3].byte

\* check_sum_cal: the low byte of the sum.
CheckSum(buf, first, len) ==
    FoldLeft(LAMBDA sum, item : (sum + item.byte) % ByteSize, 0,
             SubSeq(buf, first, first + len - 1))

procotol_check(buf) ==
    LET len == Length(buf) IN
    /\ len >= MinLen
    /\ buf[HeaderLen + len + 1].byte = CheckSum(buf, HeaderLen + 1, len)

\* The parser waits for the next head byte.
Restart == proctol_start' = FALSE /\ recv_len' = 0 /\ uart_recv_buf' = <<>>

Deliver(buf) ==
    handled' = IF procotol_check(buf) THEN Append(handled, buf) ELSE handled

\* TooLong that forgets the checksum, and one that counts it twice.
TooLongLate(len) == len > MaxLen
TooLongEarly(len) == len + 2 > MaxLen

\* data_len counts the body and the checksum.  (The test data_len == 0 of the
\* code never holds, for the one added.)
TooLong(len) == len + 1 > MaxLen

\* Bytes between frames are skipped.
SkipByte ==
    /\ line # <<>> /\ line' = Tail(line)
    /\ ~proctol_start /\ Head(line).byte # HeadByte
    /\ UNCHANGED <<parser, handled, history>>

\* One of the three bytes of head and length.
HeaderByte ==
    LET buf == Append(uart_recv_buf, Head(line)) IN
    /\ line # <<>> /\ line' = Tail(line)
    /\ proctol_start \/ Head(line).byte = HeadByte
    /\ recv_len < HeaderLen
    /\ IF recv_len + 1 < HeaderLen
       THEN /\ proctol_start' = TRUE /\ recv_len' = recv_len + 1
            /\ data_len' = data_len /\ uart_recv_buf' = buf
       ELSE IF TooLong(Length(buf))
       THEN Restart /\ data_len' = 0
       ELSE /\ proctol_start' = TRUE /\ recv_len' = recv_len + 1
            /\ data_len' = Length(buf) + 1 /\ uart_recv_buf' = buf
    /\ UNCHANGED <<handled, history>>

\* BodyByte that leaves proctol_start up after a frame.
BodyByteNoRestart ==
    LET buf == Append(uart_recv_buf, Head(line)) IN
    /\ line # <<>> /\ line' = Tail(line)
    /\ proctol_start /\ recv_len >= HeaderLen
    /\ data_len' = data_len - 1
    /\ proctol_start' = proctol_start
    /\ IF data_len' = 0
       THEN recv_len' = 0 /\ uart_recv_buf' = <<>> /\ Deliver(buf)
       ELSE recv_len' = recv_len + 1 /\ uart_recv_buf' = buf /\ handled' = handled
    /\ UNCHANGED history

\* A byte of the body, or the checksum: with it the frame is complete.
BodyByte ==
    LET buf == Append(uart_recv_buf, Head(line)) IN
    /\ line # <<>> /\ line' = Tail(line)
    /\ proctol_start /\ recv_len >= HeaderLen
    /\ data_len' = data_len - 1
    /\ IF data_len' = 0
       THEN Restart /\ Deliver(buf)
       ELSE /\ recv_len' = recv_len + 1 /\ uart_recv_buf' = buf
            /\ UNCHANGED <<proctol_start, handled>>
    /\ UNCHANGED history

-----------------------------------------------------------------------------
Receive == SkipByte \/ HeaderByte \/ BodyByte

Next ==
    \/ \E f \in PeerFrames : PeerSends(f)
    \/ LoseByte \/ \E b \in Byte : AddByte(b)
    \/ Receive

Spec == Init /\ [][Next]_vars

-----------------------------------------------------------------------------
(* Properties.                                                               *)

TypeOK ==
    /\ line \in Seq(Items)
    /\ proctol_start \in BOOLEAN /\ recv_len \in Nat /\ data_len \in 0 .. MaxLen
    /\ uart_recv_buf \in Seq(Items)
    /\ handled \in Seq(Seq(Items))
    /\ starts \in Seq(Starts) /\ sent \in Nat /\ faults \in Nat /\ fault \in Nat

\* Whatever comes on the line, uart_recv_buf holds the frame being received, and
\* what is still missing of it fits.
WithinBuffer ==
    /\ recv_len = Len(uart_recv_buf) /\ (proctol_start <=> recv_len > 0)
    /\ recv_len >= HeaderLen =>
          /\ data_len > 0
          /\ recv_len + data_len = HeaderLen + Length(uart_recv_buf) + 1
          /\ recv_len + data_len <= RecvBuf

FrameOf(buf) ==
    IF \A i, j \in DOMAIN buf : buf[i].frame = buf[j].frame /\ buf[j].pos - buf[i].pos = j - i
    THEN Head(buf).frame ELSE 0

\* On a line without faults the frames sent are handled, all of them and nothing
\* else, in order, whatever they contain, head bytes included.
CleanLine ==
    faults = 0 =>
       LET received == {n \in DOMAIN starts : \A i \in DOMAIN line : line[i].frame > n}
       IN  /\ DOMAIN handled = received
           /\ \A n \in received : FrameOf(handled[n]) = n

\* A fault costs no frame that starts more than a longest frame after it, as long
\* as no frame has the head byte inside: the parser is in step again.  (With head
\* bytes inside, it may take frame after frame at the wrong place.)
Swallowed == HeaderLen + MaxLen
InStepAgain ==
    line = <<>> /\ ~proctol_start /\ (\A n \in DOMAIN starts : ~starts[n].heads) =>
       \A n \in DOMAIN starts :
          faults = 0 \/ starts[n].at > fault + Swallowed =>
             \E i \in DOMAIN handled : FrameOf(handled[i]) = n
=============================================================================
