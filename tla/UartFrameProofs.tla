-------------------------- MODULE UartFrameProofs --------------------------
(***************************************************************************)
(* Theorems about UartFrame, for every length of frames and buffer, every  *)
(* set of frames and any number of faults.                                 *)
(*  - The receive buffer is never overrun, whatever comes on the line.     *)
(*  - When the peer's frames are ones that procotol_check accepts, none is *)
(*    lost on a line without faults, and after a fault the parser is in    *)
(*    step again, from the inductive invariant Stream /\ Clean /\ Again.   *)
(***************************************************************************)
EXTENDS UartFrame, QueueLemmas, TLAPS

\* What the bytes on the line and in the buffer are, and what the counters of the
\* parser say of the buffer.
BufferInv ==
    /\ line \in Seq(Items) /\ uart_recv_buf \in Seq(Items)
    /\ recv_len \in Nat /\ data_len \in Int
    /\ sent \in Nat /\ starts \in Seq(Starts)
    /\ WithinBuffer

\* Appending to a buffer that holds the header changes neither its header nor
\* the length in it.
LEMMA LengthKept ==
    ASSUME NEW buf \in Seq(Items), NEW item \in Items, Len(buf) >= HeaderLen
    PROVE  Length(Append(buf, item)) = Length(buf)
  BY DEF Length, HeaderLen

\* A length is a natural number.
LEMMA LengthNat ==
    ASSUME NEW buf \in Seq(Items), Len(buf) >= HeaderLen
    PROVE  Length(buf) \in Nat
<1>1. buf[2] \in Items /\ buf[3] \in Items
  BY DEF HeaderLen
<1>2. buf[2].byte \in Nat /\ buf[3].byte \in Nat /\ ByteSize \in Nat
  <2>1. ByteSize \in Nat
    BY SizesAssumption
  <2>2. \A item \in Items : item.byte \in Nat
    BY <2>1 DEF Items, Byte
  <2> QED
    BY <1>1, <2>1, <2>2
<1>3. \A x, y, z \in Nat : x * y + z \in Nat
  OBVIOUS
<1> QED
  BY <1>2, <1>3 DEF Length

\* A step that leaves the parser alone keeps the invariant if the line stays one.
LEMMA ParserIdle ==
    ASSUME BufferInv, UNCHANGED parser, line' \in Seq(Items), sent' \in Nat, starts' \in Seq(Starts)
    PROVE  BufferInv'
  BY DEF BufferInv, WithinBuffer, parser, Length, HeaderLen

\* A byte of the header fits, and the limit on the length bounds what is to follow.
LEMMA HeaderByteStep ==
    ASSUME BufferInv, HeaderByte
    PROVE  BufferInv'
<1> DEFINE buf == Append(uart_recv_buf, Head(line))
<1>1. /\ line' \in Seq(Items) /\ Head(line) \in Items
      /\ sent' \in Nat /\ starts' \in Seq(Starts)
  BY DEF BufferInv, HeaderByte, history
<1>2. /\ buf \in Seq(Items) /\ Len(buf) = recv_len + 1
      /\ recv_len \in Nat /\ recv_len < HeaderLen
  BY <1>1 DEF BufferInv, HeaderByte, WithinBuffer
<1>3. CASE recv_len + 1 < HeaderLen
  <2>1. /\ proctol_start' = TRUE /\ recv_len' = recv_len + 1
        /\ data_len' = data_len /\ uart_recv_buf' = buf
    BY <1>3 DEF HeaderByte
  <2> QED
    BY <1>1, <1>2, <1>3, <2>1 DEF BufferInv, WithinBuffer, HeaderLen
<1>4. CASE recv_len + 1 >= HeaderLen /\ TooLong(Length(buf))
  <2>1. proctol_start' = FALSE /\ recv_len' = 0 /\ uart_recv_buf' = <<>> /\ data_len' = 0
    BY <1>2, <1>4 DEF HeaderByte, Restart, HeaderLen
  <2> QED
    BY <1>1, <2>1 DEF BufferInv, WithinBuffer, HeaderLen
<1>5. CASE recv_len + 1 >= HeaderLen /\ ~TooLong(Length(buf))
  <2>1. /\ proctol_start' = TRUE /\ recv_len' = recv_len + 1
        /\ data_len' = Length(buf) + 1 /\ uart_recv_buf' = buf
    BY <1>2, <1>5 DEF HeaderByte, HeaderLen
  <2>2. Length(buf) \in Nat
    BY <1>2, <1>5, LengthNat
  <2>3. Length(buf) + 1 <= MaxLen
    BY <1>5, <2>2, SizesAssumption DEF TooLong
  <2>4. recv_len + 1 = HeaderLen
    BY <1>2, <1>5 DEF HeaderLen
  <2>5. Length(uart_recv_buf)' = Length(buf)
    BY <2>1 DEF Length
  <2> HIDE DEF buf
  <2>6. MaxLen \in Nat /\ RecvBuf \in Nat /\ MaxLen + HeaderLen <= RecvBuf
    BY SizesAssumption
  <2>7. /\ recv_len' = HeaderLen /\ data_len' = Length(uart_recv_buf)' + 1
        /\ data_len' \in Int /\ data_len' > 0 /\ data_len' <= MaxLen
    BY <2>1, <2>2, <2>3, <2>4, <2>5
  <2>8. /\ recv_len' + data_len' = HeaderLen + Length(uart_recv_buf)' + 1
        /\ recv_len' + data_len' <= RecvBuf
    BY <2>2, <2>5, <2>6, <2>7 DEF HeaderLen
  <2>9. /\ uart_recv_buf' \in Seq(Items) /\ recv_len' = Len(uart_recv_buf')
        /\ recv_len' \in Nat /\ recv_len' > 0 /\ proctol_start' = TRUE
    BY <1>2, <2>1, <2>7 DEF HeaderLen
  <2> QED
    BY <1>1, <2>7, <2>8, <2>9 DEF BufferInv, WithinBuffer
<1> QED
  BY <1>2, <1>3, <1>4, <1>5 DEF HeaderLen

\* A byte of the body fits: there is one less to come.
LEMMA BodyByteStep ==
    ASSUME BufferInv, BodyByte
    PROVE  BufferInv'
<1> DEFINE buf == Append(uart_recv_buf, Head(line))
<1>1. /\ line' \in Seq(Items) /\ Head(line) \in Items
      /\ sent' \in Nat /\ starts' \in Seq(Starts)
  BY DEF BufferInv, BodyByte, history
<1>2. /\ buf \in Seq(Items) /\ Len(buf) = recv_len + 1
      /\ recv_len \in Nat /\ recv_len >= HeaderLen
      /\ data_len \in Int /\ data_len > 0 /\ data_len' = data_len - 1
      /\ recv_len + data_len = HeaderLen + Length(uart_recv_buf) + 1
      /\ recv_len + data_len <= RecvBuf
  BY <1>1 DEF BufferInv, BodyByte, WithinBuffer
<1>3. CASE data_len' = 0
  <2>1. proctol_start' = FALSE /\ recv_len' = 0 /\ uart_recv_buf' = <<>>
    BY <1>3 DEF BodyByte, Restart
  <2> QED
    BY <1>1, <1>2, <2>1 DEF BufferInv, WithinBuffer, HeaderLen
<1>4. CASE data_len' # 0
  <2>1. /\ proctol_start' = TRUE /\ recv_len' = recv_len + 1 /\ uart_recv_buf' = buf
    BY <1>4 DEF BodyByte
  <2>2. Length(buf) = Length(uart_recv_buf) /\ Length(uart_recv_buf) \in Nat
    BY <1>1, <1>2, LengthKept, LengthNat DEF BufferInv, WithinBuffer
  <2>3. Length(uart_recv_buf)' = Length(buf)
    BY <2>1 DEF Length
  <2> HIDE DEF buf
  <2> QED
    BY <1>1, <1>2, <1>4, <2>1, <2>2, <2>3, SizesAssumption
       DEF BufferInv, WithinBuffer, HeaderLen
<1> QED
  BY <1>3, <1>4

\* The frame of a sender is a piece of line.
LEMMA PeerSendsLine ==
    ASSUME BufferInv, NEW f \in PeerFrames, PeerSends(f)
    PROVE  line' \in Seq(Items) /\ sent' \in Nat /\ starts' \in Seq(Starts)
<1> DEFINE piece == [i \in DOMAIN f |->
                       [byte |-> f[i], frame |-> Len(starts) + 1, pos |-> sent + i]]
<1>1. f \in Seq(Byte) /\ Len(f) \in Nat /\ DOMAIN f = 1 .. Len(f)
  BY SizesAssumption
<1>2. \A i \in 1 .. Len(f) : piece[i] \in Items
  BY <1>1 DEF Items, BufferInv
<1>3. piece \in Seq(Items)
  BY <1>1, <1>2
<1> DEFINE start == [at |-> sent + 1, heads |-> \E i \in 2 .. Len(f) : f[i] = HeadByte]
<1>4. line' = line \o piece /\ starts' = Append(starts, start) /\ sent' = sent + Len(f)
  BY DEF PeerSends
<1>5. start \in Starts
  BY DEF Starts, BufferInv
<1> HIDE DEF piece, start
<1> QED
  BY <1>1, <1>3, <1>4, <1>5 DEF BufferInv

\* An added byte is a byte on the line.
LEMMA AddByteLine ==
    ASSUME BufferInv, NEW b \in Byte, AddByte(b)
    PROVE  line' \in Seq(Items)
<1>1. fault' \in Nat
  <2>1. CASE line = <<>>
    BY <2>1 DEF AddByte, BufferInv
  <2>2. CASE line # <<>>
    <3>1. Head(line) \in Items
      BY <2>2 DEF BufferInv
    <3>2. Head(line).pos \in Nat
      BY <3>1 DEF Items
    <3> QED
      BY <2>2, <3>2 DEF AddByte
  <2> QED
    BY <2>1, <2>2
<1>2. [byte |-> b, frame |-> 0, pos |-> fault'] \in Items
  BY <1>1 DEF Items
<1> QED
  BY <1>2 DEF AddByte, BufferInv

\* The buffer is empty.
LEMMA BufferInit == Init => BufferInv
  BY DEF Init, BufferInv, WithinBuffer, HeaderLen

\* Each byte, and each fault, leaves the buffer within bounds.
LEMMA BufferNext == BufferInv /\ [Next]_vars => BufferInv'
<1> SUFFICES ASSUME BufferInv, [Next]_vars
             PROVE  BufferInv'
  OBVIOUS
<1>1. ASSUME NEW f \in PeerFrames, PeerSends(f) PROVE BufferInv'
  BY <1>1, PeerSendsLine, ParserIdle DEF PeerSends
<1>2. CASE LoseByte
  BY <1>2, ParserIdle DEF LoseByte, BufferInv
<1>3. ASSUME NEW b \in Byte, AddByte(b) PROVE BufferInv'
  BY <1>3, AddByteLine, ParserIdle DEF AddByte, BufferInv
<1>4. CASE SkipByte
  BY <1>4, ParserIdle DEF SkipByte, BufferInv, history
<1>5. CASE HeaderByte
  BY <1>5, HeaderByteStep
<1>6. CASE BodyByte
  BY <1>6, BodyByteStep
<1>7. CASE UNCHANGED vars
  BY <1>7, ParserIdle DEF vars, BufferInv, history
<1> QED
  BY <1>1, <1>2, <1>3, <1>4, <1>5, <1>6, <1>7 DEF Next, Receive

\* The parser of uart_get_data never writes beyond uart_recv_buf: for every
\* stream of bytes, the bytes received and those its length field announces fit.
THEOREM WithinBufferHolds == Spec => []WithinBuffer
<1>1. BufferInv => WithinBuffer
  BY DEF BufferInv
<1> QED
  BY <1>1, BufferInit, BufferNext, PTL DEF Spec

-----------------------------------------------------------------------------
(* Type correctness.                                                         *)

\* What the parser has and waits for is never more than a longest frame.
Fits ==
    /\ data_len <= MaxLen
    /\ recv_len >= HeaderLen => recv_len + data_len <= HeaderLen + MaxLen

Types == BufferInv /\ TypeOK /\ Fits

\* The parser waits for a head byte.
LEMMA TypesInit == Init => Types
<1> SUFFICES ASSUME Init PROVE Types
  OBVIOUS
<1>1. BufferInv
  BY BufferInit
<1>2. data_len \in 0 .. MaxLen /\ recv_len = 0 /\ recv_len \in Nat
  BY SizesAssumption DEF Init
<1>3. handled \in Seq(Seq(Items)) /\ faults \in Nat /\ fault \in Nat
  BY DEF Init
<1>4. proctol_start \in BOOLEAN
  BY Zenon DEF Init
<1> QED
  BY <1>1, <1>2, <1>3, <1>4, SizesAssumption DEF Types, BufferInv, TypeOK, Fits, HeaderLen

\* The buffer that is handed over, and the bounds of what is received.
LEMMA HeaderByteTypes ==
    ASSUME Types, HeaderByte
    PROVE  proctol_start' \in BOOLEAN /\ data_len' \in 0 .. MaxLen /\ Fits'
<1> DEFINE buf == Append(uart_recv_buf, Head(line))
<1>1. /\ buf \in Seq(Items) /\ Len(buf) = recv_len + 1
      /\ recv_len \in Nat /\ recv_len < HeaderLen /\ data_len \in 0 .. MaxLen
  BY DEF Types, TypeOK, HeaderByte, WithinBuffer, BufferInv
<1>2. MaxLen \in Nat
  BY SizesAssumption
<1>3. CASE recv_len + 1 < HeaderLen
  <2>1. /\ proctol_start' = TRUE /\ recv_len' = recv_len + 1 /\ data_len' = data_len
    BY <1>3 DEF HeaderByte
  <2> QED
    BY <1>1, <1>2, <1>3, <2>1 DEF Fits, HeaderLen
<1>4. CASE recv_len + 1 >= HeaderLen /\ TooLong(Length(buf))
  <2>1. proctol_start' = FALSE /\ recv_len' = 0 /\ data_len' = 0
    BY <1>1, <1>4 DEF HeaderByte, Restart, HeaderLen
  <2>2. proctol_start' \in BOOLEAN
    BY <2>1, Zenon
  <2> QED
    BY <1>2, <2>1, <2>2 DEF Fits, HeaderLen
<1>5. CASE recv_len + 1 >= HeaderLen /\ ~TooLong(Length(buf))
  <2>1. /\ proctol_start' = TRUE /\ recv_len' = recv_len + 1
        /\ data_len' = Length(buf) + 1
    BY <1>1, <1>5 DEF HeaderByte, HeaderLen
  <2>2. Length(buf) \in Nat
    BY <1>1, <1>5, LengthNat
  <2>3. Length(buf) + 1 <= MaxLen
    BY <1>2, <1>5, <2>2 DEF TooLong
  <2> HIDE DEF buf
  <2>4. recv_len' = HeaderLen
    BY <1>1, <1>5, <2>1 DEF HeaderLen
  <2> QED
    BY <1>2, <2>1, <2>2, <2>3, <2>4 DEF Fits, HeaderLen
<1> QED
  BY <1>1, <1>3, <1>4, <1>5 DEF HeaderLen

\* The types after a byte of the body, which may end a frame.
LEMMA BodyByteTypes ==
    ASSUME Types, BodyByte
    PROVE  /\ proctol_start' \in BOOLEAN /\ data_len' \in 0 .. MaxLen /\ Fits'
           /\ handled' \in Seq(Seq(Items))
<1> DEFINE buf == Append(uart_recv_buf, Head(line))
<1>1. /\ buf \in Seq(Items) /\ handled \in Seq(Seq(Items))
      /\ recv_len \in Nat /\ recv_len >= HeaderLen /\ data_len \in 0 .. MaxLen
      /\ data_len > 0 /\ data_len' = data_len - 1
      /\ recv_len + data_len <= HeaderLen + MaxLen
  BY DEF Types, TypeOK, Fits, BodyByte, WithinBuffer, BufferInv
<1>2. MaxLen \in Nat
  BY SizesAssumption
<1>3. CASE data_len' = 0
  <2>1. proctol_start' = FALSE /\ recv_len' = 0 /\ Deliver(buf)
    BY <1>3 DEF BodyByte, Restart
  <2>2. handled' \in Seq(Seq(Items))
    BY <1>1, <2>1 DEF Deliver
  <2>3. proctol_start' \in BOOLEAN
    BY <2>1, Zenon
  <2> QED
    BY <1>2, <1>3, <2>1, <2>2, <2>3 DEF Fits, HeaderLen
<1>4. CASE data_len' # 0
  <2>1. proctol_start' = TRUE /\ recv_len' = recv_len + 1 /\ handled' = handled
    BY <1>4 DEF BodyByte
  <2> QED
    BY <1>1, <1>2, <2>1 DEF Fits, HeaderLen
<1> QED
  BY <1>3, <1>4

\* Types, one case per action.
LEMMA TypesNext == Types /\ [Next]_vars => Types'
<1> SUFFICES ASSUME Types, [Next]_vars PROVE Types'
  OBVIOUS
<1>1. BufferInv'
  BY BufferNext DEF Types
<1>2. /\ recv_len' \in Nat /\ line' \in Seq(Items) /\ uart_recv_buf' \in Seq(Items)
      /\ sent' \in Nat /\ starts' \in Seq(Starts)
  BY <1>1 DEF BufferInv
<1>3. /\ handled \in Seq(Seq(Items)) /\ faults \in Nat /\ fault \in Nat
      /\ data_len \in 0 .. MaxLen /\ proctol_start \in BOOLEAN /\ Fits
  BY DEF Types, TypeOK
<1>4. ASSUME /\ proctol_start' \in BOOLEAN /\ data_len' \in 0 .. MaxLen /\ Fits'
             /\ handled' \in Seq(Seq(Items)) /\ faults' \in Nat /\ fault' \in Nat
      PROVE  Types'
  BY <1>1, <1>2, <1>4 DEF Types, TypeOK
<1>5. ASSUME UNCHANGED <<parser, handled>>, faults' \in Nat, fault' \in Nat
      PROVE  Types'
  <2>1. Fits'
    BY <1>3, <1>5 DEF Fits, parser
  <2> QED
    BY <1>3, <1>4, <1>5, <2>1 DEF parser
<1>6. ASSUME NEW f \in PeerFrames, PeerSends(f) PROVE Types'
  BY <1>3, <1>5, <1>6 DEF PeerSends
<1>7. CASE LoseByte
  <2>1. Head(line) \in Items
    BY <1>7 DEF LoseByte, Types, BufferInv
  <2>2. Head(line).pos \in Nat
    BY <2>1 DEF Items
  <2> QED
    BY <1>3, <1>5, <1>7, <2>2 DEF LoseByte
<1>8. ASSUME NEW b \in Byte, AddByte(b) PROVE Types'
  <2>1. line # <<>> => Head(line) \in Items
    BY DEF Types, BufferInv
  <2>2. fault' \in Nat
    BY <1>8, <2>1 DEF AddByte, Items, Types, BufferInv
  <2> QED
    BY <1>3, <1>5, <1>8, <2>2 DEF AddByte
<1>9. CASE SkipByte
  BY <1>3, <1>5, <1>9 DEF SkipByte, history
<1>10. CASE HeaderByte
  BY <1>3, <1>4, <1>10, HeaderByteTypes DEF HeaderByte, history
<1>11. CASE BodyByte
  BY <1>3, <1>4, <1>11, BodyByteTypes DEF BodyByte, history
<1>12. CASE UNCHANGED vars
  BY <1>3, <1>5, <1>12 DEF vars, history
<1> QED
  BY <1>6, <1>7, <1>8, <1>9, <1>10, <1>11, <1>12 DEF Next, Receive

\* Type correctness: in particular data_len counts from a longest frame down to
\* zero and no further.
THEOREM FrameTypeCorrect == Spec => []TypeOK
<1>1. Types => TypeOK
  BY DEF Types
<1> QED
  BY <1>1, TypesInit, TypesNext, PTL DEF Spec

-----------------------------------------------------------------------------
(* The stream: where the bytes on the line and in the buffer come from.      *)

\* Position of the last byte taken from the line, if no byte on it was added.
Taken == sent - Len(line)

\* Bytes that were added come first, at the position of the last fault; those
\* of the peer lie one after the other, up to the last one sent.
LineItem(i) ==
    IF line[i].frame = 0 THEN line[i].pos = fault /\ Taken + i <= fault
                         ELSE line[i].pos = Taken + i /\ line[i].pos >= fault

Line ==
    /\ fault <= sent /\ (faults = 0 => fault = 0)
    /\ \A i \in 1 .. Len(line) : LineItem(i)

\* A frame was f when it was sent: it lies where starts says, between its neighbours,
\* and its bytes, and no other bytes of the peer, lie there.
NextAt(n) == IF n = Len(starts) THEN sent + 1 ELSE starts[n + 1].at
FrameAt(n, f) ==
    /\ starts[n].at > 0 /\ starts[n].at + Len(f) = NextAt(n) /\ NextAt(n) <= sent + 1
    /\ ~starts[n].heads => \A i \in 2 .. Len(f) : f[i] # HeadByte
Fragment(item, n, f) ==
    /\ item.frame = n => /\ item.pos \in starts[n].at .. starts[n].at + Len(f) - 1
                         /\ item.byte = f[item.pos - starts[n].at + 1]
    /\ item.frame # 0 /\ item.pos \in starts[n].at .. starts[n].at + Len(f) - 1 =>
          item.frame = n

Seen == ToSet(line) \cup ToSet(uart_recv_buf)
IsFrame(n, f) == FrameAt(n, f) /\ \A item \in Seen : Fragment(item, n, f)

Frames ==
    /\ \A item \in Seen : item.frame \in 0 .. Len(starts)
    /\ \A n \in 1 .. Len(starts) : \E f \in PeerFrames : IsFrame(n, f)

Stream == Line /\ Frames

\* What the lemmas below use of the types.
LEMMA Basics ==
    ASSUME Types
    PROVE  /\ line \in Seq(Items) /\ Len(line) \in Nat /\ Taken \in Int
           /\ sent \in Nat /\ fault \in Nat /\ faults \in Nat
           /\ starts \in Seq(Starts) /\ Len(starts) \in Nat
           /\ uart_recv_buf \in Seq(Items) /\ recv_len = Len(uart_recv_buf) /\ recv_len \in Nat
           /\ \A i \in 1 .. Len(line) : line[i] \in Items /\ line[i] \in Seen
           /\ \A i \in 1 .. recv_len : uart_recv_buf[i] \in Items /\ uart_recv_buf[i] \in Seen
           /\ \A item \in Seen : item \in Items
           /\ \A n \in 1 .. Len(starts) : starts[n].at \in Nat
           /\ line # <<>> => Head(line) = line[1] /\ Len(line) > 0
           /\ handled \in Seq(Seq(Items)) /\ Len(handled) \in Nat
<1>1. /\ line \in Seq(Items) /\ sent \in Nat /\ fault \in Nat /\ faults \in Nat
      /\ starts \in Seq(Starts) /\ uart_recv_buf \in Seq(Items)
      /\ recv_len = Len(uart_recv_buf) /\ recv_len \in Nat /\ handled \in Seq(Seq(Items))
  BY DEF Types, TypeOK, BufferInv, WithinBuffer
<1>2. \A n \in 1 .. Len(starts) : starts[n] \in Starts
  BY <1>1
<1>3. \A n \in 1 .. Len(starts) : starts[n].at \in Nat
  BY <1>2 DEF Starts
<1>4. Len(line) \in Nat /\ Taken \in Int
  BY <1>1 DEF Taken
<1>5. \A i \in 1 .. Len(line) : line[i] \in Items /\ line[i] \in Seen
  BY <1>1, ToSetElements DEF Seen
<1>6. \A i \in 1 .. recv_len : uart_recv_buf[i] \in Items /\ uart_recv_buf[i] \in Seen
  BY <1>1, ToSetElements DEF Seen
<1>7. \A item \in Seen : item \in Items
  BY <1>1, ToSetElements DEF Seen
<1> QED
  BY <1>1, <1>3, <1>4, <1>5, <1>6, <1>7

\* What a byte on the line carries.
LEMMA ItemFields ==
    ASSUME NEW item \in Items
    PROVE  item.byte \in Byte /\ item.frame \in Nat /\ item.pos \in Nat
  BY DEF Items

\* The next byte on the line is taken away.
LEMMA Shift ==
    ASSUME Types, line # <<>>, line' = Tail(line), sent' = sent
    PROVE  /\ Len(line') = Len(line) - 1 /\ Taken' = Taken + 1
           /\ \A i \in 1 .. Len(line') : line'[i] = line[i + 1]
           /\ ToSet(line') \subseteq ToSet(line)
<1>1. line \in Seq(Items)
  BY Basics
<1>2. /\ Len(line') = Len(line) - 1 /\ Len(line) \in Nat
      /\ \A i \in 1 .. Len(line') : line'[i] = line[i + 1]
      /\ line' \in Seq(Items)
  BY <1>1
<1>3. ToSet(line') \subseteq ToSet(line)
  <2>1. SUFFICES ASSUME NEW x \in ToSet(line') PROVE x \in ToSet(line)
    OBVIOUS
  <2>2. PICK i \in 1 .. Len(line') : line'[i] = x
    <3>1. line' \in Seq(Items)
      BY <1>2
    <3> QED
      BY ONLY <2>1, <3>1, ToSetElements
  <2>3. i + 1 \in 1 .. Len(line)
    BY <1>2, <2>2
  <2>4. line[i + 1] = x
    BY <1>2, <2>2, Zenon
  <2> QED
    BY <1>1, <2>3, <2>4, ToSetElements
<1>4. Taken' = Taken + 1
  BY <1>1, <1>2, Basics DEF Taken
<1> QED
  BY <1>2, <1>3, <1>4

\* The line without its first byte is still the stream from there on.
LEMMA ShiftLine ==
    ASSUME Types, Line, line # <<>>, line' = Tail(line), UNCHANGED <<sent, fault, faults>>
    PROVE  Line'
<1>1. ASSUME NEW i \in 1 .. Len(line') PROVE LineItem(i)'
  <2>1. /\ i \in Nat /\ i + 1 \in 1 .. Len(line) /\ line'[i] = line[i + 1]
        /\ Taken' = Taken + 1 /\ Taken \in Int
    BY <1>1, Shift, Basics
  <2>2. LineItem(i + 1)
    BY <2>1 DEF Line
  <2> QED
    BY <2>1, <2>2 DEF LineItem
<1> QED
  BY <1>1 DEF Line

\* The next byte, if it is one of the peer's, has no added byte behind it.
LEMMA FirstItem ==
    ASSUME Types, Line, line # <<>>
    PROVE  /\ line[1].frame = 0 => line[1].pos = fault /\ Taken + 1 <= fault
           /\ line[1].frame # 0 =>
                 /\ line[1].pos = Taken + 1 /\ Taken + 1 >= fault
                 /\ \A i \in 1 .. Len(line) : line[i].frame # 0
<1>1. LineItem(1) /\ Taken \in Int /\ fault \in Nat /\ Len(line) \in Nat
  BY Basics DEF Line
<1>2. ASSUME line[1].frame # 0, NEW i \in 1 .. Len(line), line[i].frame = 0 PROVE FALSE
  <2>1. Taken + 1 >= fault
    BY <1>1, <1>2 DEF LineItem
  <2>2. Taken + i <= fault
    BY <1>2 DEF Line, LineItem
  <2>3. i = 1
    BY <1>1, <2>1, <2>2
  <2> QED
    BY <1>2, <2>3
<1> QED
  BY <1>1, <1>2 DEF LineItem

\* A lost byte is the last fault: behind it the line has no gap.
LEMMA LoseLine ==
    ASSUME Types, Line, LoseByte
    PROVE  Line' /\ Taken' <= fault'
<1>1. /\ line # <<>> /\ line' = Tail(line) /\ sent' = sent /\ fault' = line[1].pos
      /\ faults' = faults + 1 /\ fault \in Nat /\ sent \in Nat /\ faults \in Nat
      /\ Len(line) > 0 /\ Len(line) \in Nat /\ Taken \in Int /\ fault <= sent
  BY Basics DEF LoseByte, Line
<1>2. Taken + 1 <= sent
  BY <1>1 DEF Taken
<1>3. faults' # 0
  BY <1>1
<1>4. ASSUME NEW i \in 1 .. Len(line')
      PROVE  /\ i \in Nat /\ i + 1 \in 1 .. Len(line) /\ line'[i] = line[i + 1]
             /\ Taken' = Taken + 1 /\ LineItem(i + 1)
  <2>1. i \in Nat /\ i + 1 \in 1 .. Len(line)
    BY <1>1, <1>4, Shift
  <2> QED
    BY <1>1, <1>4, <2>1, Shift DEF Line
<1>5. CASE line[1].frame = 0
  <2>1. fault' = fault /\ Taken + 1 <= fault
    BY <1>1, <1>5, FirstItem
  <2>2. ASSUME NEW i \in 1 .. Len(line') PROVE LineItem(i)'
    BY <1>1, <1>4, <2>1, <2>2 DEF LineItem
  <2> QED
    BY <1>1, <1>3, <2>1, <2>2, Shift DEF Line
<1>6. CASE line[1].frame # 0
  <2>1. /\ fault' = Taken + 1
        /\ \A i \in 1 .. Len(line) : line[i].frame # 0
    BY <1>1, <1>6, FirstItem
  <2>2. ASSUME NEW i \in 1 .. Len(line') PROVE LineItem(i)'
    <3>1. line[i + 1].frame # 0 /\ line[i + 1].pos = Taken + (i + 1)
      BY <1>4, <2>1, <2>2 DEF LineItem
    <3>2. Taken' + i = Taken + (i + 1) /\ Taken + (i + 1) >= fault'
      BY <1>1, <1>4, <2>1, <2>2
    <3>3. line'[i].frame # 0 /\ line'[i].pos = Taken' + i /\ line'[i].pos >= fault'
      BY <1>4, <2>2, <3>1, <3>2
    <3> QED
      BY <3>3 DEF LineItem
  <2> QED
    BY <1>1, <1>2, <1>3, <2>1, <2>2, Shift DEF Line
<1> QED
  BY <1>5, <1>6

\* So is an added byte, which belongs to no frame.
LEMMA AddLine ==
    ASSUME Types, Line, NEW b \in Byte, AddByte(b)
    PROVE  /\ Line' /\ Taken' <= fault'
           /\ \A item \in ToSet(line') : item \in ToSet(line) \/ item.frame = 0
<1> DEFINE g == [byte |-> b, frame |-> 0, pos |-> fault']
<1>1. /\ line' = <<g>> \o line /\ sent' = sent /\ faults' = faults + 1
      /\ fault' = IF line = <<>> THEN sent ELSE Head(line).pos
      /\ fault \in Nat /\ sent \in Nat /\ faults \in Nat /\ line \in Seq(Items)
      /\ Len(line) \in Nat /\ Taken \in Int /\ fault <= sent
  BY Basics DEF AddByte, Line
<1>2. g.frame = 0 /\ g.pos = fault'
  OBVIOUS
<1> HIDE DEF g
<1>3. /\ Len(line') = Len(line) + 1 /\ line'[1] = g
      /\ \A i \in 2 .. Len(line') : line'[i] = line[i - 1]
      /\ \A i \in 2 .. Len(line') : i \in Nat /\ i - 1 \in 1 .. Len(line)
      /\ DOMAIN line' = 1 .. Len(line')
  BY <1>1
<1>4. Taken' = Taken - 1
  BY <1>1, <1>3 DEF Taken
<1>5. faults' # 0
  BY <1>1
<1>6. /\ Taken <= fault' /\ fault' <= sent
      /\ \A i \in 1 .. Len(line) :
            IF line[i].frame = 0 THEN line[i].pos = fault' /\ Taken + i <= fault'
                                 ELSE line[i].pos = Taken + i /\ line[i].pos >= fault'
  <2>1. CASE line = <<>>
    BY <1>1, <2>1 DEF Taken
  <2>2. CASE line # <<>> /\ line[1].frame = 0
    <3>1. fault' = fault /\ Taken + 1 <= fault
      BY <1>1, <2>2, FirstItem, Basics
    <3> QED
      BY <1>1, <3>1 DEF Line, LineItem
  <2>3. CASE line # <<>> /\ line[1].frame # 0
    <3>1. fault' = Taken + 1 /\ \A i \in 1 .. Len(line) : line[i].frame # 0
      BY <1>1, <2>3, FirstItem, Basics
    <3>2. Len(line) > 0
      BY <2>3, Basics
    <3>3. \A i \in 1 .. Len(line) : line[i].pos = Taken + i
      BY <3>1 DEF Line, LineItem
    <3>4. \A i \in 1 .. Len(line) : Taken + i >= Taken + 1
      BY <1>1
    <3> QED
      BY <1>1, <3>1, <3>2, <3>3, <3>4 DEF Taken
  <2> QED
    BY <2>1, <2>2, <2>3
<1>7. fault' \in Int
  <2>1. line # <<>> => line[1] \in Items /\ Head(line) = line[1]
    BY Basics
  <2> QED
    BY <1>1, <2>1, ItemFields
<1>8. ASSUME NEW i \in 1 .. Len(line') PROVE LineItem(i)'
  <2>1. CASE i = 1
    BY <1>1, <1>2, <1>3, <1>4, <1>6, <1>7, <2>1 DEF LineItem
  <2>2. CASE i # 1
    <3>1. i \in 2 .. Len(line')
      BY <1>1, <1>3, <1>8, <2>2
    <3>2. i - 1 \in 1 .. Len(line) /\ line'[i] = line[i - 1] /\ i \in Nat
      BY <1>3, <3>1
    <3>3. Taken' + i = Taken + (i - 1)
      BY <1>1, <1>4, <3>2
    <3>4. PICK j \in 1 .. Len(line) : line'[i] = line[j] /\ Taken' + i = Taken + j
      BY <3>2, <3>3
    <3>5. IF line[j].frame = 0 THEN line[j].pos = fault' /\ Taken + j <= fault'
                               ELSE line[j].pos = Taken + j /\ line[j].pos >= fault'
      BY <1>6
    <3> QED
      BY <3>4, <3>5 DEF LineItem
  <2> QED
    BY <2>1, <2>2
<1>9. Line'
  BY <1>1, <1>5, <1>6, <1>8 DEF Line
<1>10. ASSUME NEW item \in ToSet(line') PROVE item \in ToSet(line) \/ item.frame = 0
  <2>1. PICK i \in 1 .. Len(line') : line'[i] = item
    BY <1>3, <1>10 DEF ToSet
  <2>2. CASE i = 1
    BY <1>2, <1>3, <2>1, <2>2
  <2>3. CASE i # 1
    <3>1. i \in 2 .. Len(line')
      BY <1>1, <1>3, <2>3
    <3>2. line[i - 1] = item /\ i - 1 \in 1 .. Len(line)
      BY <1>3, <2>1, <3>1
    <3> QED
      BY <1>1, <3>2, ToSetElements
  <2> QED
    BY <2>2, <2>3
<1> QED
  BY <1>1, <1>4, <1>6, <1>7, <1>9, <1>10

\* Frames stay where they are when nothing but added bytes joins the stream.
LEMMA FramesKept ==
    ASSUME Frames, UNCHANGED <<starts, sent>>,
           \A item \in Seen' : item \in Seen \/ item.frame = 0
    PROVE  Frames'
<1>1. \A item \in Seen' : item.frame \in 0 .. Len(starts')
  BY DEF Frames
<1>2. ASSUME NEW n \in 1 .. Len(starts') PROVE \E f \in PeerFrames : IsFrame(n, f)'
  <2>1. PICK f \in PeerFrames : IsFrame(n, f)
    BY <1>2 DEF Frames
  <2>2. FrameAt(n, f)'
    BY <2>1 DEF IsFrame, FrameAt, NextAt
  <2>3. ASSUME NEW item \in Seen' PROVE Fragment(item, n, f)'
    <3>1. CASE item \in Seen
      BY <2>1, <3>1 DEF IsFrame, Fragment
    <3>2. CASE item.frame = 0
      BY <1>2, <3>2 DEF Fragment
    <3> QED
      BY <2>3, <3>1, <3>2
  <2> QED
    BY <2>2, <2>3 DEF IsFrame
<1> QED
  BY <1>1, <1>2 DEF Frames

\* A frame that is sent comes behind everything else.
LEMMA SendStream ==
    ASSUME Types, Stream, NEW f \in PeerFrames, PeerSends(f)
    PROVE  Stream' /\ Taken' = Taken
<1>0. PICK N \in Nat : N = Len(starts)
  BY Basics
<1> DEFINE piece == [i \in DOMAIN f |->
                       [byte |-> f[i], frame |-> N + 1, pos |-> sent + i]]
           start == [at |-> sent + 1, heads |-> \E i \in 2 .. Len(f) : f[i] = HeadByte]
<1> USE <1>0
<1>1. /\ f \in Seq(Byte) /\ Len(f) \in Nat /\ DOMAIN f = 1 .. Len(f)
      /\ line' = line \o piece /\ starts' = Append(starts, start) /\ sent' = sent + Len(f)
      /\ UNCHANGED <<uart_recv_buf, faults, fault>>
  BY <1>0, SizesAssumption DEF PeerSends, parser
<1>2. /\ line \in Seq(Items) /\ sent \in Nat /\ fault \in Nat /\ N = Len(starts)
      /\ starts \in Seq(Starts) /\ Len(line) \in Nat /\ Taken \in Int
      /\ uart_recv_buf \in Seq(Items) /\ fault <= sent
  BY <1>0, Basics DEF Stream, Line
<1>3. \A i \in 1 .. Len(f) : /\ piece[i] \in Items /\ piece[i].frame = N + 1
                             /\ piece[i].pos = sent + i /\ piece[i].byte = f[i]
  BY <1>1, <1>2 DEF Items
<1>4. piece \in Seq(Items) /\ Len(piece) = Len(f)
  BY <1>1, <1>3
<1>5. start.at = sent + 1 /\ (~start.heads => \A i \in 2 .. Len(f) : f[i] # HeadByte)
  OBVIOUS
<1> HIDE DEF piece, start
<1>6. /\ Len(line') = Len(line) + Len(f)
      /\ \A i \in 1 .. Len(line) : line'[i] = line[i]
      /\ \A i \in 1 .. Len(line') : i > Len(line) =>
            i - Len(line) \in 1 .. Len(f) /\ line'[i] = piece[i - Len(line)]
      /\ line' \in Seq(Items)
  <2>1. /\ Len(line \o piece) = Len(line) + Len(piece)
        /\ \A i \in 1 .. Len(line) + Len(piece) :
              (line \o piece)[i] = IF i <= Len(line) THEN line[i] ELSE piece[i - Len(line)]
        /\ line \o piece \in Seq(Items)
    <3>1. line \in Seq(Items) /\ piece \in Seq(Items)
      BY <1>2, <1>4
    <3> QED
      BY ONLY <3>1, ConcatProperties
  <2>2. /\ Len(line') = Len(line) + Len(f) /\ line' \in Seq(Items)
        /\ \A i \in 1 .. Len(line) + Len(f) :
              line'[i] = IF i <= Len(line) THEN line[i] ELSE piece[i - Len(line)]
    BY <1>1, <1>4, <2>1
  <2>3. \A i \in 1 .. Len(line') : i > Len(line) => i - Len(line) \in 1 .. Len(f)
    BY <1>1, <1>2, <2>2
  <2> QED
    BY <1>1, <1>2, <2>2, <2>3
<1>7. Taken' = Taken
  BY <1>1, <1>2, <1>6 DEF Taken
<1>8. /\ Len(starts') = N + 1 /\ starts'[N + 1] = start
      /\ \A n \in 1 .. N : starts'[n] = starts[n]
  BY <1>1, <1>2
<1>9. ASSUME NEW i \in 1 .. Len(line') PROVE LineItem(i)'
  <2>1. CASE i <= Len(line)
    <3>1. LineItem(i) /\ line'[i] = line[i]
      BY <1>2, <1>6, <1>9, <2>1 DEF Stream, Line
    <3> QED
      BY <1>1, <1>7, <3>1 DEF LineItem
  <2>2. CASE i > Len(line)
    <3>1. PICK j \in 1 .. Len(f) : j = i - Len(line) /\ line'[i] = piece[j]
      BY <1>6, <1>9, <2>2
    <3>2. line'[i].frame = N + 1 /\ line'[i].pos = sent + j
      BY <1>3, <3>1
    <3>3. Taken + i = sent + j /\ sent + j >= fault /\ N + 1 # 0
      BY <1>1, <1>2, <1>9, <3>1 DEF Taken
    <3> QED
      BY <1>1, <1>7, <3>2, <3>3 DEF LineItem
  <2> QED
    BY <1>2, <1>6, <1>9, <2>1, <2>2
<1>10. Line'
  BY <1>1, <1>2, <1>9 DEF Stream, Line
<1>11. ASSUME NEW item \in Seen'
       PROVE  \/ item \in Seen
              \/ \E i \in 1 .. Len(f) : item = piece[i]
  <2>1. CASE item \in ToSet(uart_recv_buf')
    BY <1>1, <2>1 DEF Seen
  <2>2. CASE item \in ToSet(line')
    <3>1. PICK i \in 1 .. Len(line') : line'[i] = item
      BY <1>6, <2>2, ToSetElements
    <3>2. CASE i <= Len(line)
      <4>1. i \in 1 .. Len(line) /\ line[i] = item
        BY <1>2, <1>6, <3>1, <3>2
      <4> QED
        BY <4>1, Basics
    <3>3. CASE i > Len(line)
      BY <1>6, <3>1, <3>3
    <3> QED
      BY <1>2, <1>6, <3>1, <3>2, <3>3
  <2> QED
    BY <1>11, <2>1, <2>2 DEF Seen
<1>12. ASSUME NEW item \in Seen
       PROVE  item.frame \in 0 .. N /\ (item.frame # 0 => item.pos <= sent) /\ item.pos \in Nat
  <2>1. item.frame \in 0 .. N /\ item.pos \in Nat
    BY <1>12, Basics, ItemFields DEF Stream, Frames
  <2>2. ASSUME item.frame # 0 PROVE item.pos <= sent
    <3>1. PICK m \in 1 .. N : m = item.frame
      BY <1>2, <2>1, <2>2
    <3>2. PICK g \in PeerFrames : IsFrame(m, g)
      BY DEF Stream, Frames
    <3>3. /\ item.pos \in starts[m].at .. starts[m].at + Len(g) - 1
          /\ starts[m].at + Len(g) <= sent + 1
      BY <1>12, <3>1, <3>2 DEF IsFrame, Fragment, FrameAt
    <3>4. starts[m].at \in Nat /\ Len(g) \in Nat
      BY Basics, SizesAssumption
    <3> QED
      BY <1>2, <2>1, <3>3, <3>4
  <2> QED
    BY <2>1, <2>2
<1>13. ASSUME NEW item \in Seen' PROVE item.frame \in 0 .. Len(starts')
  <2>1. CASE item \in Seen
    BY <1>2, <1>8, <1>12, <2>1
  <2>2. ASSUME NEW i \in 1 .. Len(f), item = piece[i] PROVE item.frame \in 0 .. Len(starts')
    BY <1>2, <1>3, <1>8, <2>2
  <2> QED
    BY <1>11, <1>13, <2>1, <2>2
<1>14. ASSUME NEW n \in 1 .. N PROVE \E g \in PeerFrames : IsFrame(n, g)'
  <2>1. PICK g \in PeerFrames : IsFrame(n, g)
    BY DEF Stream, Frames
  <2>2. starts[n].at \in Nat /\ Len(g) \in Nat
    BY Basics, SizesAssumption
  <2>3. FrameAt(n, g)'
    <3>1. starts'[n] = starts[n] /\ FrameAt(n, g) /\ n \in Nat
      BY <1>8, <2>1 DEF IsFrame
    <3>2. NextAt(n)' = NextAt(n)
      <4>1. CASE n = N
        <5>1. NextAt(n) = sent + 1
          BY <4>1 DEF NextAt
        <5>2. NextAt(n)' = starts'[N + 1].at
          BY <1>2, <1>8, <4>1 DEF NextAt
        <5> QED
          BY <1>5, <1>8, <5>1, <5>2, Zenon
      <4>2. CASE n # N
        <5>1. n + 1 \in 1 .. N /\ n # N + 1
          BY <1>2, <1>14, <4>2
        <5>2. NextAt(n) = starts[n + 1].at
          BY <4>2 DEF NextAt
        <5>3. NextAt(n)' = starts'[n + 1].at
          BY <1>8, <5>1 DEF NextAt
        <5> QED
          BY <1>8, <5>1, <5>2, <5>3, Zenon
      <4> QED
        BY <4>1, <4>2
    <3> QED
      BY <1>1, <1>2, <2>2, <3>1, <3>2 DEF FrameAt
  <2>4. ASSUME NEW item \in Seen' PROVE Fragment(item, n, g)'
    <3>1. CASE item \in Seen
      BY <1>8, <2>1, <3>1 DEF IsFrame, Fragment
    <3>2. ASSUME NEW i \in 1 .. Len(f), item = piece[i] PROVE Fragment(item, n, g)'
      <4>1. item.frame = N + 1 /\ item.pos = sent + i /\ starts'[n] = starts[n]
        BY <1>3, <1>8, <3>2
      <4>2. starts[n].at + Len(g) <= sent + 1
        BY <2>1 DEF IsFrame, FrameAt
      <4>3. item.frame # n /\ item.pos > starts[n].at + Len(g) - 1
        <5>1. n # N + 1
          BY <1>14
        <5>2. sent + i > starts[n].at + Len(g) - 1
          <6>1. i \in Nat /\ i >= 1 /\ sent \in Nat
            BY <1>1, <1>2, <3>2
          <6> QED
            BY ONLY <2>2, <4>2, <6>1
        <5> QED
          BY <4>1, <5>1, <5>2
      <4> QED
        BY <1>2, <2>2, <4>1, <4>3 DEF Fragment
    <3> QED
      BY <1>11, <2>4, <3>1, <3>2
  <2> QED
    BY <2>3, <2>4 DEF IsFrame
<1>15. IsFrame(N + 1, f)'
  <2>1. FrameAt(N + 1, f)'
    <3>1. starts'[N + 1].at = sent + 1 /\ NextAt(N + 1)' = sent' + 1
      BY <1>5, <1>8 DEF NextAt
    <3>2. starts'[N + 1].heads = start.heads
      BY <1>8
    <3>3. /\ starts'[N + 1].at > 0
          /\ starts'[N + 1].at + Len(f) = NextAt(N + 1)' /\ NextAt(N + 1)' <= sent' + 1
      BY <1>1, <1>2, <3>1
    <3> QED
      BY <1>5, <3>2, <3>3 DEF FrameAt
  <2>2. ASSUME NEW item \in Seen' PROVE Fragment(item, N + 1, f)'
    <3>1. starts'[N + 1].at = sent + 1
      BY <1>5, <1>8
    <3>2. CASE item \in Seen
      BY <1>1, <1>2, <1>12, <3>1, <3>2 DEF Fragment
    <3>3. ASSUME NEW i \in 1 .. Len(f), item = piece[i] PROVE Fragment(item, N + 1, f)'
      <4>1. /\ item.frame = N + 1 /\ item.pos = sent + i /\ item.byte = f[i]
            /\ item.pos - (sent + 1) + 1 = i
        BY <1>1, <1>2, <1>3, <3>3
      <4>2. item.pos \in sent + 1 .. sent + 1 + Len(f) - 1
        <5>1. i \in Nat /\ i >= 1 /\ i <= Len(f) /\ sent \in Nat /\ Len(f) \in Nat
          BY <1>1, <1>2, <3>3
        <5>2. item.pos = sent + i
          BY <4>1
        <5> QED
          BY ONLY <5>1, <5>2
      <4> QED
        BY <3>1, <4>1, <4>2 DEF Fragment
    <3> QED
      BY <1>11, <2>2, <3>2, <3>3
  <2> QED
    BY <2>1, <2>2 DEF IsFrame
<1>16. ASSUME NEW n \in 1 .. Len(starts') PROVE \E g \in PeerFrames : IsFrame(n, g)'
  <2>1. CASE n \in 1 .. N
    BY <1>14, <2>1
  <2>2. CASE n = N + 1
    BY <1>15, <2>2
  <2> QED
    BY <1>2, <1>8, <1>16, <2>1, <2>2
<1> QED
  BY <1>7, <1>10, <1>13, <1>16 DEF Stream, Frames

\* Nothing is sent.
LEMMA StreamInit == Init => Stream
<1> SUFFICES ASSUME Init PROVE Stream
  OBVIOUS
<1>1. Len(line) = 0 /\ Seen = {} /\ Len(starts) = 0
  BY DEF Init, Seen, ToSet
<1> QED
  BY <1>1 DEF Init, Stream, Line, Frames

\* The step takes the next byte off the line, and has at most this byte join the
\* buffer.
Takes ==
    /\ line # <<>> /\ line' = Tail(line) /\ UNCHANGED history
    /\ uart_recv_buf' \in {uart_recv_buf, Append(uart_recv_buf, Head(line)), <<>>}

\* Every step of uart_get_data is of this kind.
LEMMA ReceiveTakes == Receive => Takes
<1>1. SkipByte => Takes
  BY DEF SkipByte, Takes, parser
<1>2. HeaderByte => Takes
  BY DEF HeaderByte, Takes, Restart
<1>3. BodyByte => Takes
  BY DEF BodyByte, Takes, Restart
<1> QED
  BY <1>1, <1>2, <1>3 DEF Receive

\* Taking a byte leaves the stream as it is.
LEMMA TakesStream ==
    ASSUME Types, Stream, Takes
    PROVE  Stream'
<1>1. Line'
  BY ShiftLine DEF Takes, history, Stream
<1>2. ToSet(line') \subseteq Seen
  BY Shift DEF Takes, history, Seen
<1>3. ToSet(uart_recv_buf') \subseteq Seen
  <2>1. CASE uart_recv_buf' = uart_recv_buf
    BY <2>1 DEF Seen
  <2>2. CASE uart_recv_buf' = Append(uart_recv_buf, Head(line))
    <3>1. /\ uart_recv_buf \in Seq(Items) /\ Head(line) \in Items /\ Head(line) \in Seen
      BY Basics DEF Takes
    <3> QED
      BY <2>2, <3>1, AppendSet DEF Seen
  <2>3. CASE uart_recv_buf' = <<>>
    BY <2>3 DEF ToSet
  <2> QED
    BY <2>1, <2>2, <2>3 DEF Takes
<1>4. \A item \in Seen' : item \in Seen
  BY <1>2, <1>3 DEF Seen
<1>5. Frames'
  BY <1>4, FramesKept DEF Stream, Takes, history
<1> QED
  BY <1>1, <1>5 DEF Stream

\* The peer, the faults and the parser keep the stream.
LEMMA StreamNext == Types /\ Stream /\ [Next]_vars => Stream'
<1> SUFFICES ASSUME Types, Stream, [Next]_vars PROVE Stream'
  OBVIOUS
<1>1. ASSUME NEW f \in PeerFrames, PeerSends(f) PROVE Stream'
  BY <1>1, SendStream
<1>2. CASE LoseByte
  <2>1. line # <<>> /\ line' = Tail(line) /\ UNCHANGED <<starts, sent, uart_recv_buf>>
    BY <1>2 DEF LoseByte, parser
  <2>2. \A item \in Seen' : item \in Seen
    BY <2>1, Shift DEF Seen
  <2>3. Frames'
    BY <2>1, <2>2, FramesKept DEF Stream
  <2> QED
    BY <1>2, <2>3, LoseLine DEF Stream
<1>3. ASSUME NEW b \in Byte, AddByte(b) PROVE Stream'
  <2>1. UNCHANGED <<starts, sent, uart_recv_buf>>
    BY <1>3 DEF AddByte, parser
  <2>2. \A item \in ToSet(line') : item \in ToSet(line) \/ item.frame = 0
    BY <1>3, AddLine DEF Stream
  <2>3. \A item \in Seen' : item \in Seen \/ item.frame = 0
    BY <2>1, <2>2 DEF Seen
  <2>4. Frames'
    BY <2>1, <2>3, FramesKept DEF Stream
  <2> QED
    BY <1>3, <2>4, AddLine DEF Stream
<1>4. CASE Receive
  BY <1>4, ReceiveTakes, TakesStream
<1>5. CASE UNCHANGED vars
  BY <1>5 DEF vars, parser, history, Stream, Line, LineItem, Taken, Frames, IsFrame, FrameAt,
              Fragment, NextAt, Seen
<1> QED
  BY <1>1, <1>2, <1>3, <1>4, <1>5 DEF Next

-----------------------------------------------------------------------------
(* The parser in a frame.                                                    *)

\* What procotol_check accepts is framed as uart_get_data expects it: the peer sends
\* no other frames.  Which frame of the stream it is and where it lies there makes
\* no difference to the check.
Stamped(f, n, at) == [i \in DOMAIN f |-> [byte |-> f[i], frame |-> n, pos |-> at + i]]
ValidFrame(f) ==
    /\ Len(f) >= HeaderLen + 1 /\ f[1] = HeadByte
    /\ Len(f) = HeaderLen + (f[2] * ByteSize + f[3]) + 1
    /\ ~TooLong(f[2] * ByteSize + f[3])
    /\ \A n, at \in Nat : procotol_check(Stamped(f, n, at))
FramesValid == \A f \in PeerFrames : ValidFrame(f)

\* The buffer holds the beginning of frame m, which began after the last fault, and
\* the next byte is the next of this frame.
InFrame(m) ==
    /\ m \in 1 .. Len(starts) /\ starts[m].at > fault /\ proctol_start
    /\ \A i \in 1 .. recv_len :
          uart_recv_buf[i].frame = m /\ uart_recv_buf[i].pos = starts[m].at + i - 1
    /\ Taken = starts[m].at + recv_len - 1

\* What the parser knows of this frame.
LEMMA FramePrefix ==
    ASSUME Types, Stream, NEW m, InFrame(m), NEW f \in PeerFrames, ValidFrame(f), IsFrame(m, f)
    PROVE  /\ recv_len < Len(f) /\ recv_len > 0
           /\ \A i \in 1 .. recv_len : uart_recv_buf[i].byte = f[i]
           /\ recv_len >= HeaderLen => recv_len + data_len = Len(f)
<1>1. /\ m \in 1 .. Len(starts) /\ starts[m].at \in Nat /\ recv_len \in Nat
      /\ proctol_start /\ Len(f) \in Nat /\ data_len \in Nat
  <2>1. m \in 1 .. Len(starts) /\ proctol_start
    BY DEF InFrame
  <2>2. Len(f) \in Nat
    BY SizesAssumption
  <2>3. data_len \in Nat
    BY DEF Types, TypeOK
  <2> QED
    BY <2>1, <2>2, <2>3, Basics
<1>2. recv_len > 0
  BY <1>1 DEF Types, BufferInv, WithinBuffer
<1>3. ASSUME NEW i \in 1 .. recv_len PROVE uart_recv_buf[i].byte = f[i]
  <2>1. /\ uart_recv_buf[i] \in Seen /\ uart_recv_buf[i].frame = m
        /\ uart_recv_buf[i].pos = starts[m].at + i - 1
    BY Basics DEF InFrame
  <2>2. uart_recv_buf[i].byte = f[uart_recv_buf[i].pos - starts[m].at + 1]
    BY <2>1 DEF IsFrame, Fragment
  <2>3. uart_recv_buf[i].pos - starts[m].at + 1 = i
    BY <1>1, <2>1
  <2> QED
    BY <2>2, <2>3
<1>4. recv_len >= HeaderLen => recv_len + data_len = Len(f) /\ recv_len < Len(f)
  <2>1. SUFFICES ASSUME recv_len >= HeaderLen
                 PROVE  recv_len + data_len = Len(f) /\ recv_len < Len(f)
    OBVIOUS
  <2>2. uart_recv_buf[2].byte = f[2] /\ uart_recv_buf[3].byte = f[3]
    BY <1>1, <1>3, <2>1 DEF HeaderLen
  <2>3. Length(uart_recv_buf) = f[2] * ByteSize + f[3]
    BY <2>2 DEF Length
  <2>4. data_len > 0 /\ recv_len + data_len = HeaderLen + Length(uart_recv_buf) + 1
    BY <2>1 DEF Types, BufferInv, WithinBuffer
  <2>5. recv_len + data_len = Len(f)
    BY <2>3, <2>4 DEF ValidFrame
  <2> QED
    BY <1>1, <2>4, <2>5
<1>5. recv_len < Len(f)
  BY <1>1, <1>4 DEF ValidFrame, HeaderLen
<1> QED
  BY <1>2, <1>3, <1>4, <1>5

\* The next byte, if it lies in a frame that began after the last fault.
LEMMA NextItem ==
    ASSUME Types, Stream, line # <<>>,
           NEW m \in 1 .. Len(starts), NEW f \in PeerFrames, IsFrame(m, f),
           Taken + 1 >= starts[m].at, Taken + 1 < starts[m].at + Len(f), starts[m].at > fault
    PROVE  /\ Head(line).frame = m /\ Head(line).pos = Taken + 1
           /\ Head(line).byte = f[Head(line).pos - starts[m].at + 1]
<1>1. /\ Head(line) = line[1] /\ line[1] \in Seen /\ line[1] \in Items
      /\ Taken \in Int /\ fault \in Nat /\ starts[m].at \in Nat /\ Len(f) \in Nat
  <2>1. Head(line) = line[1] /\ Len(line) > 0 /\ Len(line) \in Nat
    BY Basics
  <2>2. 1 \in 1 .. Len(line)
    BY <2>1
  <2>3. Len(f) \in Nat
    BY SizesAssumption
  <2> QED
    BY <2>1, <2>2, <2>3, Basics
<1>2. line[1].frame # 0 /\ line[1].pos = Taken + 1
  <2>1. line[1].frame # 0
    BY <1>1, FirstItem DEF Stream
  <2> QED
    BY <2>1, FirstItem DEF Stream
<1>3. line[1].pos \in starts[m].at .. starts[m].at + Len(f) - 1
  BY <1>1, <1>2
<1>4. line[1].frame = m
  BY <1>1, <1>2, <1>3 DEF IsFrame, Fragment
<1>5. line[1].byte = f[line[1].pos - starts[m].at + 1]
  BY <1>1, <1>4 DEF IsFrame, Fragment
<1>6. Head(line) = line[1]
  BY <1>1
<1> QED
  BY ONLY <1>2, <1>4, <1>5, <1>6, Zenon

\* The first byte of a frame that began after the last fault starts the buffer.
LEMMA FrameStarts ==
    ASSUME Types, Stream, FramesValid, HeaderByte, ~proctol_start,
           NEW m \in 1 .. Len(starts), Taken + 1 = starts[m].at, starts[m].at > fault
    PROVE  InFrame(m)'
<1>1. PICK f \in PeerFrames : IsFrame(m, f)
  BY DEF Stream, Frames
<1>2. recv_len = 0 /\ uart_recv_buf = <<>>
  BY DEF Types, BufferInv, WithinBuffer
<1>3. /\ line # <<>> /\ line' = Tail(line) /\ UNCHANGED <<starts, sent, faults, fault>>
      /\ proctol_start' = TRUE /\ recv_len' = 1 /\ uart_recv_buf' = <<Head(line)>>
  BY <1>2 DEF HeaderByte, history, HeaderLen
<1>4. Taken \in Int /\ Len(f) \in Nat /\ Len(f) > 1
  <2>1. Taken \in Int /\ Len(f) \in Nat
    BY Basics, SizesAssumption
  <2>2. Len(f) >= HeaderLen + 1
    BY DEF FramesValid, ValidFrame
  <2> QED
    BY <2>1, <2>2 DEF HeaderLen
<1>5. Head(line).frame = m /\ Head(line).pos = Taken + 1
  <2>1. Taken + 1 >= starts[m].at /\ Taken + 1 < starts[m].at + Len(f)
    BY <1>4
  <2> QED
    BY <1>1, <1>3, <2>1, NextItem
<1>6. Taken' = Taken + 1
  BY <1>3, Shift
<1> QED
  BY <1>3, <1>4, <1>5, <1>6 DEF InFrame

\* A byte that does not complete the frame keeps the buffer in it.
LEMMA PrefixGrows ==
    ASSUME Types, Stream, NEW m, InFrame(m), line # <<>>, line' = Tail(line), UNCHANGED history,
           Head(line).frame = m, Head(line).pos = Taken + 1,
           proctol_start' = TRUE, recv_len' = recv_len + 1,
           uart_recv_buf' = Append(uart_recv_buf, Head(line))
    PROVE  InFrame(m)'
<1>1. /\ m \in 1 .. Len(starts) /\ starts[m].at \in Nat /\ starts[m].at > fault
      /\ recv_len \in Nat /\ recv_len = Len(uart_recv_buf) /\ uart_recv_buf \in Seq(Items)
      /\ Taken = starts[m].at + recv_len - 1 /\ Taken \in Int
  BY Basics DEF InFrame
<1>2. /\ \A i \in 1 .. recv_len : uart_recv_buf'[i] = uart_recv_buf[i]
      /\ uart_recv_buf'[recv_len + 1] = Head(line)
  BY <1>1
<1>3. Taken' = Taken + 1
  BY Shift DEF history
<1>4. ASSUME NEW i \in 1 .. recv_len + 1
      PROVE  uart_recv_buf'[i].frame = m /\ uart_recv_buf'[i].pos = starts[m].at + i - 1
  <2>1. CASE i \in 1 .. recv_len
    BY <1>2, <2>1 DEF InFrame
  <2>2. CASE i = recv_len + 1
    <3>1. /\ starts[m].at \in Int /\ recv_len \in Int /\ Taken \in Int
          /\ Taken = starts[m].at + recv_len - 1
      BY <1>1
    <3>2. Taken + 1 = starts[m].at + i - 1
      BY ONLY <2>2, <3>1
    <3> QED
      BY <1>2, <2>2, <3>2
  <2> QED
    BY <1>1, <1>4, <2>1, <2>2
<1>5. Taken' = starts[m].at + recv_len' - 1
  BY <1>1, <1>3
<1>6. starts' = starts /\ fault' = fault
  BY DEF history
<1> QED
  BY <1>1, <1>4, <1>5, <1>6 DEF InFrame

\* The buffer holds frame m, which was f and starts at position at, and nothing else.
HoldsFrame(buf, m, at, f) ==
    /\ Len(buf) = Len(f)
    /\ \A i \in 1 .. Len(f) :
          buf[i].frame = m /\ buf[i].pos = at + i - 1 /\ buf[i].byte = f[i]

\* With its last byte the frame passes procotol_check, and is the frame that was sent.
LEMMA WholeFrame ==
    ASSUME NEW m \in Nat \ {0}, NEW at \in Nat \ {0}, NEW f \in Seq(Byte), ValidFrame(f),
           NEW buf \in Seq(Items), HoldsFrame(buf, m, at, f)
    PROVE  procotol_check(buf) /\ FrameOf(buf) = m
<1> USE DEF HoldsFrame
<1>1. Len(f) \in Nat /\ DOMAIN f = 1 .. Len(f) /\ DOMAIN buf = 1 .. Len(f) /\ Len(f) >= 1
  <2>1. Len(f) \in Nat /\ DOMAIN f = 1 .. Len(f) /\ DOMAIN buf = 1 .. Len(buf)
    OBVIOUS
  <2>2. Len(f) >= 1
    BY <2>1 DEF ValidFrame, HeaderLen
  <2> QED
    BY <2>1, <2>2
<1>2. ASSUME NEW i \in 1 .. Len(f) PROVE buf[i] = Stamped(f, m, at - 1)[i]
  <2>1. Stamped(f, m, at - 1)[i] = [byte |-> f[i], frame |-> m, pos |-> (at - 1) + i]
    BY <1>1 DEF Stamped
  <2>2. buf[i] \in Items /\ f[i] \in Byte
    BY <1>1
  <2>3. [byte |-> f[i], frame |-> m, pos |-> (at - 1) + i] \in Items
    BY <2>2 DEF Items
  <2>4. (at - 1) + i = at + i - 1
    OBVIOUS
  <2> QED
    BY <2>1, <2>2, <2>3, <2>4 DEF Items
<1>3. buf = Stamped(f, m, at - 1)
  <2>1. /\ buf = [i \in 1 .. Len(f) |-> buf[i]]
        /\ Stamped(f, m, at - 1) = [i \in 1 .. Len(f) |-> Stamped(f, m, at - 1)[i]]
    BY <1>1 DEF Stamped
  <2> QED
    BY <1>2, <2>1
<1>4. procotol_check(buf)
  BY <1>3 DEF ValidFrame
<1>5. FrameOf(buf) = m
  <2>1. \A i, j \in 1 .. Len(f) :
           buf[i].frame = buf[j].frame /\ buf[j].pos - buf[i].pos = j - i
    OBVIOUS
  <2>2. Head(buf).frame = m
    BY <1>1
  <2> QED
    BY <1>1, <2>1, <2>2 DEF FrameOf
<1> QED
  BY <1>4, <1>5

\* A byte taken in a frame that began after the last fault is the next one of it,
\* and with the last one the frame is handled.
Handles(m) == \E buf \in Seq(Items) : handled' = Append(handled, buf) /\ FrameOf(buf) = m

\* A parser that is in frame m stays in it, or handles it and stands right behind it.
LEMMA StepInFrame ==
    ASSUME Types, Stream, FramesValid, NEW m, InFrame(m), HeaderByte \/ BodyByte
    PROVE  /\ Head(line).frame = m
           /\ \/ InFrame(m)' /\ handled' = handled
              \/ ~proctol_start' /\ Handles(m) /\ Taken' + 1 = NextAt(m)
<1> DEFINE buf == Append(uart_recv_buf, Head(line))
<1>1. /\ m \in 1 .. Len(starts) /\ starts[m].at \in Nat /\ starts[m].at > fault
      /\ recv_len \in Nat /\ recv_len = Len(uart_recv_buf) /\ uart_recv_buf \in Seq(Items)
      /\ Taken = starts[m].at + recv_len - 1 /\ Taken \in Int /\ fault \in Nat
  BY Basics DEF InFrame
<1>2. PICK f \in PeerFrames : IsFrame(m, f)
  BY <1>1 DEF Stream, Frames
<1>3. ValidFrame(f) /\ f \in Seq(Byte) /\ Len(f) \in Nat
  BY SizesAssumption DEF FramesValid
<1>4. /\ recv_len < Len(f) /\ recv_len > 0
      /\ \A i \in 1 .. recv_len : uart_recv_buf[i].byte = f[i]
      /\ recv_len >= HeaderLen => recv_len + data_len = Len(f)
  BY <1>2, <1>3, FramePrefix
<1>5. line # <<>> /\ line' = Tail(line) /\ UNCHANGED history
  BY DEF HeaderByte, BodyByte
<1>6. /\ Head(line).frame = m /\ Head(line).pos = Taken + 1
      /\ Head(line).byte = f[Head(line).pos - starts[m].at + 1]
  <2>1. Taken + 1 >= starts[m].at /\ Taken + 1 < starts[m].at + Len(f)
    BY <1>1, <1>3, <1>4
  <2> QED
    BY <1>1, <1>2, <1>5, <2>1, NextItem
<1>7. Head(line).byte = f[recv_len + 1]
  <2>1. Head(line).pos - starts[m].at + 1 = recv_len + 1
    BY <1>1, <1>6
  <2> QED
    BY <1>6, <2>1
<1>8. /\ buf \in Seq(Items) /\ Len(buf) = recv_len + 1
      /\ \A i \in 1 .. recv_len : buf[i] = uart_recv_buf[i]
      /\ buf[recv_len + 1] = Head(line)
  <2>1. Head(line) \in Items
    BY <1>5, Basics
  <2> QED
    BY <1>1, <2>1
<1> HIDE DEF buf
<1>9. ASSUME NEW i \in 1 .. recv_len + 1 PROVE buf[i].byte = f[i]
  <2>1. CASE i \in 1 .. recv_len
    BY <1>4, <1>8, <2>1, Zenon
  <2>2. CASE i = recv_len + 1
    BY <1>7, <1>8, <2>2, Zenon
  <2>3. recv_len \in Nat
    BY <1>1
  <2> QED
    BY ONLY <1>9, <2>1, <2>2, <2>3
<1>10. Taken' = Taken + 1
  BY <1>5, Shift DEF history
<1>11. ASSUME proctol_start' = TRUE, recv_len' = recv_len + 1, uart_recv_buf' = buf
       PROVE  InFrame(m)'
  BY <1>5, <1>6, <1>11, PrefixGrows DEF buf
<1>12. CASE HeaderByte
  <2>1. recv_len < HeaderLen /\ handled' = handled
    BY <1>12 DEF HeaderByte
  <2>2. CASE recv_len + 1 < HeaderLen
    BY <1>6, <1>11, <1>12, <2>1, <2>2 DEF HeaderByte, buf
  <2>3. CASE recv_len + 1 >= HeaderLen
    <3>1. recv_len + 1 = 3
      BY <1>1, <2>1, <2>3 DEF HeaderLen
    <3>2. buf[2].byte = f[2] /\ buf[3].byte = f[3]
      BY <1>9, <3>1
    <3>3. Length(buf) = f[2] * ByteSize + f[3]
      BY <3>2 DEF Length
    <3>4. ~TooLong(Length(buf))
      BY <1>3, <3>3 DEF ValidFrame
    <3> QED
      BY <1>6, <1>11, <1>12, <2>1, <2>3, <3>1, <3>4 DEF HeaderByte, buf, HeaderLen
  <2> QED
    BY <1>1, <2>2, <2>3 DEF HeaderLen
<1>13. CASE BodyByte
  <2>1. /\ recv_len >= HeaderLen /\ data_len' = data_len - 1 /\ data_len \in Nat
        /\ recv_len + data_len = Len(f)
    BY <1>4, <1>13 DEF BodyByte, Types, TypeOK
  <2>2. CASE data_len' = 0
    <3>1. recv_len + 1 = Len(f)
      BY <1>1, <1>3, <2>1, <2>2
    <3>2. ASSUME NEW i \in 1 .. Len(f)
          PROVE  buf[i].frame = m /\ buf[i].pos = starts[m].at + i - 1 /\ buf[i].byte = f[i]
      <4>1. CASE i \in 1 .. recv_len
        BY <1>8, <1>9, <3>1, <3>2, <4>1 DEF InFrame
      <4>2. CASE i = recv_len + 1
        <5>1. Taken + 1 = starts[m].at + i - 1
          <6>1. starts[m].at \in Int /\ recv_len \in Int /\ Taken = starts[m].at + recv_len - 1
            BY <1>1
          <6> QED
            BY ONLY <4>2, <6>1
        <5> QED
          BY <1>6, <1>7, <1>8, <4>2, <5>1
      <4> QED
        BY <1>1, <3>1, <3>2, <4>1, <4>2
    <3>3. procotol_check(buf) /\ FrameOf(buf) = m
      <4>1. m \in Nat \ {0} /\ starts[m].at \in Nat \ {0} /\ Len(buf) = Len(f)
        BY <1>1, <1>8, <3>1
      <4>2. buf \in Seq(Items)
        BY <1>8
      <4>3. HoldsFrame(buf, m, starts[m].at, f)
        BY <3>2, <4>1, Zenon DEF HoldsFrame
      <4>4. f \in Seq(Byte) /\ ValidFrame(f)
        BY <1>3
      <4> QED
        BY ONLY <4>1, <4>2, <4>3, <4>4, WholeFrame, Zenon
    <3>4. ~proctol_start' /\ handled' = Append(handled, buf)
      BY <1>13, <2>2, <3>3 DEF BodyByte, Restart, Deliver, buf
    <3>5. Taken' + 1 = NextAt(m)
      <4>1. starts[m].at + Len(f) = NextAt(m)
        BY <1>2 DEF IsFrame, FrameAt
      <4>2. Taken' + 1 = starts[m].at + Len(f)
        <5>1. /\ starts[m].at \in Int /\ recv_len \in Int /\ Taken \in Int
              /\ Taken = starts[m].at + recv_len - 1
          BY <1>1
        <5> QED
          BY ONLY <1>10, <3>1, <5>1
      <4> QED
        BY <4>1, <4>2
    <3> QED
      BY <1>6, <1>8, <3>3, <3>4, <3>5 DEF Handles
  <2>3. CASE data_len' # 0
    <3>1. /\ recv_len' = recv_len + 1 /\ uart_recv_buf' = buf /\ handled' = handled
          /\ proctol_start' = proctol_start /\ proctol_start
      BY <1>13, <2>3 DEF BodyByte, buf
    <3>2. proctol_start' = TRUE
      BY <3>1
    <3> QED
      BY <1>6, <1>11, <3>1, <3>2
  <2> QED
    BY <2>2, <2>3
<1> QED
  BY <1>12, <1>13

\* Bytes behind the one that is taken do not belong to a frame that ends with it.
LEMMA BehindFrame ==
    ASSUME Types, Stream, line # <<>>, line' = Tail(line), UNCHANGED history,
           NEW m \in 1 .. Len(starts), Taken' + 1 = NextAt(m), NEW i \in 1 .. Len(line')
    PROVE  line'[i].frame # m
<1>1. SUFFICES ASSUME line'[i].frame = m PROVE FALSE
  OBVIOUS
<1>2. PICK f \in PeerFrames : IsFrame(m, f)
  BY DEF Stream, Frames
<1>3. /\ i \in Nat \ {0} /\ i + 1 \in 1 .. Len(line) /\ line'[i] = line[i + 1]
      /\ Taken' = Taken + 1 /\ Taken \in Int
  <2>1. Len(line) \in Nat /\ Taken \in Int
    BY Basics
  <2>2. /\ Len(line') = Len(line) - 1 /\ Taken' = Taken + 1
        /\ \A j \in 1 .. Len(line') : line'[j] = line[j + 1]
    BY Shift DEF history
  <2> QED
    BY <2>1, <2>2
<1>4. line[i + 1] \in Seen /\ starts[m].at \in Nat /\ Len(f) \in Nat
  <2>1. Len(f) \in Nat
    BY SizesAssumption
  <2> QED
    BY <1>3, <2>1, Basics
<1>5. /\ line[i + 1].pos \in starts[m].at .. starts[m].at + Len(f) - 1
      /\ starts[m].at + Len(f) = NextAt(m)
  BY <1>1, <1>2, <1>3, <1>4 DEF IsFrame, Fragment, FrameAt
<1>6. line[i + 1].pos = Taken + (i + 1)
  <2>1. LineItem(i + 1)
    BY <1>3 DEF Stream, Line
  <2> QED
    BY <1>1, <1>3, <2>1 DEF LineItem
<1> QED
  BY <1>3, <1>4, <1>5, <1>6

-----------------------------------------------------------------------------
(* A line without faults.                                                    *)

\* The frames handled are the first ones; the parser is in the next one, or at its
\* beginning.
NextStart == IF Len(handled) = Len(starts) THEN sent + 1 ELSE starts[Len(handled) + 1].at

Clean ==
    faults = 0 =>
       /\ Len(handled) <= Len(starts)
       /\ \A n \in 1 .. Len(handled) : FrameOf(handled[n]) = n
       /\ \A i \in 1 .. Len(line) : line[i].frame > Len(handled)
       /\ proctol_start => InFrame(Len(handled) + 1)
       /\ ~proctol_start => Taken + 1 = NextStart

\* No frame is sent and none is handled.
LEMMA CleanInit == Init => Clean
<1> SUFFICES ASSUME Init PROVE Clean
  OBVIOUS
<1>1. Len(handled) = 0 /\ Len(starts) = 0 /\ Len(line) = 0 /\ sent = 0
  BY DEF Init
<1>2. Taken = 0
  BY <1>1 DEF Taken
<1> QED
  BY <1>1, <1>2 DEF Init, Clean, NextStart

\* When no frame has begun, the next byte is the first one of the next frame.
LEMMA CleanNextFrame ==
    ASSUME Types, Stream, FramesValid, Clean, faults = 0, ~proctol_start, line # <<>>
    PROVE  LET m == Len(handled) + 1
           IN  /\ m \in 1 .. Len(starts) /\ Taken + 1 = starts[m].at /\ starts[m].at > fault
               /\ Head(line).byte = HeadByte
<1>1. PICK k \in Nat : k = Len(handled)
  BY Basics
<1>2. /\ Len(line) \in Nat /\ Len(line) > 0 /\ Len(starts) \in Nat /\ sent \in Nat
      /\ Taken \in Int /\ k <= Len(starts) /\ Taken + 1 = NextStart /\ fault = 0
  BY <1>1, Basics DEF Clean, Stream, Line
<1>3. k # Len(starts)
  BY <1>1, <1>2 DEF NextStart, Taken
<1>4. k + 1 \in 1 .. Len(starts) /\ Taken + 1 = starts[k + 1].at
  BY <1>1, <1>2, <1>3 DEF NextStart
<1>5. PICK f \in PeerFrames : IsFrame(k + 1, f)
  BY <1>4 DEF Stream, Frames
<1>6. starts[k + 1].at > fault /\ Taken + 1 >= starts[k + 1].at
  BY <1>2, <1>4, <1>5 DEF IsFrame, FrameAt
<1>7. Taken + 1 < starts[k + 1].at + Len(f) /\ f[1] = HeadByte
  <2>1. Len(f) \in Nat /\ Len(f) >= HeaderLen + 1
    BY SizesAssumption DEF FramesValid, ValidFrame
  <2>2. f[1] = HeadByte
    BY DEF FramesValid, ValidFrame
  <2> QED
    BY <1>2, <1>4, <2>1, <2>2 DEF HeaderLen
<1>8. /\ Head(line).pos = Taken + 1
      /\ Head(line).byte = f[Head(line).pos - starts[k + 1].at + 1]
  BY <1>2, <1>4, <1>5, <1>6, <1>7, NextItem, Basics
<1>9. Head(line).pos - starts[k + 1].at + 1 = 1
  BY <1>2, <1>4, <1>8
<1> QED
  BY <1>1, <1>4, <1>6, <1>7, <1>8, <1>9

\* A frame that is sent on a clean line is one more that is not handled yet.
LEMMA CleanSend ==
    ASSUME Types, Stream, Clean, NEW f \in PeerFrames, PeerSends(f)
    PROVE  Clean'
<1>1. SUFFICES ASSUME faults' = 0 PROVE Clean'
  BY DEF Clean
<1>2. faults = 0 /\ UNCHANGED <<parser, handled, fault>> /\ Taken' = Taken
  BY <1>1, SendStream DEF PeerSends
<1>3. PICK k \in Nat : k = Len(handled)
  BY Basics
<1>4. PICK N \in Nat : N = Len(starts)
  BY Basics
<1> DEFINE piece == [i \in DOMAIN f |->
                       [byte |-> f[i], frame |-> N + 1, pos |-> sent + i]]
           start == [at |-> sent + 1, heads |-> \E i \in 2 .. Len(f) : f[i] = HeadByte]
<1>5. line' = line \o piece /\ starts' = Append(starts, start)
  BY <1>4 DEF PeerSends
<1>6. /\ k <= N /\ \A n \in 1 .. k : FrameOf(handled[n]) = n
      /\ \A i \in 1 .. Len(line) : line[i].frame > k
      /\ proctol_start => InFrame(k + 1)
      /\ ~proctol_start => Taken + 1 = NextStart
  BY <1>2, <1>3, <1>4 DEF Clean
<1>7. /\ Len(starts') = N + 1 /\ starts'[N + 1].at = sent + 1
      /\ \A n \in 1 .. N : starts'[n] = starts[n]
  <2>1. start.at = sent + 1
    OBVIOUS
  <2> HIDE DEF start
  <2> QED
    BY <1>4, <1>5, <2>1, Basics
<1>8. \A i \in 1 .. Len(line') : line'[i].frame > k
  <2>1. /\ f \in Seq(Byte) /\ Len(f) \in Nat /\ DOMAIN f = 1 .. Len(f)
        /\ sent \in Nat /\ line \in Seq(Items)
    <3>1. f \in Seq(Byte)
      BY SizesAssumption
    <3>2. sent \in Nat /\ line \in Seq(Items)
      BY Basics
    <3> QED
      BY <3>1, <3>2
  <2>2. \A i \in 1 .. Len(f) : piece[i] \in Items /\ piece[i].frame = N + 1
    BY <2>1 DEF Items
  <2>3. piece \in Seq(Items) /\ Len(piece) = Len(f)
    BY <2>1, <2>2
  <2> HIDE DEF piece
  <2>4. /\ Len(line \o piece) = Len(line) + Len(piece)
        /\ \A i \in 1 .. Len(line) + Len(piece) :
              (line \o piece)[i] = IF i <= Len(line) THEN line[i] ELSE piece[i - Len(line)]
    BY ONLY <2>1, <2>3, ConcatProperties
  <2>5. ASSUME NEW i \in 1 .. Len(line') PROVE line'[i].frame > k
    <3>1. i \in 1 .. Len(line) + Len(f) /\ Len(line) \in Nat
      BY <1>5, <2>1, <2>3, <2>4
    <3>2. CASE i <= Len(line)
      BY <1>5, <1>6, <2>3, <2>4, <3>1, <3>2
    <3>3. CASE i > Len(line)
      <4>1. line'[i] = piece[i - Len(line)] /\ i - Len(line) \in 1 .. Len(f)
        BY <1>5, <2>1, <2>3, <2>4, <3>1, <3>3
      <4>2. line'[i].frame = N + 1
        BY <2>2, <4>1
      <4> QED
        BY <1>6, <4>2
    <3> QED
      BY <3>1, <3>2, <3>3
  <2> QED
    BY <2>5
<1> HIDE DEF piece, start
<1>9. CASE proctol_start
  <2>1. InFrame(k + 1)'
    <3>1. k + 1 \in 1 .. N /\ starts'[k + 1] = starts[k + 1]
      BY <1>4, <1>6, <1>7, <1>9 DEF InFrame
    <3> QED
      BY <1>2, <1>4, <1>6, <1>7, <1>9, <3>1 DEF InFrame, parser
  <2>2. Len(handled') = k /\ handled' = handled /\ proctol_start'
    BY <1>2, <1>3, <1>9 DEF parser
  <2> QED
    BY <1>6, <1>7, <1>8, <2>1, <2>2 DEF Clean
<1>10. CASE ~proctol_start
  <2>1. Taken' + 1 = NextStart'
    <3>1. CASE k = N
      BY <1>2, <1>3, <1>4, <1>6, <1>7, <1>10, <3>1 DEF NextStart
    <3>2. CASE k < N
      BY <1>2, <1>3, <1>4, <1>6, <1>7, <1>10, <3>2 DEF NextStart
    <3> QED
      BY <1>6, <3>1, <3>2
  <2>2. Len(handled') = k /\ handled' = handled /\ ~proctol_start'
    BY <1>2, <1>3, <1>10 DEF parser
  <2> QED
    BY <1>6, <1>7, <1>8, <2>1, <2>2 DEF Clean
<1> QED
  BY <1>9, <1>10

\* On a clean line the parser goes through the first frame not handled yet.
LEMMA CleanReceive ==
    ASSUME Types, Stream, FramesValid, Clean, Receive
    PROVE  Clean'
<1>1. SUFFICES ASSUME faults = 0 PROVE Clean'
  BY ReceiveTakes DEF Clean, Takes, history
<1>2. line # <<>> /\ line' = Tail(line) /\ UNCHANGED <<starts, sent, faults, fault>>
  BY ReceiveTakes DEF Takes, history
<1>3. PICK k \in Nat : k = Len(handled)
  BY Basics
<1>4. /\ k <= Len(starts) /\ \A n \in 1 .. k : FrameOf(handled[n]) = n
      /\ \A i \in 1 .. Len(line) : line[i].frame > k
      /\ proctol_start => InFrame(k + 1)
  BY <1>1, <1>3 DEF Clean
<1>5. /\ \A i \in 1 .. Len(line') : line'[i].frame > k /\ line'[i] \in Items
      /\ Taken' = Taken + 1 /\ Taken \in Int
  <2>1. /\ Len(line') = Len(line) - 1 /\ Taken' = Taken + 1
        /\ \A j \in 1 .. Len(line') : line'[j] = line[j + 1]
    BY <1>2, Shift
  <2>2. Len(line) \in Nat /\ \A i \in 1 .. Len(line) : line[i] \in Items
    BY Basics
  <2>3. \A i \in 1 .. Len(line') : i + 1 \in 1 .. Len(line)
    BY <2>1, <2>2
  <2> QED
    BY <1>4, <2>1, <2>2, <2>3, Basics
<1>6. ASSUME InFrame(k + 1)', handled' = handled PROVE Clean'
  BY <1>2, <1>3, <1>4, <1>5, <1>6 DEF Clean, InFrame
<1>7. CASE proctol_start
  <2>1. HeaderByte \/ BodyByte
    BY <1>7 DEF Receive, SkipByte
  <2>2. CASE InFrame(k + 1)' /\ handled' = handled
    BY <1>6, <2>2
  <2>3. CASE ~proctol_start' /\ Handles(k + 1) /\ Taken' + 1 = NextAt(k + 1)
    <3>1. PICK buf \in Seq(Items) : handled' = Append(handled, buf) /\ FrameOf(buf) = k + 1
      BY <2>3 DEF Handles
    <3>2. /\ Len(handled') = k + 1 /\ \A n \in 1 .. k : handled'[n] = handled[n]
          /\ handled'[k + 1] = buf
      BY <1>3, <3>1, Basics
    <3>3. \A n \in 1 .. k + 1 : FrameOf(handled'[n]) = n
      BY <1>4, <3>1, <3>2
    <3>4. k + 1 \in 1 .. Len(starts)
      BY <1>4, <1>7 DEF InFrame
    <3>5. \A i \in 1 .. Len(line') : line'[i].frame > k + 1
      <4>1. ASSUME NEW i \in 1 .. Len(line') PROVE line'[i].frame # k + 1
        BY <1>2, <2>3, <3>4, BehindFrame DEF history
      <4>2. ASSUME NEW i \in 1 .. Len(line') PROVE line'[i].frame \in Nat
        BY <1>5, ItemFields
      <4> QED
        BY <1>5, <4>1, <4>2
    <3>6. Taken' + 1 = NextStart'
      BY <1>2, <2>3, <3>2 DEF NextStart, NextAt
    <3>7. k + 1 <= Len(starts)
      BY <3>4
    <3> QED
      BY <1>2, <2>3, <3>2, <3>3, <3>5, <3>6, <3>7 DEF Clean
  <2> QED
    BY <1>4, <1>7, <2>1, <2>2, <2>3, StepInFrame
<1>8. CASE ~proctol_start
  <2>1. /\ k + 1 \in 1 .. Len(starts) /\ Taken + 1 = starts[k + 1].at
        /\ starts[k + 1].at > fault /\ Head(line).byte = HeadByte
    BY <1>1, <1>2, <1>3, <1>8, CleanNextFrame
  <2>2. HeaderByte
    BY <1>8, <2>1 DEF Receive, SkipByte, BodyByte
  <2>3. InFrame(k + 1)'
    BY <1>8, <2>1, <2>2, FrameStarts
  <2>4. handled' = handled
    BY <2>2 DEF HeaderByte
  <2> QED
    BY <1>6, <2>3, <2>4
<1> QED
  BY <1>7, <1>8

\* Without faults the parser keeps in step.
LEMMA CleanNext == Types /\ Stream /\ FramesValid /\ Clean /\ [Next]_vars => Clean'
<1> SUFFICES ASSUME Types, Stream, FramesValid, Clean, [Next]_vars PROVE Clean'
  OBVIOUS
<1>1. ASSUME NEW f \in PeerFrames, PeerSends(f) PROVE Clean'
  BY <1>1, CleanSend
<1>2. ASSUME faults' = faults + 1 PROVE Clean'
  BY <1>2, Basics DEF Clean
<1>3. CASE LoseByte
  BY <1>2, <1>3 DEF LoseByte
<1>4. ASSUME NEW b \in Byte, AddByte(b) PROVE Clean'
  BY <1>2, <1>4 DEF AddByte
<1>5. CASE Receive
  BY <1>5, CleanReceive
<1>6. CASE UNCHANGED vars
  BY <1>6 DEF vars, parser, history, Clean, InFrame, NextStart, Taken
<1> QED
  BY <1>1, <1>3, <1>4, <1>5, <1>6 DEF Next

-----------------------------------------------------------------------------
(* After a fault.                                                            *)

\* No frame sent has the head byte inside.
NoHeads == \A n \in 1 .. Len(starts) : ~starts[n].heads

\* The parser is where it may be when what it takes for a frame began with, or
\* before, the last fault ...
OutOfStep == Taken <= fault + recv_len - 1

\* ... or it is in a frame.  A frame that starts late enough has not begun yet, is
\* the one in the buffer, or was handled.
Awaited(n) == starts[n].at > Taken
Arrived(n) == \E i \in 1 .. Len(handled) : FrameOf(handled[i]) = n
Kept(n) == starts[n].at > fault + Swallowed => Awaited(n) \/ InFrame(n) \/ Arrived(n)

Again ==
    faults > 0 /\ NoHeads =>
       /\ proctol_start => OutOfStep \/ \E m \in 1 .. Len(starts) : InFrame(m)
       /\ \A n \in 1 .. Len(starts) : Kept(n)

\* A fault may put the parser out of step, but no frame begins before it.
LEMMA AgainFault ==
    ASSUME Types, UNCHANGED <<parser, starts>>, Taken' <= fault', Taken' \in Int, fault' \in Nat
    PROVE  Again'
<1>1. proctol_start => recv_len' = recv_len /\ recv_len >= 1 /\ recv_len \in Nat
  BY DEF Types, BufferInv, WithinBuffer, parser
<1>2. proctol_start' => OutOfStep'
  BY <1>1 DEF OutOfStep, parser
<1>3. ASSUME NEW n \in 1 .. Len(starts') PROVE Kept(n)'
  <2>1. starts'[n].at \in Nat
    BY <1>3, Basics
  <2>2. Swallowed \in Nat
    BY SizesAssumption DEF Swallowed, HeaderLen
  <2>3. starts'[n].at > fault' + Swallowed => Awaited(n)'
    BY <2>1, <2>2 DEF Awaited
  <2> QED
    BY <2>3 DEF Kept, Swallowed
<1> QED
  BY <1>2, <1>3 DEF Again

\* A frame that is sent is ahead of the parser.
LEMMA AgainSend ==
    ASSUME Types, Stream, Again, NEW f \in PeerFrames, PeerSends(f)
    PROVE  Again'
<1>1. PICK N \in Nat : N = Len(starts)
  BY Basics
<1> DEFINE start == [at |-> sent + 1, heads |-> \E i \in 2 .. Len(f) : f[i] = HeadByte]
<1>2. starts' = Append(starts, start) /\ UNCHANGED <<parser, handled, faults, fault>>
  BY DEF PeerSends
<1>3. /\ Len(starts') = N + 1 /\ starts'[N + 1].at = sent + 1
      /\ \A n \in 1 .. N : starts'[n] = starts[n]
  <2>1. start.at = sent + 1
    OBVIOUS
  <2> HIDE DEF start
  <2> QED
    BY <1>1, <1>2, <2>1, Basics
<1> HIDE DEF start
<1>4. Taken' = Taken
  BY SendStream
<1>5. SUFFICES ASSUME faults > 0, NoHeads' PROVE Again'
  BY <1>2 DEF Again
<1>6. NoHeads
  <2>1. \A n \in 1 .. N : n \in 1 .. N + 1
    OBVIOUS
  <2> QED
    BY <1>1, <1>3, <1>5, <2>1 DEF NoHeads
<1>7. ASSUME NEW m \in 1 .. N, InFrame(m) PROVE InFrame(m)'
  <2>1. m \in 1 .. N + 1 /\ starts'[m] = starts[m]
    BY <1>3, <1>7
  <2> QED
    BY <1>2, <1>3, <1>4, <1>7, <2>1 DEF InFrame, parser
<1>8. /\ proctol_start => OutOfStep \/ \E m \in 1 .. N : InFrame(m)
      /\ \A n \in 1 .. N : Kept(n)
  BY <1>1, <1>5, <1>6 DEF Again
<1>9. proctol_start' => OutOfStep' \/ \E m \in 1 .. N + 1 : InFrame(m)'
  <2>1. SUFFICES ASSUME proctol_start PROVE OutOfStep' \/ \E m \in 1 .. N + 1 : InFrame(m)'
    BY <1>2 DEF parser
  <2>2. CASE OutOfStep
    BY <1>2, <1>4, <2>2 DEF OutOfStep, parser
  <2>3. ASSUME NEW m \in 1 .. N, InFrame(m) PROVE \E l \in 1 .. N + 1 : InFrame(l)'
    <3>1. m \in 1 .. N + 1 /\ InFrame(m)'
      BY <1>7, <2>3
    <3> QED
      BY <3>1
  <2> QED
    BY <1>8, <2>1, <2>2, <2>3
<1>10. ASSUME NEW n \in 1 .. N + 1 PROVE Kept(n)'
  <2>1. CASE n \in 1 .. N
    <3>1. starts'[n] = starts[n] /\ Kept(n)
      BY <1>3, <1>8, <2>1
    <3>2. Awaited(n) => Awaited(n)'
      BY <1>4, <3>1 DEF Awaited
    <3>3. Arrived(n) => Arrived(n)'
      BY <1>2 DEF Arrived
    <3> QED
      BY <1>2, <1>7, <2>1, <3>1, <3>2, <3>3 DEF Kept, Swallowed
  <2>2. CASE n = N + 1
    <3>1. sent + 1 > Taken
      BY Basics DEF Taken
    <3> QED
      BY <1>3, <1>4, <2>2, <3>1 DEF Kept, Awaited
  <2> QED
    BY <2>1, <2>2
<1> QED
  BY <1>3, <1>9, <1>10 DEF Again

\* A frame that has not begun is still awaited, unless its first byte is the one
\* that is taken.
LEMMA StillAwaited ==
    ASSUME Types, Takes, NEW n \in 1 .. Len(starts), Awaited(n), Taken + 1 # starts[n].at
    PROVE  Awaited(n)'
<1>1. Taken' = Taken + 1 /\ Taken \in Int /\ starts' = starts
  BY Basics, Shift DEF Takes, history
<1>2. starts[n].at \in Nat /\ starts[n].at > Taken
  BY Basics DEF Awaited
<1>3. starts[n].at > Taken + 1
  BY <1>1, <1>2
<1> QED
  BY <1>1, <1>3 DEF Awaited

\* What was handled is not lost.
LEMMA StillArrived ==
    ASSUME Types, NEW n, Arrived(n),
           handled' = handled \/ \E buf \in Seq(Items) : handled' = Append(handled, buf)
    PROVE  Arrived(n)'
<1>1. PICK i \in 1 .. Len(handled) : FrameOf(handled[i]) = n
  BY DEF Arrived
<1>2. i \in 1 .. Len(handled') /\ handled'[i] = handled[i]
  <2>1. handled \in Seq(Seq(Items)) /\ Len(handled) \in Nat
    BY Basics
  <2>2. CASE handled' = handled
    BY <2>2
  <2>3. ASSUME NEW buf \in Seq(Items), handled' = Append(handled, buf)
        PROVE  i \in 1 .. Len(handled') /\ handled'[i] = handled[i]
    BY <2>1, <2>3
  <2> QED
    BY <2>2, <2>3
<1> QED
  BY <1>1, <1>2 DEF Arrived

\* In a frame the parser takes no first byte of another one.
LEMMA AgainInFrame ==
    ASSUME Types, Stream, FramesValid, Takes, \A n \in 1 .. Len(starts) : Kept(n),
           NEW m, InFrame(m), HeaderByte \/ BodyByte
    PROVE  Again'
<1>1. /\ m \in 1 .. Len(starts) /\ starts' = starts /\ fault' = fault
      /\ Taken' = Taken + 1 /\ line # <<>>
  BY Shift DEF InFrame, Takes, history
<1>2. /\ Head(line).frame = m
      /\ \/ InFrame(m)' /\ handled' = handled
         \/ ~proctol_start' /\ Handles(m) /\ Taken' + 1 = NextAt(m)
  BY StepInFrame
<1>3. handled' = handled \/ \E buf \in Seq(Items) : handled' = Append(handled, buf)
  BY <1>2 DEF Handles
<1>4. InFrame(m)' \/ Arrived(m)'
  <2>1. CASE Handles(m)
    <3>1. PICK buf \in Seq(Items) : handled' = Append(handled, buf) /\ FrameOf(buf) = m
      BY <2>1 DEF Handles
    <3>2. /\ Len(handled) + 1 \in 1 .. Len(handled')
          /\ handled'[Len(handled) + 1] = buf
      BY <3>1, Basics
    <3> QED
      BY <3>1, <3>2 DEF Arrived
  <2> QED
    BY <1>2, <2>1
<1>5. ASSUME NEW n \in 1 .. Len(starts), starts[n].at > fault + Swallowed
      PROVE  Awaited(n)' \/ InFrame(n)' \/ Arrived(n)'
  <2>1. CASE Awaited(n)
    <3>1. Taken + 1 # starts[n].at
      <4>1. SUFFICES ASSUME Taken + 1 = starts[n].at PROVE FALSE
        OBVIOUS
      <4>2. PICK f \in PeerFrames : IsFrame(n, f)
        BY DEF Stream, Frames
      <4>3. Len(f) \in Nat /\ Len(f) > 1 /\ starts[n].at \in Nat /\ fault \in Nat /\ Swallowed \in Nat
        <5>1. Len(f) \in Nat /\ Len(f) >= HeaderLen + 1
          BY SizesAssumption DEF FramesValid, ValidFrame
        <5>2. MaxLen \in Nat
          BY SizesAssumption
        <5>3. Len(f) > 1 /\ Swallowed \in Nat
          BY <5>1, <5>2 DEF HeaderLen, Swallowed
        <5> QED
          BY <5>1, <5>3, Basics
      <4>4. /\ Taken + 1 >= starts[n].at /\ Taken + 1 < starts[n].at + Len(f)
            /\ starts[n].at > fault
        BY <1>5, <4>1, <4>3
      <4>5. Head(line).frame = n
        BY <1>1, <4>2, <4>4, NextItem
      <4>6. /\ Taken = starts[n].at + recv_len - 1 /\ recv_len > 0 /\ recv_len \in Nat
            /\ Taken \in Int
        <5>1. Taken = starts[n].at + recv_len - 1 /\ proctol_start
          BY <1>2, <4>5 DEF InFrame
        <5> QED
          BY <5>1, Basics DEF Types, BufferInv, WithinBuffer
      <4> QED
        BY ONLY <4>1, <4>3, <4>6
    <3> QED
      BY <2>1, <3>1, StillAwaited
  <2>2. CASE InFrame(n)
    <3>1. recv_len \in Nat /\ recv_len > 0
      BY <2>2 DEF InFrame, Types, BufferInv, WithinBuffer
    <3>2. 1 \in 1 .. recv_len
      BY <3>1
    <3>3. uart_recv_buf[1].frame = n /\ uart_recv_buf[1].frame = m
      BY <2>2, <3>2 DEF InFrame
    <3> QED
      BY <1>4, <3>3
  <2>3. CASE Arrived(n)
    BY <1>3, <2>3, StillArrived
  <2> QED
    BY <1>5, <2>1, <2>2, <2>3 DEF Kept
<1>6. proctol_start' => \E l \in 1 .. Len(starts') : InFrame(l)'
  BY <1>1, <1>2
<1> QED
  BY <1>1, <1>5, <1>6 DEF Again, Kept, Swallowed

\* Out of step, the parser is back between two frames before a frame that starts
\* late enough.
LEMMA AgainOutOfStep ==
    ASSUME Types, Stream, Takes, \A n \in 1 .. Len(starts) : Kept(n),
           \A n \in 1 .. Len(starts) : ~InFrame(n),
           proctol_start, OutOfStep, HeaderByte \/ BodyByte
    PROVE  Again'
<1>1. /\ starts' = starts /\ fault' = fault /\ Taken' = Taken + 1
      /\ Taken \in Int /\ fault \in Nat /\ recv_len \in Nat
  BY Basics, Shift DEF Takes, history
<1>2. handled' = handled \/ \E buf \in Seq(Items) : handled' = Append(handled, buf)
  <2>1. Append(uart_recv_buf, Head(line)) \in Seq(Items)
    BY Basics DEF Takes
  <2> QED
    BY <2>1 DEF HeaderByte, BodyByte, Deliver
<1>3. proctol_start' => recv_len' = recv_len + 1
  BY DEF HeaderByte, BodyByte, Restart
<1>4. proctol_start' => OutOfStep'
  BY <1>1, <1>3 DEF OutOfStep
<1>5. recv_len <= Swallowed /\ Swallowed \in Nat
  <2>1. MaxLen \in Nat \ {0}
    BY SizesAssumption
  <2>2. Swallowed \in Nat /\ Swallowed = 3 + MaxLen
    BY <2>1 DEF Swallowed, HeaderLen
  <2>3. recv_len >= HeaderLen => recv_len + data_len <= HeaderLen + MaxLen /\ data_len \in Nat
    BY DEF Types, Fits, TypeOK
  <2> QED
    BY <1>1, <2>1, <2>2, <2>3 DEF HeaderLen
<1>6. ASSUME NEW n \in 1 .. Len(starts), starts[n].at > fault + Swallowed
      PROVE  Awaited(n)' \/ Arrived(n)'
  <2>1. CASE Awaited(n)
    <3>1. starts[n].at \in Nat
      BY Basics
    <3>2. Taken + 1 # starts[n].at
      BY <1>1, <1>5, <1>6, <3>1 DEF OutOfStep
    <3> QED
      BY <2>1, <3>2, StillAwaited
  <2>2. CASE Arrived(n)
    BY <1>2, <2>2, StillArrived
  <2> QED
    BY <1>6, <2>1, <2>2 DEF Kept
<1> QED
  BY <1>1, <1>4, <1>6 DEF Again, Kept, Swallowed

\* Between two frames, the next head byte either is not behind the last fault, or
\* begins a frame; so that a frame that starts late enough is not skipped.
LEMMA AgainBetween ==
    ASSUME Types, Stream, FramesValid, Takes, NoHeads, \A n \in 1 .. Len(starts) : Kept(n),
           ~proctol_start, Receive
    PROVE  Again'
<1>1. /\ starts' = starts /\ fault' = fault /\ Taken' = Taken + 1
      /\ Taken \in Int /\ fault \in Nat /\ line # <<>>
      /\ Head(line) = line[1] /\ line[1] \in Seen /\ line[1] \in Items
  <2>1. line # <<>> /\ UNCHANGED history /\ Taken' = Taken + 1
    BY Shift DEF Takes, history
  <2>2. Head(line) = line[1] /\ Len(line) > 0 /\ Len(line) \in Nat
    BY <2>1, Basics
  <2>3. 1 \in 1 .. Len(line)
    BY <2>2
  <2> QED
    BY <2>1, <2>2, <2>3, Basics DEF history
<1>2. SkipByte \/ HeaderByte
  BY DEF Receive, BodyByte
<1>3. handled' = handled
  BY <1>2 DEF SkipByte, HeaderByte
\* The first byte of a frame behind the fault is taken with HeaderByte.
<1>4. ASSUME NEW n \in 1 .. Len(starts), Taken + 1 = starts[n].at, starts[n].at > fault
      PROVE  HeaderByte /\ InFrame(n)'
  <2>1. PICK f \in PeerFrames : IsFrame(n, f)
    BY DEF Stream, Frames
  <2>2. Len(f) \in Nat /\ Len(f) > 1 /\ f[1] = HeadByte
    <3>1. Len(f) \in Nat /\ Len(f) >= HeaderLen + 1 /\ f[1] = HeadByte
      BY SizesAssumption DEF FramesValid, ValidFrame
    <3> QED
      BY <3>1 DEF HeaderLen
  <2>3. Taken + 1 >= starts[n].at /\ Taken + 1 < starts[n].at + Len(f)
    BY <1>1, <1>4, <2>2
  <2>4. Head(line).pos = Taken + 1 /\ Head(line).byte = f[Head(line).pos - starts[n].at + 1]
    BY <1>1, <1>4, <2>1, <2>3, NextItem
  <2>5. Head(line).pos - starts[n].at + 1 = 1
    BY <1>1, <1>4, <2>4
  <2>6. HeaderByte
    BY <1>2, <2>2, <2>4, <2>5 DEF SkipByte
  <2> QED
    BY <1>4, <2>6, FrameStarts
<1>5. ASSUME NEW n \in 1 .. Len(starts), starts[n].at > fault + Swallowed
      PROVE  Awaited(n)' \/ InFrame(n)' \/ Arrived(n)'
  <2>1. CASE Awaited(n)
    <3>1. CASE Taken + 1 = starts[n].at
      <4>1. MaxLen \in Nat
        BY SizesAssumption
      <4>2. starts[n].at > fault
        BY <1>1, <1>5, <3>1, <4>1 DEF Swallowed, HeaderLen
      <4> QED
        BY <1>4, <3>1, <4>2
    <3>2. CASE Taken + 1 # starts[n].at
      BY <2>1, <3>2, StillAwaited
    <3> QED
      BY <3>1, <3>2
  <2>2. CASE Arrived(n)
    BY <1>3, <2>2, StillArrived
  <2>3. ~InFrame(n)
    BY DEF InFrame
  <2> QED
    BY <1>5, <2>1, <2>2, <2>3 DEF Kept
<1>6. proctol_start' => OutOfStep' \/ \E m \in 1 .. Len(starts) : InFrame(m)'
  <2>1. CASE SkipByte
    BY <2>1 DEF SkipByte, parser
  <2>2. CASE HeaderByte
    <3>1. recv_len' = 1 /\ recv_len = 0
      BY <2>2 DEF HeaderByte, HeaderLen, Types, BufferInv, WithinBuffer
    <3>2. CASE Taken + 1 <= fault
      BY <1>1, <3>1, <3>2 DEF OutOfStep
    <3>3. CASE Taken + 1 > fault
      <4>1. line[1].frame # 0 /\ line[1].pos = Taken + 1
        <5>1. line[1].frame # 0
          BY <1>1, <3>3, FirstItem DEF Stream
        <5> QED
          BY <1>1, <5>1, FirstItem DEF Stream
      <4>2. PICK m \in 1 .. Len(starts) : m = line[1].frame
        <5>1. line[1].frame \in 0 .. Len(starts) /\ Len(starts) \in Nat
          BY <1>1, Basics DEF Stream, Frames
        <5> QED
          BY <4>1, <5>1
      <4>3. PICK f \in PeerFrames : IsFrame(m, f)
        BY DEF Stream, Frames
      <4>4. /\ line[1].pos \in starts[m].at .. starts[m].at + Len(f) - 1
            /\ line[1].byte = f[line[1].pos - starts[m].at + 1]
        BY <1>1, <4>2, <4>3 DEF IsFrame, Fragment
      <4>5. starts[m].at \in Nat /\ Len(f) \in Nat
        <5>1. starts[m].at \in Nat
          BY <1>1, <4>2, Basics
        <5>2. Len(f) \in Nat
          BY <4>3, SizesAssumption
        <5> QED
          BY <5>1, <5>2
      <4>6. f[line[1].pos - starts[m].at + 1] = HeadByte
        BY <1>1, <2>2, <4>4 DEF HeaderByte
      <4>7. \A i \in 2 .. Len(f) : f[i] # HeadByte
        BY <4>3 DEF NoHeads, IsFrame, FrameAt
      <4>8. line[1].pos - starts[m].at + 1 \in 1 .. Len(f)
        BY <1>1, <4>1, <4>4, <4>5
      <4>9. line[1].pos - starts[m].at + 1 = 1
        BY <4>5, <4>6, <4>7, <4>8
      <4>10. Taken + 1 = starts[m].at
        BY <1>1, <4>1, <4>5, <4>9
      <4>11. InFrame(m)'
        BY <1>4, <3>3, <4>10
      <4> QED
        BY <4>11
    <3> QED
      BY <1>1, <3>2, <3>3
  <2> QED
    BY <1>2, <2>1, <2>2
<1> QED
  BY <1>1, <1>5, <1>6 DEF Again, Kept, Swallowed

\* Behind a fault no byte makes the parser miss a frame that starts late enough.
LEMMA AgainReceive ==
    ASSUME Types, Stream, FramesValid, Again, Receive
    PROVE  Again'
<1>1. Takes
  BY ReceiveTakes
<1>2. SUFFICES ASSUME faults > 0, NoHeads PROVE Again'
  BY <1>1 DEF Again, Takes, history, NoHeads
<1>3. /\ proctol_start => OutOfStep \/ \E m \in 1 .. Len(starts) : InFrame(m)
      /\ \A n \in 1 .. Len(starts) : Kept(n)
  BY <1>2 DEF Again
<1>4. CASE ~proctol_start
  BY <1>1, <1>2, <1>3, <1>4, AgainBetween
<1>5. CASE proctol_start
  <2>1. HeaderByte \/ BodyByte
    BY <1>5 DEF Receive, SkipByte
  <2>2. ASSUME NEW m \in 1 .. Len(starts), InFrame(m) PROVE Again'
    BY <1>1, <1>3, <2>1, <2>2, AgainInFrame
  <2>3. CASE OutOfStep /\ \A m \in 1 .. Len(starts) : ~InFrame(m)
    BY <1>1, <1>3, <1>5, <2>1, <2>3, AgainOutOfStep
  <2> QED
    BY <1>3, <1>5, <2>2, <2>3
<1> QED
  BY <1>4, <1>5

\* After a fault the parser gets in step again, and a new fault begins the count anew.
LEMMA AgainNext == Types /\ Stream /\ FramesValid /\ Again /\ [Next]_vars => Again'
<1> SUFFICES ASSUME Types, Stream, FramesValid, Again, [Next]_vars PROVE Again'
  OBVIOUS
<1>1. ASSUME NEW f \in PeerFrames, PeerSends(f) PROVE Again'
  BY <1>1, AgainSend
<1>2. Types'
  BY TypesNext
<1>3. fault' \in Nat /\ Taken' \in Int
  BY <1>2 DEF Types, TypeOK, Taken
<1>4. CASE LoseByte
  BY <1>3, <1>4, AgainFault, LoseLine DEF LoseByte, Stream
<1>5. ASSUME NEW b \in Byte, AddByte(b) PROVE Again'
  BY <1>3, <1>5, AgainFault, AddLine DEF AddByte, Stream
<1>6. CASE Receive
  BY <1>6, AgainReceive
<1>7. CASE UNCHANGED vars
  BY <1>7 DEF vars, parser, history, Again, NoHeads, OutOfStep, Kept, Awaited, Arrived, InFrame,
              Taken, Swallowed
<1> QED
  BY <1>1, <1>4, <1>5, <1>6, <1>7 DEF Next

-----------------------------------------------------------------------------
(* The theorems.                                                             *)

FrameInv == Types /\ Stream /\ Clean /\ Again

\* The invariant holds always, for frames that procotol_check accepts.
LEMMA FrameInvHolds ==
    ASSUME FramesValid
    PROVE  Spec => []FrameInv
<1>1. Init => FrameInv
  <2>1. Init => Again
    BY DEF Init, Again
  <2> QED
    BY <2>1, TypesInit, StreamInit, CleanInit DEF FrameInv
<1>2. FrameInv /\ [Next]_vars => FrameInv'
  BY TypesNext, StreamNext, CleanNext, AgainNext DEF FrameInv
<1> QED
  BY <1>1, <1>2, PTL DEF Spec

\* When the peer sends only frames that procotol_check accepts and the line neither
\* loses nor adds a byte, uart_get_data hands over all that was received, each frame
\* once, in order and nothing else, even if the frames are full of head bytes.
THEOREM CleanLineHolds ==
    ASSUME FramesValid
    PROVE  Spec => []CleanLine
<1>1. FrameInv => CleanLine
  <2>1. SUFFICES ASSUME FrameInv, faults = 0
                 PROVE  LET received == {n \in DOMAIN starts :
                                            \A i \in DOMAIN line : line[i].frame > n}
                        IN  /\ DOMAIN handled = received
                            /\ \A n \in received : FrameOf(handled[n]) = n
    BY DEF CleanLine
  <2>2. /\ Types /\ Stream /\ DOMAIN starts = 1 .. Len(starts) /\ DOMAIN line = 1 .. Len(line)
        /\ DOMAIN handled = 1 .. Len(handled) /\ Len(handled) \in Nat /\ Len(starts) \in Nat
        /\ Len(line) \in Nat
    BY <2>1, Basics DEF FrameInv
  <2>3. /\ Len(handled) <= Len(starts)
        /\ \A n \in 1 .. Len(handled) : FrameOf(handled[n]) = n
        /\ \A i \in 1 .. Len(line) : line[i].frame > Len(handled)
        /\ proctol_start => InFrame(Len(handled) + 1)
        /\ ~proctol_start => Taken + 1 = NextStart
    BY <2>1 DEF FrameInv, Clean
  <2>4. ASSUME NEW n \in 1 .. Len(handled)
        PROVE  n \in 1 .. Len(starts) /\ \A i \in 1 .. Len(line) : line[i].frame > n
    <3>1. \A i \in 1 .. Len(line) : line[i].frame \in Nat
      BY <2>2, Basics, ItemFields
    <3> QED
      BY <2>2, <2>3, <2>4, <3>1
  \* The next frame has a byte on the line.
  <2>5. ASSUME Len(handled) < Len(starts)
        PROVE  1 \in 1 .. Len(line) /\ line[1].frame = Len(handled) + 1
    <3>1. PICK m \in 1 .. Len(starts) : m = Len(handled) + 1
      BY <2>2, <2>5
    <3>2. PICK f \in PeerFrames : IsFrame(m, f)
      BY <2>2 DEF Stream, Frames
    <3>3. /\ Len(f) \in Nat /\ Len(f) >= 1 /\ starts[m].at \in Nat /\ Taken \in Int /\ sent \in Nat
          /\ ValidFrame(f)
      <4>1. ValidFrame(f) /\ Len(f) \in Nat
        BY SizesAssumption DEF FramesValid
      <4> QED
        BY <2>2, <4>1, Basics DEF ValidFrame, HeaderLen
    <3>4. /\ Taken + 1 >= starts[m].at /\ Taken + 1 < starts[m].at + Len(f)
          /\ starts[m].at > fault
      <4>1. CASE proctol_start
        <5>1. InFrame(m)
          BY <2>3, <3>1, <4>1
        <5>2. recv_len < Len(f) /\ recv_len > 0 /\ recv_len \in Nat
          BY <2>2, <3>2, <3>3, <5>1, FramePrefix, Basics
        <5>3. Taken = starts[m].at + recv_len - 1 /\ starts[m].at > fault
          BY <5>1 DEF InFrame
        <5> QED
          BY <3>3, <5>2, <5>3
      <4>2. CASE ~proctol_start
        <5>1. Taken + 1 = starts[m].at
          <6>1. Taken + 1 = NextStart
            BY <2>3, <4>2
          <6>2. Len(handled) # Len(starts)
            <7>1. Len(handled) \in Nat /\ Len(starts) \in Nat
              BY <2>2, Zenon
            <7> QED
              BY ONLY <2>5, <7>1
          <6>3. NextStart = starts[Len(handled) + 1].at
            BY ONLY <6>2 DEF NextStart
          <6> QED
            BY ONLY <3>1, <6>1, <6>3
        <5>2. fault = 0 /\ starts[m].at > 0
          BY <2>1, <2>2, <3>2 DEF Stream, Line, IsFrame, FrameAt
        <5> QED
          BY <3>3, <5>1, <5>2
      <4> QED
        BY <4>1, <4>2
    <3>5. Taken < sent
      <4>1. starts[m].at + Len(f) <= sent + 1
        BY <3>2 DEF IsFrame, FrameAt
      <4> QED
        BY <3>3, <3>4, <4>1
    <3>6. line # <<>> /\ 1 \in 1 .. Len(line)
      BY <2>2, <3>3, <3>5 DEF Taken
    <3>7. Head(line).frame = m /\ Head(line) = line[1]
      BY <2>2, <3>2, <3>4, <3>6, NextItem, Basics
    <3> QED
      BY <3>1, <3>6, <3>7
  <2>6. ASSUME NEW n \in 1 .. Len(starts), \A i \in 1 .. Len(line) : line[i].frame > n
        PROVE  n \in 1 .. Len(handled)
    <3>1. CASE Len(handled) < Len(starts)
      <4>1. line[1].frame > n
        BY <2>5, <2>6, <3>1
      <4>2. Len(handled) + 1 > n
        BY <2>5, <3>1, <4>1
      <4>3. Len(handled) \in Nat /\ n \in Nat /\ n >= 1
        BY <2>2, <2>6
      <4> QED
        BY ONLY <4>2, <4>3
    <3>2. CASE Len(handled) = Len(starts)
      BY <2>6, <3>2
    <3>3. Len(handled) \in Nat /\ Len(starts) \in Nat
      BY <2>2, Zenon
    <3>4. Len(handled) < Len(starts) \/ Len(handled) = Len(starts)
      BY ONLY <2>3, <3>3
    <3> QED
      BY <3>1, <3>2, <3>4, Zenon
  <2> QED
    BY <2>2, <2>3, <2>4, <2>6
<1> QED
  BY <1>1, FrameInvHolds, PTL

\* After a fault no frame is lost that starts more than a longest frame behind it,
\* as long as no frame has the head byte inside.
THEOREM InStepAgainHolds ==
    ASSUME FramesValid
    PROVE  Spec => []InStepAgain
<1>1. CleanLine /\ FrameInv => InStepAgain
  <2>1. SUFFICES ASSUME CleanLine, FrameInv, line = <<>>, ~proctol_start,
                        \A n \in DOMAIN starts : ~starts[n].heads,
                        NEW n \in DOMAIN starts, faults = 0 \/ starts[n].at > fault + Swallowed
                 PROVE  \E i \in DOMAIN handled : FrameOf(handled[i]) = n
    BY DEF InStepAgain
  <2>2. /\ Types /\ Stream /\ Again /\ n \in 1 .. Len(starts) /\ NoHeads
        /\ DOMAIN handled = 1 .. Len(handled) /\ faults \in Nat /\ Len(line) = 0
        /\ sent \in Nat
    BY <2>1, Basics DEF FrameInv, NoHeads
  <2>3. CASE faults = 0
    BY <2>1, <2>2, <2>3 DEF CleanLine
  <2>4. CASE faults > 0
    <3>1. Awaited(n) \/ InFrame(n) \/ Arrived(n)
      BY <2>1, <2>2, <2>4 DEF Again, Kept
    <3>2. ~InFrame(n)
      BY <2>1 DEF InFrame
    <3>3. ~Awaited(n)
      <4>1. PICK f \in PeerFrames : IsFrame(n, f)
        BY <2>2 DEF Stream, Frames
      <4>2. Len(f) \in Nat /\ Len(f) >= 1 /\ starts[n].at \in Nat
        <5>1. Len(f) \in Nat /\ Len(f) >= HeaderLen + 1
          BY SizesAssumption DEF FramesValid, ValidFrame
        <5> QED
          BY <2>2, <5>1, Basics DEF HeaderLen
      <4>3. starts[n].at + Len(f) <= sent + 1
        BY <4>1 DEF IsFrame, FrameAt
      <4> QED
        BY <2>2, <4>2, <4>3 DEF Awaited, Taken
    <3> QED
      BY <2>2, <3>1, <3>2, <3>3 DEF Arrived
  <2> QED
    BY <2>2, <2>3, <2>4
<1>2. Spec => []CleanLine
  BY CleanLineHolds
<1> QED
  BY <1>1, <1>2, FrameInvHolds, PTL
=============================================================================
