--------------------------- MODULE UartSendProofs ---------------------------
(***************************************************************************)
(* Theorems about UartSend, for every number of buffers, threads, sequence *)
(* numbers and every timing constant.                                      *)
(*  - The types, whatever the timing.                                      *)
(*  - Under the timing assumptions, with a clean poll field in new         *)
(*    buffers: every buffer is in one place at a time and uart_poll_tsk    *)
(*    never blocks, from the inductive invariant Discipline /\ TypeOK.     *)
(*  - Then also, as long as the peer gives no upload the number of a       *)
(*    notification that waits for its answer (the finding                  *)
(*    FlagMeansAnswered is about one that does): what the poll fields say  *)
(*    of a notification is true, and UartSend implements Delivery, from    *)
(*    the inductive invariant Record.                                      *)
(***************************************************************************)
EXTENDS UartDelivery, QueueLemmas, FiniteSetTheorems, TLAPS

-----------------------------------------------------------------------------
(* Type correctness.                                                         *)

\* The fields of a poll record are natural numbers.
LEMMA FieldsNat ==
    ASSUME NEW p \in PollFields
    PROVE  p.delay \in Nat /\ p.times \in Nat /\ p.type \in Nat /\ p.free_flag \in Nat
  BY DEF PollFields

\* Assigning a natural number to a field of a poll record.
LEMMA FieldUpdate ==
    ASSUME NEW p \in PollFields, NEW n \in Nat, NEW m \in Nat
    PROVE  /\ [p EXCEPT !.type = n] \in PollFields
           /\ [p EXCEPT !.times = n] \in PollFields
           /\ [p EXCEPT !.delay = n] \in PollFields
           /\ [p EXCEPT !.free_flag = n] \in PollFields
           /\ [p EXCEPT !.delay = m, !.times = n] \in PollFields
           /\ ZeroPoll \in PollFields
  BY DEF PollFields, ZeroPoll

\* All buffers are in the pool.
LEMMA InitType == Init => TypeOK
<1> SUFFICES ASSUME Init PROVE TypeOK
  OBVIOUS
<1>1. free \in Seq(Buf)
  BY BoundsAssumption DEF Init, Buf
<1>2. poll \in [Buf -> PollFields]
  BY DataAssumption DEF Init
<1> QED
  BY <1>1, <1>2 DEF Init, TypeOK, Frames

\* Every step keeps the types, whatever the constants are.
LEMMA NextType == TypeOK /\ [Next]_vars => TypeOK'
<1> SUFFICES ASSUME TypeOK, [Next]_vars PROVE TypeOK'
  OBVIOUS
<1> USE DEF TypeOK
<1> USE DEF pollVars, sendVars, recvVars, history
<1>1. ASSUME NEW t \in Threads, BufFactoryCrash(t) PROVE TypeOK'
  BY <1>1 DEF BufFactoryCrash
<1>2. ASSUME NEW t \in Threads, NEW f \in Frames, NEW type \in {0, 1}, Produce(t, f, type)
      PROVE  /\ free' \in Seq(Buf) /\ held' \in [Threads -> Buf \cup {NoBuf}]
             /\ frame' \in [Buf -> Frames] /\ poll' \in [Buf -> PollFields]
             /\ posts' \in [Buf -> Nat] /\ answered' \in [Buf -> BOOLEAN]
             /\ heard' \subseteq Buf
  <2> DEFINE b == Head(free)
  <2>1. b \in Buf /\ free' \in Seq(Buf)
    BY <1>2 DEF Produce
  <2>2. poll' \in [Buf -> PollFields]
    <3>1. [poll[b] EXCEPT !.type = type] \in PollFields
      BY <2>1, FieldUpdate
    <3>2. poll' = [poll EXCEPT ![b] = [poll[b] EXCEPT !.type = type]]
      BY <1>2 DEF Produce
    <3> QED BY <2>1, <3>1, <3>2
  <2> QED BY <2>1, <2>2, <1>2 DEF Produce
<1>3. ASSUME NEW t \in Threads, NEW type \in {0, 1}, DisposeFill(t, type) PROVE TypeOK'
  <2>1. [kind |-> IF type = 1 THEN "ntf" ELSE "reply", sn |-> uart_send_sn] \in Frames
    BY DEF Frames
  <2>2. uart_send_sn' \in Nat
    <3>1. SnMod \in Nat \ {0}
      BY BoundsAssumption
    <3> QED BY <1>3, <3>1 DEF DisposeFill
  <2> QED BY <1>2, <1>3, <2>1, <2>2 DEF DisposeFill
<1>4. ASSUME NEW t \in Threads, Link(t) PROVE TypeOK'
  <2>1. sendList' \in Seq(Buf)
    <3>1. held[t] \in Buf
      BY <1>4 DEF Link
    <3>2. Append(sendList, held[t]) \in Seq(Buf)
      BY <3>1
    <3> QED BY <1>4, <3>2 DEF Link
  <2> QED BY <1>4, <2>1 DEF Link, Unlocked
<1>5. ASSUME NEW sn \in PeerSn, RecvCommand(sn) PROVE TypeOK'
  <2>1. [kind |-> "reply", sn |-> sn] \in Frames /\ Recv \in Threads
    BY DataAssumption DEF Frames, Threads
  <2> QED BY <1>2, <1>5, <2>1 DEF RecvCommand
<1>6. ASSUME NEW sn, NEW own, Mark(sn, own)
      PROVE  poll' \in [Buf -> PollFields] /\ answered' \in [Buf -> BOOLEAN]
  <2>1. CASE UNCHANGED <<poll, answered>>
    BY <2>1
  <2>2. ASSUME NEW i \in DOMAIN sendList,
               poll' = [poll EXCEPT ![sendList[i]].free_flag = 1],
               answered' = [answered EXCEPT ![sendList[i]] = @ \/ sendList[i] = own]
        PROVE  poll' \in [Buf -> PollFields] /\ answered' \in [Buf -> BOOLEAN]
    <3>1. sendList[i] \in Buf
      OBVIOUS
    <3>2. poll' \in [Buf -> PollFields]
      <4>1. [poll[sendList[i]] EXCEPT !.free_flag = 1] \in PollFields
        BY <3>1, FieldUpdate
      <4>2. poll' = [poll EXCEPT ![sendList[i]] = [poll[sendList[i]] EXCEPT !.free_flag = 1]]
        BY <2>2
      <4> QED BY <3>1, <4>1, <4>2
    <3>3. (answered[sendList[i]] \/ sendList[i] = own) \in BOOLEAN
      OBVIOUS
    <3> QED BY <2>2, <3>1, <3>2, <3>3
  <2> QED BY <1>6, <2>1, <2>2 DEF Mark
<1>7. ASSUME NEW b \in Buf, RecvResponse(b) PROVE TypeOK'
  BY <1>6, <1>7 DEF RecvResponse
<1>8. ASSUME NEW sn \in UploadSn, RecvUpload(sn) PROVE TypeOK'
  BY <1>8, DataAssumption DEF RecvUpload
<1>9. CASE RecvUploadMark
  BY <1>6, <1>9 DEF RecvUploadMark
<1>10. CASE PollTask
  <2>1. ASSUME cursor \in DOMAIN sendList
        PROVE  sendList[cursor] \in Buf /\ RemoveAt(sendList, cursor) \in Seq(Buf)
    BY <2>1, RemoveAtSet
  <2>2. ASSUME NEW type, Visiting(type) PROVE cursor \in DOMAIN sendList
    BY <2>2 DEF Visiting
  <2>3. ASSUME NEW b \in Buf, Post(b)
        PROVE  /\ mbx' \in Seq(Buf) /\ posts' \in [Buf -> Nat]
               /\ answered' \in [Buf -> BOOLEAN] /\ heard' \subseteq Buf
    BY <2>3 DEF Post
  <2>4. ASSUME NEW b \in Buf, Recycle(b)
        PROVE  free' \in Seq(Buf) /\ status' \in {"running", "exit", "corrupt"}
    <3>1. Append(free, b) \in Seq(Buf)
      OBVIOUS
    <3> QED BY <2>4, <3>1 DEF Recycle
  <2>5. ASSUME cursor \in DOMAIN sendList, Release(sendList[cursor])
        PROVE  /\ free' \in Seq(Buf) /\ status' \in {"running", "exit", "corrupt"}
               /\ sendList' \in Seq(Buf) /\ poll' \in [Buf -> PollFields]
    BY <2>1, <2>4, <2>5 DEF Release, PollFields, ZeroPoll
  <2>6. CASE PollBegin
    BY <2>6 DEF PollBegin
  <2>7. CASE PollEnd
    BY <2>7 DEF PollEnd
  <2>8. CASE PollReply
    <3>1. poll' \in [Buf -> PollFields]
      BY <2>1, <2>2, <2>8 DEF PollReply, PollFields
    <3> QED BY <2>2, <2>8, <3>1 DEF PollReply
  <2>9. CASE PollPostUnlink
    <3>1. cursor \in DOMAIN sendList
      BY <2>9 DEF PollPostUnlink
    <3> QED BY <2>1, <2>3, <2>9, <3>1 DEF PollPostUnlink
  <2>10. CASE PollFirst
    BY <2>1, <2>2, <2>3, <2>10 DEF PollFirst
  <2>11. CASE PollCount
    <3>1. cursor \in DOMAIN sendList
      BY <2>11 DEF PollCount
    <3>2. poll' \in [Buf -> PollFields]
      <4> DEFINE b == sendList[cursor]
      <4>1. [poll[b] EXCEPT !.times = @ + 1] \in PollFields
        <5>1. poll[b] \in PollFields
          BY <2>1, <3>1
        <5>2. poll[b].times + 1 \in Nat
          BY <5>1, FieldsNat
        <5> QED BY <5>1, <5>2, FieldUpdate
      <4>2. poll' = [poll EXCEPT ![b] = [poll[b] EXCEPT !.times = @ + 1]]
        BY <2>11 DEF PollCount
      <4> QED BY <2>1, <3>1, <4>1, <4>2
    <3> QED BY <2>11, <3>2 DEF PollCount
  <2>12. CASE PollAnswered
    BY <2>2, <2>5, <2>12 DEF PollAnswered, Visiting
  <2>13. CASE PollWait
    <3>1. cursor \in DOMAIN sendList
      BY <2>2, <2>13 DEF PollWait, Waiting
    <3>2. PollStep \in Nat
      BY BoundsAssumption
    <3> DEFINE b == sendList[cursor]
    <3>3. [poll[b] EXCEPT !.delay = @ + PollStep] \in PollFields
      <4>1. poll[b] \in PollFields
        BY <2>1, <3>1
      <4>2. poll[b].delay + PollStep \in Nat
        <5>1. poll[b].delay \in Nat
          BY ONLY <4>1, FieldsNat, Zenon
        <5> QED BY ONLY <3>2, <5>1
      <4> QED BY <4>1, <4>2, FieldUpdate
    <3>4. poll' = [poll EXCEPT ![b] = [poll[b] EXCEPT !.delay = @ + PollStep]]
      BY <2>13 DEF PollWait
    <3>5. poll' \in [Buf -> PollFields]
      BY <2>1, <3>1, <3>3, <3>4
    <3>6. cursor' \in Nat \ {0} /\ pollPc' = pollPc /\ pollPc = "visit"
      BY <2>13 DEF PollWait, Waiting, Visiting
    <3> QED BY <2>13, <3>5, <3>6 DEF PollWait
  <2>14. CASE PollTimeout
    <3>1. cursor \in DOMAIN sendList
      BY <2>2, <2>14 DEF PollTimeout, Waiting
    <3> DEFINE b == sendList[cursor]
    <3>2. [poll[b] EXCEPT !.delay = 0, !.times = @ + 1] \in PollFields
      <4>1. poll[b] \in PollFields
        BY <2>1, <3>1
      <4>2. poll[b].times + 1 \in Nat
        <5>1. poll[b].times \in Nat
          BY ONLY <4>1, FieldsNat, Zenon
        <5> QED BY ONLY <5>1
      <4> QED BY <4>1, <4>2, FieldUpdate
    <3>3. poll' = [poll EXCEPT ![b] = [poll[b] EXCEPT !.delay = 0, !.times = @ + 1]]
      BY <2>14 DEF PollTimeout
    <3>4. poll' \in [Buf -> PollFields]
      BY <2>1, <3>1, <3>2, <3>3
    <3>5. cursor' = cursor /\ pollPc' = "post"
      BY <2>14 DEF PollTimeout
    <3> QED BY <2>14, <3>1, <3>4, <3>5 DEF PollTimeout
  <2>15. CASE PollPost
    <3>1. cursor \in DOMAIN sendList
      BY <2>15 DEF PollPost
    <3> QED BY <2>1, <2>3, <2>15, <3>1 DEF PollPost
  <2>16. CASE PollGiveUp
    BY <2>2, <2>5, <2>16 DEF PollGiveUp, Waiting, Visiting
  <2> QED
    BY <1>10, <2>6, <2>7, <2>8, <2>9, <2>10, <2>11, <2>12, <2>13, <2>14, <2>15, <2>16
    DEF PollTask
<1>11. CASE SendPend
  BY <1>11, TailSet DEF SendPend
<1>12. CASE SendWrite
  BY <1>12 DEF SendWrite
<1>13. CASE SendCheck
  <2>1. sendBuf \in Buf
    BY <1>13 DEF SendCheck
  <2>2. poll' \in [Buf -> PollFields]
    BY <1>13, <2>1, FieldUpdate DEF SendCheck
  <2>3. free' \in Seq(Buf) /\ status' \in {"running", "exit", "corrupt"}
    <3>1. Append(free, sendBuf) \in Seq(Buf)
      BY <2>1
    <3> QED BY <1>13, <3>1 DEF SendCheck, Recycle
  <2> QED BY <1>13, <2>2, <2>3 DEF SendCheck
<1>14. CASE UNCHANGED vars
  BY <1>14 DEF vars
<1> QED
  BY <1>1, <1>3, <1>4, <1>5, <1>7, <1>8, <1>9, <1>10, <1>11, <1>12, <1>13, <1>14
  DEF Next, SendTask, Halted

\* Type correctness holds of every behaviour, whatever the timing.
THEOREM TypeCorrect == Spec => []TypeOK
  BY InitType, NextType, PTL DEF Spec

-----------------------------------------------------------------------------
(* Ownership.                                                                *)

\* Nothing that the rules of buffer c speak of changes in this step.
Same(c) ==
    /\ c \in ToSet(free') <=> c \in ToSet(free)
    /\ c \in ToSet(sendList') <=> c \in ToSet(sendList)
    /\ (c \in ToSet(mbx') \/ c = sendBuf') <=> (c \in ToSet(mbx) \/ c = sendBuf)
    /\ (\E t \in Threads : held'[t] = c) <=> (\E t \in Threads : held[t] = c)
    /\ poll'[c] = poll[c]
    /\ pollPc = "count" /\ c = sendList[cursor] => pollPc' = "count" /\ c = sendList'[cursor']

\* A buffer that a step does not touch keeps its rules.
LEMMA SameRules ==
    ASSUME NEW c \in Buf, BufferRules(c), Same(c)
    PROVE  BufferRules(c)'
  BY DEF Same, BufferRules, IdleClean, NotFreeAndHeld, TypeSet, PostedReply,
         LinkedReply, LinkedNtf, InFlight, IsHeld, Linked

\* Buffers start in the pool.
LEMMA InitDiscipline == CleanPoll /\ Init => Discipline
<1> SUFFICES ASSUME CleanPoll, Init PROVE Discipline
  OBVIOUS
<1>1. ToSet(sendList) = {} /\ ToSet(mbx) = {} /\ ToSet(free) = Buf
  BY DEF Init, ToSet
<1>2. IsInjective(free) /\ IsInjective(sendList) /\ IsInjective(mbx)
  BY DEF Init, IsInjective
<1>3. Queues
  BY <1>1, <1>2 DEF Queues, Init
<1>4. \A t \in Threads : held[t] = NoBuf
  BY DEF Init
<1>5. HeldOnce /\ AtCursor
  BY <1>4 DEF Init, HeldOnce, AtCursor
<1>6. ASSUME NEW b \in Buf PROVE BufferRules(b)
  <2>1. poll[b] \in FreshPoll
    BY DEF Init
  <2>2. poll[b].times = 0 /\ poll[b].free_flag = 0
    BY <2>1 DEF CleanPoll
  <2>3. b # NoBuf /\ ~IsHeld(b) /\ ~InFlight(b)
    BY <1>1, <1>4, BoundsAssumption DEF Buf, NoBuf, IsHeld, InFlight, Init
  <2> QED
    BY <1>1, <2>2, <2>3
    DEF BufferRules, IdleClean, NotFreeAndHeld, TypeSet, PostedReply,
        LinkedReply, LinkedNtf, Linked
<1> QED BY <1>3, <1>5, <1>6 DEF Discipline

-----------------------------------------------------------------------------
(* One lemma for each way a step moves buffers.                              *)

\* Steps that only change where a thread is.
LEMMA IdleStep ==
    ASSUME Discipline, TypeOK,
           UNCHANGED <<free, poll, sendList, mbx, sendBuf, held>>,
           status' # "corrupt",
           \/ UNCHANGED pollVars
           \/ pollPc \in {"sleep", "visit"} /\ pollPc' \in {"sleep", "visit"}
    PROVE  Discipline'
<1>1. Queues' /\ HeldOnce'
  BY DEF Discipline, Queues, HeldOnce
<1>2. AtCursor'
  BY DEF Discipline, AtCursor, pollVars, InFlight
<1>3. ASSUME NEW c \in Buf PROVE BufferRules(c)'
  <2>1. Same(c)
    BY DEF Same, pollVars
  <2> QED BY <2>1, SameRules DEF Discipline
<1> QED BY <1>1, <1>2, <1>3 DEF Discipline

\* A thread takes the first free buffer.
LEMMA ProduceStep ==
    ASSUME Discipline, TypeOK, NEW t \in Threads, NEW f, NEW type \in {0, 1},
           held[t] = NoBuf, Produce(t, f, type),
           UNCHANGED <<status, sendList, mbx, pollVars, sendVars>>
    PROVE  Discipline'
<1> DEFINE b == Head(free)
<1>1. /\ b \in Buf /\ b \in ToSet(free) /\ IsInjective(free')
      /\ ToSet(free') = ToSet(free) \ {b}
  BY TailSet DEF Produce, Discipline, Queues, TypeOK
<1>2. \A c \in Buf : c # b => poll'[c] = poll[c]
  BY DEF Produce, TypeOK
<1>3. poll'[b] = [poll[b] EXCEPT !.type = type] /\ poll[b] \in PollFields
  BY <1>1 DEF Produce, TypeOK
<1>4. poll'[b].type = type /\ poll'[b].times = poll[b].times /\ poll'[b].free_flag = poll[b].free_flag
  BY <1>3 DEF PollFields
<1>5. held'[t] = b /\ \A u \in Threads : u # t => held'[u] = held[u]
  BY DEF Produce, TypeOK
<1>6. b # NoBuf
  BY <1>1 DEF Buf, NoBuf
<1>7. /\ ~IsHeld(b) /\ b \notin Linked /\ ~InFlight(b)
      /\ poll[b].times = 0 /\ poll[b].free_flag = 0
  BY <1>1 DEF Discipline, BufferRules, IdleClean, NotFreeAndHeld
<1> HIDE DEF b
<1>8. Queues'
  BY <1>1 DEF Discipline, Queues, sendVars
<1>9. HeldOnce'
  BY <1>5, <1>6, <1>7 DEF Discipline, HeldOnce, IsHeld
<1>10. AtCursor'
  <2>1. ASSUME pollPc \in {"post_unlink", "count", "post"}
        PROVE  sendList[cursor] \in Buf /\ sendList[cursor] # b
    <3>1. cursor \in 1 .. Len(sendList) /\ sendList \in Seq(Buf)
      BY <2>1 DEF TypeOK
    <3>2. sendList[cursor] \in Linked
      BY <3>1, ToSetElements DEF Linked
    <3> QED BY <3>1, <3>2, <1>7
  <2> QED BY <2>1, <1>2 DEF Discipline, AtCursor, pollVars, sendVars, InFlight
<1>11. ASSUME NEW c \in Buf PROVE BufferRules(c)'
  <2>1. CASE c # b
    <3>1. Same(c)
      BY <1>1, <1>2, <1>5, <1>6, <2>1 DEF Same, pollVars, sendVars, Buf, NoBuf
    <3> QED BY <3>1, SameRules DEF Discipline
  <2>2. CASE c = b
    BY <1>1, <1>4, <1>5, <1>7, <2>2
    DEF BufferRules, IdleClean, NotFreeAndHeld, TypeSet, PostedReply,
        LinkedReply, LinkedNtf, InFlight, IsHeld, Linked, sendVars
  <2> QED BY <2>1, <2>2
<1> QED BY <1>8, <1>9, <1>10, <1>11 DEF Discipline

\* A thread links the buffer it has filled.
LEMMA LinkStep ==
    ASSUME Discipline, TypeOK, NEW t \in Threads, Link(t)
    PROVE  Discipline'
<1> PICK b \in Buf : b = held[t]
  BY DEF Link, TypeOK
<1>1. b # NoBuf /\ IsHeld(b)
  BY DEF Buf, NoBuf, IsHeld
<1>2. /\ b \notin ToSet(free) /\ b \notin Linked /\ ~InFlight(b)
      /\ poll[b].times = 0 /\ poll[b].free_flag = 0 /\ poll[b].type \in {0, 1}
  BY <1>1 DEF Discipline, BufferRules, IdleClean, NotFreeAndHeld, TypeSet
<1>3. /\ status' = status /\ IsInjective(sendList')
      /\ ToSet(sendList') = ToSet(sendList) \cup {b}
  <2>1. sendList \in Seq(Buf) /\ b \notin ToSet(sendList) /\ IsInjective(sendList)
    BY <1>2 DEF TypeOK, Linked, Discipline, Queues
  <2>2. status' = status /\ sendList' = Append(sendList, b)
    BY <1>2 DEF Link
  <2> QED BY <2>1, <2>2, AppendSet
<1>4. held'[t] = NoBuf /\ \A u \in Threads : u # t => held'[u] = held[u]
  BY DEF Link, TypeOK
<1>5. UNCHANGED <<free, poll, mbx, pollPc, cursor, sendBuf>> /\ pollPc = "sleep"
  BY DEF Link, pollVars, sendVars, Unlocked
<1>6. \A u \in Threads : held[u] = b => u = t
  BY <1>1 DEF Discipline, HeldOnce
<1>7. Queues'
  BY <1>3, <1>5 DEF Discipline, Queues
<1>8. HeldOnce'
  BY <1>4 DEF Discipline, HeldOnce
<1>9. AtCursor'
  BY <1>5 DEF AtCursor
<1>10. ~IsHeld(b)'
  BY <1>1, <1>4, <1>6 DEF IsHeld
<1>11. ASSUME NEW c \in Buf PROVE BufferRules(c)'
  <2>1. CASE c # b
    <3>1. c # NoBuf
      BY DEF Buf, NoBuf
    <3>2. Same(c)
      BY <1>3, <1>4, <1>5, <2>1, <3>1 DEF Same
    <3> QED BY <3>2, SameRules DEF Discipline
  <2>2. CASE c = b
    BY <1>2, <1>3, <1>5, <1>10, <2>2
    DEF BufferRules, IdleClean, NotFreeAndHeld, TypeSet, PostedReply,
        LinkedReply, LinkedNtf, InFlight, Linked, IsHeld
  <2> QED BY <2>1, <2>2
<1> QED BY <1>7, <1>8, <1>9, <1>11 DEF Discipline

\* uart_recv_tsk marks an entry of the list, at a moment TimelyMark allows.
LEMMA MarkStep ==
    ASSUME Discipline, TypeOK, Timely, NEW sn, NEW own, Mark(sn, own),
           UNCHANGED <<status, free, sendList, mbx, pollVars, sendVars, held>>
    PROVE  Discipline'
<1>1. CASE UNCHANGED poll
  BY <1>1, IdleStep DEF Discipline, Queues, sendVars
<1>2. ASSUME NEW i \in DOMAIN sendList, TimelyMark(sendList[i]),
             poll' = [poll EXCEPT ![sendList[i]].free_flag = 1]
      PROVE  Discipline'
  <2> PICK b \in Buf : b = sendList[i]
    BY DEF TypeOK
  <2>1. b \in Linked
    <3>1. sendList \in Seq(Buf) /\ i \in 1 .. Len(sendList)
      BY DEF TypeOK
    <3> QED BY <3>1, ToSetElements DEF Linked
  <2>2. \A c \in Buf : c # b => poll'[c] = poll[c]
    BY <1>2 DEF TypeOK
  <2>3. poll'[b] = [poll[b] EXCEPT !.free_flag = 1] /\ poll[b] \in PollFields
    BY <1>2, <2>1 DEF TypeOK
  <2>4. /\ poll'[b].type = poll[b].type /\ poll'[b].times = poll[b].times
        /\ poll'[b].free_flag = 1
    BY <2>3 DEF PollFields
  <2>5. poll[b].type = 1 => poll[b].times > 0 /\ ~InFlight(b)
    BY <1>2 DEF TimelyMark
  <2>6. b \notin ToSet(free) /\ ~IsHeld(b)
    BY <2>1 DEF Discipline, BufferRules, IdleClean
  <2>7. UNCHANGED <<pollPc, cursor, sendBuf>> /\ pollPc = "sleep"
    BY DEF Mark, Unlocked, pollVars, sendVars
  <2>8. Queues' /\ HeldOnce' /\ AtCursor'
    BY <2>7 DEF Discipline, Queues, HeldOnce, AtCursor, sendVars
  <2>9. ASSUME NEW c \in Buf PROVE BufferRules(c)'
    <3>1. CASE c # b
      <4>1. Same(c)
        BY <2>2, <2>7, <3>1 DEF Same
      <4> QED BY <4>1, SameRules DEF Discipline
    <3>2. CASE c = b
      BY <2>1, <2>4, <2>5, <2>6, <2>7, <3>2
      DEF Discipline, BufferRules, IdleClean, NotFreeAndHeld, TypeSet, PostedReply,
          LinkedReply, LinkedNtf, InFlight, Linked, IsHeld
    <3> QED BY <3>1, <3>2
  <2> QED BY <2>8, <2>9 DEF Discipline
<1> QED BY <1>1, <1>2 DEF Mark

\* What uart_poll_tsk knows of the entry it looks at.
LEMMA AtEntry ==
    ASSUME Discipline, TypeOK, cursor \in DOMAIN sendList
    PROVE  LET b == sendList[cursor] IN
           /\ b \in Buf /\ b # NoBuf /\ b \in Linked /\ poll[b] \in PollFields
           /\ b \notin ToSet(free) /\ ~IsHeld(b) /\ poll[b].type \in {0, 1}
<1> DEFINE b == sendList[cursor]
<1>1. b \in Buf /\ b \in Linked
  <2>1. sendList \in Seq(Buf) /\ cursor \in 1 .. Len(sendList)
    BY DEF TypeOK
  <2> QED BY <2>1, ToSetElements DEF Linked
<1>2. b # NoBuf /\ poll[b] \in PollFields
  BY <1>1 DEF Buf, NoBuf, TypeOK
<1> QED
  BY <1>1, <1>2 DEF Discipline, BufferRules, IdleClean, TypeSet

\* uart_poll_tsk updates the poll field of the entry and posts nothing.
LEMMA UpdateStep ==
    ASSUME Discipline, TypeOK, NEW b \in Buf, b = sendList[cursor],
           \A c \in Buf : c # b => poll'[c] = poll[c],
           UNCHANGED <<status, free, sendList, mbx, sendBuf, held>>,
           BufferRules(b)', AtCursor'
    PROVE  Discipline'
<1>1. Queues' /\ HeldOnce'
  BY DEF Discipline, Queues, HeldOnce
<1>2. ASSUME NEW c \in Buf PROVE BufferRules(c)'
  <2>1. CASE c # b
    <3>1. Same(c)
      BY <2>1 DEF Same
    <3> QED BY <3>1, SameRules DEF Discipline
  <2>2. CASE c = b
    BY <2>2
  <2> QED BY <2>1, <2>2
<1> QED BY <1>1, <1>2 DEF Discipline

\* uart_poll_tsk posts the entry, which is not queued, and leaves it linked.
LEMMA PostStep ==
    ASSUME Discipline, TypeOK, NEW b \in Buf, b = sendList[cursor],
           b \in Linked, ~InFlight(b), mbx' = Append(mbx, b),
           poll[b].type = 1, poll[b].free_flag = 0,
           UNCHANGED <<status, free, poll, sendList, sendBuf, held>>,
           \/ pollPc' = "count" /\ cursor' = cursor
           \/ pollPc' = "visit" /\ poll[b].times > 0
    PROVE  Discipline'
<1>1. ToSet(mbx') = ToSet(mbx) \cup {b} /\ IsInjective(mbx')
  BY AppendSet DEF TypeOK, Discipline, Queues, InFlight
<1>2. Queues' /\ HeldOnce'
  BY <1>1 DEF Discipline, Queues, HeldOnce, InFlight
<1>3. AtCursor'
  BY DEF AtCursor
<1>4. b \notin ToSet(free) /\ ~IsHeld(b)
  BY DEF Discipline, BufferRules, IdleClean
<1>5. ASSUME NEW c \in Buf PROVE BufferRules(c)'
  <2>1. CASE c # b
    <3>1. Same(c)
      BY <1>1, <2>1 DEF Same
    <3> QED BY <3>1, SameRules DEF Discipline
  <2>2. CASE c = b
    BY <2>2, <1>1, <1>4
    DEF BufferRules, IdleClean, NotFreeAndHeld, TypeSet, PostedReply,
        LinkedReply, LinkedNtf, InFlight, Linked, IsHeld
  <2> QED BY <2>1, <2>2
<1> QED BY <1>2, <1>3, <1>5 DEF Discipline

\* uart_poll_tsk posts a reply and unlinks it: its send will recycle it.
LEMMA UnlinkStep ==
    ASSUME Discipline, TypeOK, cursor \in DOMAIN sendList,
           NEW b \in Buf, b = sendList[cursor],
           ~InFlight(b), poll[b].free_flag # 0,
           mbx' = Append(mbx, b), sendList' = RemoveAt(sendList, cursor),
           UNCHANGED <<status, free, poll, sendBuf, held>>, pollPc # "count", pollPc' = "visit"
    PROVE  Discipline'
<1>1. ToSet(mbx') = ToSet(mbx) \cup {b} /\ IsInjective(mbx')
  BY AppendSet DEF TypeOK, Discipline, Queues, InFlight
<1>2. ToSet(sendList') = ToSet(sendList) \ {b} /\ IsInjective(sendList')
  <2>1. sendList \in Seq(Buf) /\ cursor \in 1 .. Len(sendList) /\ IsInjective(sendList)
    BY DEF TypeOK, Discipline, Queues
  <2> QED BY <2>1, RemoveAtSet
<1>3. Queues' /\ HeldOnce'
  BY <1>1, <1>2 DEF Discipline, Queues, HeldOnce, InFlight
<1>4. AtCursor'
  BY DEF AtCursor
<1>5. b \notin ToSet(free) /\ ~IsHeld(b)
  BY AtEntry
<1>6. ASSUME NEW c \in Buf PROVE BufferRules(c)'
  <2>1. CASE c # b
    <3>1. Same(c)
      BY <1>1, <1>2, <2>1 DEF Same
    <3> QED BY <3>1, SameRules DEF Discipline
  <2>2. CASE c = b
    BY <2>2, <1>1, <1>2, <1>5
    DEF BufferRules, IdleClean, NotFreeAndHeld, TypeSet, PostedReply,
        LinkedReply, LinkedNtf, InFlight, Linked, IsHeld
  <2> QED BY <2>1, <2>2
<1> QED BY <1>3, <1>4, <1>6 DEF Discipline

\* A buffer that is in no place but the list, or in none but the send task,
\* is cleared and recycled.
LEMMA ReleaseStep ==
    ASSUME Discipline, TypeOK, NEW b \in Buf, b \notin ToSet(free), ~IsHeld(b),
           poll' = [poll EXCEPT ![b] = ZeroPoll], Recycle(b),
           ToSet(sendList') = ToSet(sendList) \ {b}, IsInjective(sendList'),
           UNCHANGED <<mbx, held>>, b \notin ToSet(mbx), sendBuf' # b,
           sendBuf' = sendBuf \/ (sendBuf = b /\ sendBuf' = NoBuf),
           AtCursor', pollPc = "count" => pollPc' = "count" /\ UNCHANGED <<cursor, sendList>>
    PROVE  Discipline'
<1>1. /\ status' = status /\ IsInjective(free')
      /\ ToSet(free') = ToSet(free) \cup {b}
  <2>1. status' = status /\ free' = Append(free, b)
    BY DEF Recycle
  <2> QED BY <2>1, AppendSet DEF TypeOK, Discipline, Queues
<1>2. \A c \in Buf : c # b => poll'[c] = poll[c]
  BY DEF TypeOK
<1>3. poll'[b].times = 0 /\ poll'[b].free_flag = 0
  BY DEF TypeOK, ZeroPoll
<1>4. ToSet(mbx) \subseteq Buf
  BY ToSetElements DEF TypeOK
<1>5. Queues' /\ HeldOnce'
  BY <1>1, <1>4 DEF Discipline, Queues, HeldOnce, Buf, NoBuf
<1>6. ASSUME NEW c \in Buf PROVE BufferRules(c)'
  <2>1. CASE c # b
    <3>1. Same(c)
      BY <1>1, <1>2, <2>1 DEF Same, Buf, NoBuf
    <3> QED BY <3>1, SameRules DEF Discipline
  <2>2. CASE c = b
    BY <2>2, <1>1, <1>3
    DEF BufferRules, IdleClean, NotFreeAndHeld, TypeSet, PostedReply,
        LinkedReply, LinkedNtf, InFlight, Linked, IsHeld
  <2> QED BY <2>1, <2>2
<1> QED BY <1>5, <1>6 DEF Discipline

-----------------------------------------------------------------------------
(* The steps of the poll task.                                               *)

\* What an update of a poll record keeps.
LEMMA FieldsKept ==
    ASSUME NEW p \in PollFields, NEW n, NEW m
    PROVE  /\ [p EXCEPT !.free_flag = n].type = p.type
           /\ [p EXCEPT !.free_flag = n].times = p.times
           /\ [p EXCEPT !.free_flag = n].free_flag = n
           /\ [p EXCEPT !.times = n].type = p.type
           /\ [p EXCEPT !.times = n].times = n
           /\ [p EXCEPT !.times = n].free_flag = p.free_flag
           /\ [p EXCEPT !.delay = n].type = p.type
           /\ [p EXCEPT !.delay = n].times = p.times
           /\ [p EXCEPT !.delay = n].free_flag = p.free_flag
           /\ [p EXCEPT !.delay = m, !.times = n].type = p.type
           /\ [p EXCEPT !.delay = m, !.times = n].times = n
           /\ [p EXCEPT !.delay = m, !.times = n].free_flag = p.free_flag
  BY DEF PollFields

\* Every step of uart_poll_tsk keeps the discipline, ...
LEMMA PollDiscipline ==
    ASSUME Discipline, TypeOK, Timely, PollTask
    PROVE  Discipline'
<1>1. CASE PollBegin
  BY <1>1, IdleStep DEF PollBegin, sendVars, Unlocked
<1>2. CASE PollEnd
  BY <1>2, IdleStep DEF PollEnd, sendVars
<1> SUFFICES ASSUME cursor \in DOMAIN sendList, ~PollBegin, ~PollEnd PROVE Discipline'
  <2>1. ASSUME NEW type, Visiting(type) PROVE cursor \in DOMAIN sendList
    BY <2>1 DEF Visiting, TypeOK
  <2> QED
    BY <1>1, <1>2, <2>1
    DEF PollTask, PollReply, PollPostUnlink, PollFirst, PollCount, PollAnswered,
        PollWait, PollTimeout, PollPost, PollGiveUp, Waiting, TypeOK
<1> PICK b \in Buf : b = sendList[cursor]
  BY AtEntry
<1>4. /\ b # NoBuf /\ b \in Linked /\ poll[b] \in PollFields
      /\ b \notin ToSet(free) /\ ~IsHeld(b) /\ poll[b].type \in {0, 1}
  BY AtEntry
<1>5. /\ poll[b].type = 0 => ~InFlight(b)
      /\ poll[b].type = 1 /\ poll[b].free_flag # 0 => poll[b].times > 0 /\ ~InFlight(b)
      /\ poll[b].type = 1 /\ poll[b].times = 0 /\ InFlight(b) => pollPc = "count"
  BY <1>4 DEF Discipline, BufferRules, LinkedReply, LinkedNtf
<1>6. poll[b].times \in Nat
  BY <1>4, FieldsNat
<1>7. \A r : poll' = [poll EXCEPT ![b] = r] =>
           poll'[b] = r /\ \A c \in Buf : c # b => poll'[c] = poll[c]
  BY DEF TypeOK
\* A step that keeps the entry where it is and only rewrites its poll field.
<1>8. ASSUME poll'[b].type = poll[b].type, \A c \in Buf : c # b => poll'[c] = poll[c],
             UNCHANGED <<status, free, sendList, mbx, sendBuf, held>>,
             poll'[b].type = 1 => /\ poll'[b].free_flag = 0 \/ ~InFlight(b)
                                  /\ poll'[b].times > 0,
             AtCursor'
      PROVE  Discipline'
  <2>1. BufferRules(b)'
    BY <1>4, <1>5, <1>8
    DEF BufferRules, IdleClean, NotFreeAndHeld, TypeSet, PostedReply,
        LinkedReply, LinkedNtf, InFlight, Linked, IsHeld
  <2> QED BY <1>8, <2>1, UpdateStep
<1>9. CASE PollReply
  <2>1. poll' = [poll EXCEPT ![b] = [poll[b] EXCEPT !.free_flag = 1]]
    BY <1>9 DEF PollReply
  <2>2. poll'[b].type = 0 /\ poll'[b].free_flag = 1 /\ poll[b].type = 0
    <3>1. poll'[b] = [poll[b] EXCEPT !.free_flag = 1]
      BY <1>7, <2>1
    <3>2. poll[b].type = 0
      BY <1>9 DEF PollReply, Visiting
    <3> QED BY <1>4, <3>1, <3>2, FieldsKept
  <2>3. AtCursor'
    BY <1>9, <2>2 DEF PollReply, AtCursor
  <2> QED BY <1>7, <1>8, <1>9, <2>1, <2>2, <2>3 DEF PollReply, sendVars
<1>10. CASE PollPostUnlink
  <2>1. poll[b].type = 0 /\ poll[b].free_flag # 0
    BY <1>10 DEF PollPostUnlink, Discipline, AtCursor
  <2> QED BY <1>5, <1>10, <2>1, UnlinkStep DEF PollPostUnlink, Post, sendVars
<1>11. CASE PollFirst
  <2>1. poll[b].type = 1 /\ poll[b].times = 0 /\ pollPc = "visit"
    BY <1>11 DEF PollFirst, Visiting
  <2>2. ~InFlight(b) /\ poll[b].free_flag = 0
    BY <1>5, <2>1
  <2> QED BY <1>4, <1>11, <2>1, <2>2, PostStep DEF PollFirst, Post, sendVars
<1>12. CASE PollCount
  <2>1. poll' = [poll EXCEPT ![b] = [poll[b] EXCEPT !.times = @ + 1]]
    BY <1>12 DEF PollCount
  <2>2. poll[b].type = 1 /\ poll[b].free_flag = 0
    BY <1>12 DEF PollCount, Discipline, AtCursor
  <2>3. /\ poll'[b].type = 1 /\ poll'[b].free_flag = 0
        /\ poll'[b].times = poll[b].times + 1
    <3>1. poll'[b] = [poll[b] EXCEPT !.times = @ + 1]
      BY <1>7, <2>1
    <3> QED BY <1>4, <2>2, <3>1, FieldsKept
  <2>4. AtCursor'
    BY <1>12 DEF PollCount, AtCursor
  <2>5. poll'[b].times > 0
    BY <1>6, <2>2, <2>3
  <2>6. \A c \in Buf : c # b => poll'[c] = poll[c]
    BY <1>7, <2>1
  <2>7. UNCHANGED <<status, free, sendList, mbx, sendBuf, held>>
    BY <1>12 DEF PollCount, sendVars
  <2> QED BY <1>8, <2>2, <2>3, <2>4, <2>5, <2>6, <2>7
\* The entry leaves the list for the pool.
<1>13. ASSUME Release(b), ~InFlight(b), pollPc = "visit", pollPc' = "visit",
              UNCHANGED <<mbx, held, sendBuf>>
       PROVE  Discipline'
  <2>1. ToSet(sendList') = ToSet(sendList) \ {b} /\ IsInjective(sendList')
    <3>1. sendList \in Seq(Buf) /\ cursor \in 1 .. Len(sendList) /\ IsInjective(sendList)
      BY DEF TypeOK, Discipline, Queues
    <3> QED BY <3>1, <1>13, RemoveAtSet DEF Release
  <2>2. AtCursor'
    BY <1>13 DEF AtCursor
  <2>3. poll' = [poll EXCEPT ![b] = ZeroPoll] /\ Recycle(b)
    BY <1>13 DEF Release
  <2>4. b \notin ToSet(mbx) /\ sendBuf' # b /\ sendBuf' = sendBuf /\ UNCHANGED <<mbx, held>>
    BY <1>13 DEF InFlight
  <2>5. pollPc = "count" => pollPc' = "count" /\ UNCHANGED <<cursor, sendList>>
    BY <1>13
  <2>6. b \notin ToSet(free) /\ ~IsHeld(b)
    BY <1>4
  <2> QED BY <2>1, <2>2, <2>3, <2>4, <2>5, <2>6, ReleaseStep
<1>14. CASE PollAnswered
  BY <1>5, <1>13, <1>14 DEF PollAnswered, Visiting, pollVars, sendVars
<1>15. CASE PollWait
  <2>1. poll' = [poll EXCEPT ![b] = [poll[b] EXCEPT !.delay = @ + PollStep]]
    BY <1>15 DEF PollWait
  <2>2. poll[b].type = 1 /\ poll[b].free_flag = 0 /\ poll[b].times # 0 /\ pollPc = "visit"
    BY <1>15 DEF PollWait, Waiting, Visiting
  <2>3. /\ poll'[b].type = 1 /\ poll'[b].free_flag = 0
        /\ poll'[b].times = poll[b].times
    <3>1. poll'[b] = [poll[b] EXCEPT !.delay = @ + PollStep]
      BY <1>7, <2>1
    <3> QED BY <1>4, <2>2, <3>1, FieldsKept
  <2>4. AtCursor'
    BY <1>15, <2>2 DEF PollWait, AtCursor
  <2>5. poll'[b].times > 0
    BY <1>6, <2>2, <2>3
  <2>6. \A c \in Buf : c # b => poll'[c] = poll[c]
    BY <1>7, <2>1
  <2>7. UNCHANGED <<status, free, sendList, mbx, sendBuf, held>>
    BY <1>15 DEF PollWait, sendVars
  <2> QED BY <1>8, <2>2, <2>3, <2>4, <2>5, <2>6, <2>7
<1>16. CASE PollTimeout
  <2>1. poll' = [poll EXCEPT ![b] = [poll[b] EXCEPT !.delay = 0, !.times = @ + 1]]
    BY <1>16 DEF PollTimeout
  <2>2. poll[b].type = 1 /\ poll[b].free_flag = 0 /\ ~InFlight(b)
    BY <1>16 DEF PollTimeout, Waiting, Visiting, TimelyPost
  <2>3. /\ poll'[b].type = 1 /\ poll'[b].free_flag = 0
        /\ poll'[b].times = poll[b].times + 1
    <3>1. poll'[b] = [poll[b] EXCEPT !.delay = 0, !.times = @ + 1]
      BY <1>7, <2>1
    <3> QED BY <1>4, <2>2, <3>1, FieldsKept
  <2>4. AtCursor'
    BY <1>6, <1>16, <2>2, <2>3 DEF PollTimeout, AtCursor, InFlight, sendVars
  <2>5. poll'[b].times > 0
    BY <1>6, <2>2, <2>3
  <2>6. \A c \in Buf : c # b => poll'[c] = poll[c]
    BY <1>7, <2>1
  <2>7. UNCHANGED <<status, free, sendList, mbx, sendBuf, held>>
    BY <1>16 DEF PollTimeout, sendVars
  <2> QED BY <1>8, <2>2, <2>3, <2>4, <2>5, <2>6, <2>7
<1>17. CASE PollPost
  <2>1. poll[b].type = 1 /\ poll[b].free_flag = 0 /\ poll[b].times > 0 /\ ~InFlight(b)
    BY <1>17 DEF PollPost, Discipline, AtCursor
  <2> QED BY <1>4, <1>17, <2>1, PostStep DEF PollPost, Post, sendVars
<1>18. CASE PollGiveUp
  BY <1>13, <1>18
  DEF PollGiveUp, Waiting, Visiting, TimelyPost, pollVars, sendVars
<1> QED
  BY <1>9, <1>10, <1>11, <1>12, <1>14, <1>15, <1>16, <1>17, <1>18 DEF PollTask

-----------------------------------------------------------------------------
(* The steps of the send task.                                               *)

\* ... and every step of uart_send_tsk.
LEMMA SendDiscipline ==
    ASSUME Discipline, TypeOK, SendTask
    PROVE  Discipline'
<1>1. CASE SendPend
  <2> PICK b \in Buf : b = Head(mbx)
    BY <1>1, TailSet DEF SendPend, TypeOK
  <2>1. /\ b \in ToSet(mbx) /\ ToSet(mbx') = ToSet(mbx) \ {b} /\ IsInjective(mbx')
    BY <1>1, TailSet DEF SendPend, TypeOK, Discipline, Queues
  <2>2. sendBuf' = b /\ sendBuf = NoBuf
    BY <1>1 DEF SendPend, TypeOK
  <2>3. UNCHANGED <<status, free, poll, sendList, pollPc, cursor, held>>
    BY <1>1 DEF SendPend, pollVars
  <2>4. \A c \in Buf : InFlight(c)' <=> InFlight(c)
    BY <2>1, <2>2 DEF InFlight, Buf, NoBuf
  <2>5. Queues' /\ HeldOnce'
    BY <2>1, <2>2, <2>3 DEF Discipline, Queues, HeldOnce
  <2>6. AtCursor'
    <3>1. pollPc = "post" => sendList[cursor] \in Buf
      BY DEF TypeOK
    <3>2. sendList[cursor] \in Buf => (InFlight(sendList[cursor])' <=> InFlight(sendList[cursor]))
      <4>1. SUFFICES ASSUME NEW c \in Buf, c = sendList[cursor]
                     PROVE  InFlight(c)' <=> InFlight(c)
        BY <2>3 DEF InFlight
      <4> QED BY <2>4
    <3> QED BY <2>3, <3>1, <3>2 DEF Discipline, AtCursor
  <2>7. ASSUME NEW c \in Buf PROVE BufferRules(c)'
    <3>1. Same(c)
      BY <2>3, <2>4 DEF Same, InFlight
    <3> QED BY <3>1, SameRules DEF Discipline
  <2> QED BY <2>5, <2>6, <2>7 DEF Discipline
<1>2. CASE SendWrite
  BY <1>2, IdleStep DEF SendWrite, Discipline, Queues
<1>3. CASE SendCheck
  <2> PICK b \in Buf : b = sendBuf
    BY <1>3 DEF SendCheck, TypeOK
  <2>1. InFlight(b) /\ b \notin ToSet(mbx) /\ b # NoBuf
    BY DEF InFlight, Discipline, Queues, Buf, NoBuf
  <2>2. b \notin ToSet(free) /\ ~IsHeld(b)
    BY <2>1 DEF Discipline, BufferRules, IdleClean
  <2>3. UNCHANGED <<sendList, mbx, pollPc, cursor, held>> /\ sendBuf' = NoBuf
    BY <1>3 DEF SendCheck, pollVars
  <2>4. pollPc = "post" => sendList[cursor] # b
    BY <2>1 DEF Discipline, AtCursor
  <2>5. CASE poll[b].free_flag # 0
    <3>1. b \notin Linked
      BY <2>1, <2>5
      DEF Discipline, BufferRules, TypeSet, LinkedReply, LinkedNtf
    <3>2. ToSet(sendList') = ToSet(sendList) \ {b} /\ IsInjective(sendList')
      BY <2>3, <3>1 DEF Linked, Discipline, Queues
    <3>3. poll' = [poll EXCEPT ![b] = ZeroPoll] /\ Recycle(b)
      BY <1>3, <2>5 DEF SendCheck
    <3>4. AtCursor'
      <4>1. ASSUME pollPc \in {"post_unlink", "count", "post"}
            PROVE  sendList[cursor] \in Buf /\ sendList[cursor] # b
        <5>1. cursor \in DOMAIN sendList
          BY <4>1 DEF TypeOK
        <5> QED BY <5>1, <3>1, AtEntry
      <4>2. \A c \in Buf : c # b => poll'[c] = poll[c]
        BY <3>3 DEF TypeOK
      <4>3. ASSUME pollPc = "post" PROVE ~InFlight(sendList[cursor])'
        BY <4>1, <4>3, <2>3 DEF Discipline, AtCursor, InFlight, Buf, NoBuf
      <4> QED BY <2>3, <4>1, <4>2, <4>3 DEF Discipline, AtCursor
    <3> QED BY <2>1, <2>2, <2>3, <3>2, <3>3, <3>4, ReleaseStep
  <2>6. CASE poll[b].free_flag = 0
    <3>1. UNCHANGED <<poll, status, free>>
      BY <1>3, <2>6 DEF SendCheck
    <3>2. b \in Linked
      BY <2>2, <2>6 DEF Discipline, BufferRules, PostedReply
    <3>3. Queues' /\ HeldOnce'
      <4>1. ToSet(mbx) \subseteq Buf
        BY ToSetElements DEF TypeOK
      <4> QED BY <2>3, <3>1, <4>1 DEF Discipline, Queues, HeldOnce, Buf, NoBuf
    <3>4. AtCursor'
      <4>1. pollPc = "post" => sendList[cursor] \in Buf
        BY DEF TypeOK
      <4> QED BY <2>3, <3>1, <4>1 DEF Discipline, AtCursor, InFlight, Buf, NoBuf
    <3>5. ASSUME NEW c \in Buf PROVE BufferRules(c)'
      <4>1. CASE c # b
        <5>1. Same(c)
          BY <2>3, <3>1, <4>1 DEF Same, Buf, NoBuf
        <5> QED BY <5>1, SameRules DEF Discipline
      <4>2. CASE c = b
        BY <4>2, <2>1, <2>2, <2>3, <2>6, <3>1, <3>2
        DEF Discipline, BufferRules, IdleClean, NotFreeAndHeld, TypeSet, PostedReply,
            LinkedReply, LinkedNtf, InFlight, Linked, IsHeld
      <4> QED BY <4>1, <4>2
    <3> QED BY <3>3, <3>4, <3>5 DEF Discipline
  <2> QED BY <2>5, <2>6
<1> QED BY <1>1, <1>2, <1>3 DEF SendTask

-----------------------------------------------------------------------------
\* Every step keeps Discipline, under the timing assumptions.
LEMMA NextDiscipline == Timely /\ TypeOK /\ Discipline /\ [Next]_vars => Discipline'
<1> SUFFICES ASSUME Timely, TypeOK, Discipline, [Next]_vars PROVE Discipline'
  OBVIOUS
<1>1. ASSUME NEW t \in Threads, BufFactoryCrash(t) PROVE Discipline'
  BY <1>1, IdleStep DEF BufFactoryCrash, sendVars
<1>2. ASSUME NEW t \in Threads, NEW type \in {0, 1}, DisposeFill(t, type) PROVE Discipline'
  BY <1>2, ProduceStep DEF DisposeFill
<1>3. ASSUME NEW t \in Threads, Link(t) PROVE Discipline'
  BY <1>3, LinkStep
<1>4. ASSUME NEW sn \in PeerSn, RecvCommand(sn) PROVE Discipline'
  BY <1>4, ProduceStep DEF RecvCommand, Threads
<1>5. ASSUME NEW b \in Buf, RecvResponse(b) PROVE Discipline'
  BY <1>5, MarkStep DEF RecvResponse
<1>6. ASSUME NEW sn \in UploadSn, RecvUpload(sn) PROVE Discipline'
  BY <1>6, IdleStep DEF RecvUpload, sendVars, Discipline, Queues
<1>7. CASE RecvUploadMark
  BY <1>7, MarkStep DEF RecvUploadMark
<1>8. CASE UNCHANGED vars
  BY <1>8, IdleStep DEF vars, sendVars, Discipline, Queues
<1> QED
  BY <1>1, <1>2, <1>3, <1>4, <1>5, <1>6, <1>7, <1>8, PollDiscipline, SendDiscipline
  DEF Next, Halted

\* Discipline is an invariant when the timing assumptions hold and the
\* buffers of the pool start zeroed.
THEOREM DisciplineHolds ==
    ASSUME Timely, CleanPoll
    PROVE  Spec => []Discipline
<1>1. Init => Discipline
  BY InitDiscipline
<1>2. TypeOK /\ Discipline /\ [Next]_vars => Discipline'
  BY NextDiscipline
<1> QED BY <1>1, <1>2, TypeCorrect, PTL DEF Spec

\* Every buffer is in one place only, whatever the numbers of buffers and
\* threads: no buffer is recycled twice, reused while it is being written, or
\* lost.
THEOREM OwnershipHolds ==
    ASSUME Timely, CleanPoll
    PROVE  Spec => []BufferOwnership
<1>1. Discipline => BufferOwnership
  BY DEF Discipline, Queues, HeldOnce, BufferRules, IdleClean, NotFreeAndHeld,
         PostedReply, BufferOwnership, IsHeld
<1> QED BY <1>1, DisciplineHolds, PTL

-----------------------------------------------------------------------------
(* The mailbox of uart_send_tsk.                                             *)

\* No frame is queued twice, so one more always fits.
LEMMA RoomInMailbox ==
    ASSUME Discipline, TypeOK, MaxMsg >= NumBuf, NEW b \in Buf, b \notin ToSet(mbx)
    PROVE  Len(mbx) < MaxMsg
<1>1. NumBuf \in Nat \ {0} /\ MaxMsg \in Nat
  BY BoundsAssumption
<1>2. /\ IsFiniteSet(Buf \ {b}) /\ Cardinality(Buf \ {b}) = NumBuf - 1
      /\ IsFiniteSet(1 .. Len(mbx)) /\ Cardinality(1 .. Len(mbx)) = Len(mbx)
  <2>1. IsFiniteSet(Buf) /\ Cardinality(Buf) = NumBuf
    BY <1>1, FS_Interval DEF Buf
  <2>2. Len(mbx) \in Nat
    BY DEF TypeOK
  <2>3. IsFiniteSet(Buf \ {b}) /\ Cardinality(Buf \ {b}) = NumBuf - 1
    BY <2>1, FS_RemoveElement
  <2>4. IsFiniteSet(1 .. Len(mbx))
    BY <2>2, FS_Interval
  <2>5. Cardinality(1 .. Len(mbx)) = Len(mbx)
    <3>1. PICK n \in Nat : n = Len(mbx)
      BY <2>2
    <3>2. Cardinality(1 .. n) = IF 1 > n THEN 0 ELSE n - 1 + 1
      BY FS_Interval
    <3>3. Cardinality(1 .. n) = n
      BY <3>2
    <3> QED BY <3>1, <3>3
  <2> QED BY <2>3, <2>4, <2>5
<1>3. mbx \in [1 .. Len(mbx) -> Buf \ {b}]
  <2>1. mbx \in Seq(Buf)
    BY DEF TypeOK
  <2>2. \A i \in 1 .. Len(mbx) : mbx[i] # b
    BY <2>1, ToSetElements
  <2> QED BY <2>1, <2>2
<1>4. \A i, j \in 1 .. Len(mbx) : mbx[i] = mbx[j] => i = j
  <2>1. DOMAIN mbx = 1 .. Len(mbx)
    BY DEF TypeOK
  <2> QED BY <2>1 DEF Discipline, Queues, IsInjective
<1>5. ~(Cardinality(Buf \ {b}) < Cardinality(1 .. Len(mbx)))
  BY <1>2, <1>3, <1>4, FS_PigeonHole
<1>6. Len(mbx) \in Nat
  BY DEF TypeOK
<1> QED BY <1>1, <1>2, <1>5, <1>6

\* The entry that uart_poll_tsk is about to post is not in the mailbox.
LEMMA PostingFits == TypeOK /\ Discipline /\ MaxMsg >= NumBuf => PollNeverBlocks
<1> SUFFICES ASSUME TypeOK, Discipline, MaxMsg >= NumBuf, PollPosting
             PROVE  Len(mbx) < MaxMsg
  BY DEF PollNeverBlocks
<1>1. cursor \in DOMAIN sendList
  BY DEF PollPosting, Visiting, TypeOK
<1> PICK b \in Buf : b = sendList[cursor]
  BY <1>1, AtEntry
<1>2. b \in Linked
  BY <1>1, AtEntry
<1>3. ~InFlight(b)
  <2>1. CASE pollPc = "post_unlink"
    BY <1>2, <2>1 DEF Discipline, AtCursor, BufferRules, LinkedReply
  <2>2. CASE pollPc = "post"
    BY <2>2 DEF Discipline, AtCursor
  <2>3. CASE Visiting(1) /\ poll[b].times = 0
    BY <1>2, <2>3 DEF Visiting, Discipline, BufferRules, LinkedNtf
  <2> QED BY <2>1, <2>2, <2>3 DEF PollPosting
<1> QED BY <1>3, RoomInMailbox DEF InFlight

\* With a mailbox at least as large as the pool (both are 16), uart_poll_tsk
\* never blocks on it while it holds uart_poll_mutex.
THEOREM PollNeverBlocksHolds ==
    ASSUME Timely, CleanPoll, MaxMsg >= NumBuf
    PROVE  Spec => []PollNeverBlocks
<1>1. TypeOK /\ Discipline => PollNeverBlocks
  BY PostingFits
<1> QED BY <1>1, TypeCorrect, DisciplineHolds, PTL

-----------------------------------------------------------------------------
\* The upload that is handled marks no notification.
UploadsApart == recvPc = "upload" => \A b \in Buf : ~NtfWaits(b, recvSn)

-----------------------------------------------------------------------------
(* The inductive invariant: what the poll fields and the places of the       *)
(* buffers say of the frames' history.                                       *)

IsNtf(b) == frame[b].kind = "ntf"
At(pc, b) == pollPc = pc /\ b = sendList[cursor]

\* Notifications that are not back in the pool differ in their numbers.
Numbers ==
    /\ uart_send_sn \in 0 .. SnMod - 1
    /\ frame \in [Buf -> SentFrames]
    /\ \A b, c \in Buf \ ToSet(free) :
          IsNtf(b) /\ IsNtf(c) /\ frame[b].sn = frame[c].sn => b = c

\* Entries that uart_poll_tsk has passed were posted; times++ comes after the
\* first post.
Passed ==
    /\ pollPc # "sleep" =>
          \A i \in DOMAIN sendList : i < cursor => posts[sendList[i]] > 0
    /\ pollPc = "count" => poll[sendList[cursor]].times = 0

KindOfType(b) == IsHeld(b) \/ b \in Linked => (poll[b].type = 1 <=> IsNtf(b))
Unposted(b) ==
    IsHeld(b) \/ (b \in Linked /\ ~IsNtf(b)) => posts[b] = 0 /\ ~answered[b]
GoneIsReply(b) == b \notin ToSet(free) /\ ~IsHeld(b) /\ b \notin Linked => ~IsNtf(b)
Counted(b) ==
    b \in Linked /\ IsNtf(b) =>
       /\ answered[b] <=> poll[b].free_flag # 0
       /\ poll[b].times <= MaxTimes
       /\ posts[b] = IF At("count", b) THEN poll[b].times + 1
                     ELSE IF At("post", b) THEN poll[b].times - 1
                     ELSE poll[b].times
OutIsPosted(b) ==
    /\ InFlight(b) => posts[b] > 0
    /\ b \in heard => IsNtf(b) /\ posts[b] > 0

RecordRules(b) ==
    KindOfType(b) /\ Unposted(b) /\ GoneIsReply(b) /\ Counted(b) /\ OutIsPosted(b)

Record == Numbers /\ Passed /\ \A b \in Buf : RecordRules(b)

-----------------------------------------------------------------------------
(* Every step keeps Record.                                                  *)

\* Nothing that the rules of buffer c speak of changes in this step.
Kept(c) ==
    /\ c \in ToSet(free') <=> c \in ToSet(free)
    /\ c \in ToSet(sendList') <=> c \in ToSet(sendList)
    /\ c \in ToSet(mbx') \/ c = sendBuf' => c \in ToSet(mbx) \/ c = sendBuf
    /\ (\E t \in Threads : held'[t] = c) <=> (\E t \in Threads : held[t] = c)
    /\ poll'[c] = poll[c] /\ frame'[c] = frame[c]
    /\ posts'[c] = posts[c] /\ answered'[c] = answered[c]
    /\ c \in heard' => c \in heard
    /\ c \in ToSet(sendList) /\ c = sendList[cursor] /\ pollPc \in {"count", "post"} =>
          pollPc' = pollPc /\ c = sendList'[cursor']
    /\ c \in ToSet(sendList) /\ c = sendList'[cursor'] /\ pollPc' \in {"count", "post"} =>
          pollPc' = pollPc /\ c = sendList[cursor]

\* What is recorded of a buffer that a step leaves alone stays true.
LEMMA KeptRules ==
    ASSUME NEW c \in Buf, RecordRules(c), Kept(c)
    PROVE  RecordRules(c)'
<1> USE DEF Kept, IsNtf, IsHeld, Linked
<1>1. KindOfType(c)'
  BY DEF RecordRules, KindOfType
<1>2. Unposted(c)' /\ GoneIsReply(c)'
  BY DEF RecordRules, Unposted, GoneIsReply
<1>3. Counted(c)'
  BY DEF RecordRules, Counted, At
<1>4. OutIsPosted(c)'
  BY DEF RecordRules, OutIsPosted, InFlight
<1> QED BY <1>1, <1>2, <1>3, <1>4 DEF RecordRules

\* A step changes one buffer, or none.
LEMMA RecordKept ==
    ASSUME Record, NEW b, \A c \in Buf : c # b => Kept(c),
           b \in Buf => RecordRules(b)', Numbers', Passed'
    PROVE  Record'
<1>1. ASSUME NEW c \in Buf PROVE RecordRules(c)'
  BY KeptRules DEF Record
<1> QED BY <1>1 DEF Record

\* Numbers stay apart if none is given and no buffer leaves the pool.
LEMMA NumbersKept ==
    ASSUME Numbers, UNCHANGED <<frame, uart_send_sn>>, ToSet(free) \subseteq ToSet(free')
    PROVE  Numbers'
  BY DEF Numbers, IsNtf

\* Initially there is nothing to keep a record of.
LEMMA RecordInit == Init => Record
<1> SUFFICES ASSUME Init PROVE Record
  OBVIOUS
<1>1. ToSet(sendList) = {} /\ ToSet(mbx) = {} /\ ToSet(free) = Buf
  BY DEF Init, ToSet
<1>2. Numbers
  <2>1. 0 \in 0 .. SnMod - 1
    BY BoundsAssumption
  <2> QED BY <1>1, <2>1 DEF Numbers, Init, SentFrames
<1>3. Passed
  BY DEF Passed, Init
<1>4. ASSUME NEW b \in Buf PROVE RecordRules(b)
  <2>1. b # NoBuf /\ \A t \in Threads : held[t] = NoBuf
    BY DEF Init, Buf, NoBuf
  <2>2. ~IsHeld(b) /\ b \notin Linked /\ ~InFlight(b) /\ b \notin heard /\ b \in ToSet(free)
    BY <1>1, <2>1 DEF IsHeld, Linked, InFlight, Init
  <2> QED
    BY <2>2 DEF RecordRules, KindOfType, Unposted, GoneIsReply, Counted, OutIsPosted
<1> QED BY <1>2, <1>3, <1>4 DEF Record

\* Steps that change no buffer.
LEMMA IdleRecord ==
    ASSUME Discipline, TypeOK, Record, Passed',
           UNCHANGED <<free, poll, frame, sendList, held, uart_send_sn, history>>,
           \A c \in Buf : c \in ToSet(mbx') \/ c = sendBuf' => c \in ToSet(mbx) \/ c = sendBuf,
           \/ UNCHANGED pollVars
           \/ pollPc \in {"sleep", "visit"} /\ pollPc' \in {"sleep", "visit"}
    PROVE  Record'
<1>1. \A c \in Buf : Kept(c)
  BY DEF Kept, pollVars, history
<1>2. Numbers'
  BY NumbersKept DEF Record
<1> QED BY <1>1, <1>2, RecordKept DEF Record, Buf

\* A thread fills the first free buffer with frame f.
LEMMA ProduceRecord ==
    ASSUME Discipline, TypeOK, Record, NEW t \in Threads, NEW f \in SentFrames,
           NEW type \in {0, 1}, held[t] = NoBuf, Produce(t, f, type),
           type = 1 <=> f.kind = "ntf",
           f.kind = "ntf" => \A c \in Buf : ~NtfWaits(c, f.sn),
           uart_send_sn' \in 0 .. SnMod - 1,
           UNCHANGED <<status, sendList, mbx, pollVars, sendVars>>
    PROVE  Record'
<1> PICK b \in Buf : b = Head(free)
  BY TailSet DEF Produce, TypeOK
<1>1. b \in ToSet(free) /\ ToSet(free') = ToSet(free) \ {b}
  BY TailSet DEF Produce, Discipline, Queues, TypeOK
<1>2. /\ \A c \in Buf : c # b => /\ poll'[c] = poll[c] /\ frame'[c] = frame[c]
                               /\ posts'[c] = posts[c] /\ answered'[c] = answered[c]
      /\ frame'[b] = f /\ posts'[b] = 0 /\ answered'[b] = FALSE
      /\ heard' = heard \ {b}
  BY <1>1 DEF Produce, TypeOK
<1>3. poll'[b] = [poll[b] EXCEPT !.type = type] /\ poll[b] \in PollFields
  BY <1>1 DEF Produce, TypeOK
<1>4. poll'[b].type = type
  BY <1>3 DEF PollFields
<1>5. held'[t] = b /\ \A u \in Threads : u # t => held'[u] = held[u]
  BY DEF Produce, TypeOK
<1>6. b # NoBuf
  BY DEF Buf, NoBuf
<1>7. ~IsHeld(b) /\ b \notin Linked /\ ~InFlight(b)
  BY <1>1 DEF Discipline, BufferRules, IdleClean, NotFreeAndHeld
<1>8. frame' \in [Buf -> SentFrames]
  BY <1>1 DEF Produce, Record, Numbers
<1>9. UNCHANGED <<sendList, mbx, pollPc, cursor, sendBuf>>
  BY DEF pollVars, sendVars
<1>10. \A c \in Buf : c # b => Kept(c)
  BY <1>1, <1>2, <1>5, <1>6, <1>9 DEF Kept, Buf, NoBuf
<1>11. RecordRules(b)'
  <2>1. IsNtf(b)' <=> type = 1
    BY <1>2 DEF IsNtf
  <2>2. IsHeld(b)' /\ (b \notin Linked)' /\ (~InFlight(b))' /\ (b \notin heard)'
    BY <1>2, <1>5, <1>7, <1>9 DEF IsHeld, Linked, InFlight
  <2> QED
    BY <1>2, <1>4, <2>1, <2>2
    DEF RecordRules, KindOfType, Unposted, GoneIsReply, Counted, OutIsPosted
<1>12. Numbers'
  <2>1. ASSUME NEW c \in Buf, NEW d \in Buf,
               c \notin ToSet(free'), d \notin ToSet(free'), frame'[c].kind = "ntf",
               frame'[d].kind = "ntf", frame'[c].sn = frame'[d].sn
        PROVE  c = d
    <3>1. \A e \in Buf : e # b /\ e \notin ToSet(free') => e \notin ToSet(free) /\ frame'[e] = frame[e]
      BY <1>1, <1>2
    <3>2. CASE c # b /\ d # b
      BY <2>1, <3>1, <3>2 DEF Record, Numbers, IsNtf
    <3>3. \A e \in Buf : e # b /\ e \notin ToSet(free') /\ frame'[e].kind = "ntf" /\ f.kind = "ntf" =>
               frame'[e].sn # f.sn
      BY <3>1 DEF NtfWaits
    <3> QED BY <1>2, <2>1, <3>2, <3>3
  <2> QED BY <1>8, <2>1 DEF Numbers, IsNtf
<1>13. Passed'
  <2>1. ASSUME NEW i \in DOMAIN sendList PROVE sendList[i] \in Buf /\ sendList[i] # b
    <3>1. sendList \in Seq(Buf) /\ i \in 1 .. Len(sendList)
      BY DEF TypeOK
    <3> QED BY <3>1, <1>7, ToSetElements DEF Linked
  <2>2. pollPc = "count" => cursor \in DOMAIN sendList
    BY DEF TypeOK
  <2> QED BY <1>2, <1>9, <2>1, <2>2 DEF Record, Passed
<1> QED BY <1>1, <1>10, <1>11, <1>12, <1>13, RecordKept

\* A thread links the buffer it has filled.
LEMMA LinkRecord ==
    ASSUME Discipline, TypeOK, Record, NEW t \in Threads, Link(t)
    PROVE  Record'
<1> PICK b \in Buf : b = held[t]
  BY DEF Link, TypeOK
<1>1. b # NoBuf /\ IsHeld(b)
  BY DEF Buf, NoBuf, IsHeld
<1>2. /\ b \notin ToSet(free) /\ b \notin Linked /\ ~InFlight(b)
      /\ poll[b].times = 0 /\ poll[b].free_flag = 0 /\ poll[b].type \in {0, 1}
  BY <1>1 DEF Discipline, BufferRules, IdleClean, NotFreeAndHeld, TypeSet
<1>3. ToSet(sendList') = ToSet(sendList) \cup {b}
  <2>1. sendList \in Seq(Buf) /\ sendList' = Append(sendList, b)
    BY <1>2 DEF Link, TypeOK
  <2> QED BY <2>1, AppendSet
<1>4. held'[t] = NoBuf /\ \A u \in Threads : u # t => held'[u] = held[u]
  BY DEF Link, TypeOK
<1>5. /\ UNCHANGED <<free, poll, frame, mbx, pollPc, cursor, sendBuf, uart_send_sn, posts, answered, heard>>
      /\ pollPc = "sleep"
  BY DEF Link, pollVars, sendVars, history, Unlocked
<1>6. \A c \in Buf : c # b => Kept(c)
  BY <1>3, <1>4, <1>5 DEF Kept, Buf, NoBuf
<1>7. RecordRules(b)'
  <2>1. posts[b] = 0 /\ ~answered[b] /\ (poll[b].type = 1 <=> IsNtf(b)) /\ b \notin heard
    BY <1>1 DEF Record, RecordRules, Unposted, KindOfType, OutIsPosted
  <2>2. MaxTimes \in Nat
    BY BoundsAssumption
  <2> QED
    BY <1>1, <1>2, <1>3, <1>5, <2>1, <2>2
    DEF RecordRules, KindOfType, Unposted, GoneIsReply, Counted, OutIsPosted,
        IsNtf, At, Linked, InFlight
<1>8. Numbers' /\ Passed'
  BY <1>5, NumbersKept DEF Record, Passed
<1> QED BY <1>6, <1>7, <1>8, RecordKept

\* The answer to a notification that has come back to the pool marks none, and the
\* answer to one that waits marks no other.
LEMMA MarkedIsOwn ==
    ASSUME Timely, TypeOK, Discipline, Record, NEW b \in Buf, b \in heard, TimelyAnswer(b),
           NEW c \in Buf, c \in Linked, IsNtf(c), frame[c].sn = frame[b].sn
    PROVE  c = b
<1>1. IsNtf(b)
  BY DEF Record, RecordRules, OutIsPosted
<1>2. c \notin ToSet(free)
  BY DEF Discipline, BufferRules, IdleClean
<1>3. b \notin ToSet(free)
  BY <1>2 DEF TimelyAnswer, NtfWaits, IsNtf
<1> QED BY <1>1, <1>2, <1>3 DEF Record, Numbers

\* Marking answers at most the notification that the frame belongs to.
LEMMA MarkRecord ==
    ASSUME Discipline, TypeOK, Record, Timely, NEW sn, NEW own, Mark(sn, own),
           \A c \in Buf : c \in Linked /\ frame[c].sn = sn => (IsNtf(c) <=> c = own),
           UNCHANGED <<free, frame, sendList, mbx, pollVars, sendVars, held,
                       uart_send_sn, posts, heard>>
    PROVE  Record'
<1>1. UNCHANGED <<pollPc, cursor, sendBuf>> /\ pollPc = "sleep"
  BY DEF Mark, Unlocked, pollVars, sendVars
<1>2. Numbers' /\ Passed'
  BY <1>1, NumbersKept DEF Record, Passed
<1>3. CASE UNCHANGED <<poll, answered>>
  BY <1>1, <1>2, <1>3, IdleRecord DEF history
<1>4. ASSUME NEW i \in DOMAIN sendList, TimelyMark(sendList[i]), frame[sendList[i]].sn = sn,
             poll' = [poll EXCEPT ![sendList[i]].free_flag = 1],
             answered' = [answered EXCEPT ![sendList[i]] = @ \/ sendList[i] = own]
      PROVE  Record'
  <2> PICK b \in Buf : b = sendList[i]
    BY DEF TypeOK
  <2>1. b \in Linked
    <3>1. sendList \in Seq(Buf) /\ i \in 1 .. Len(sendList)
      BY DEF TypeOK
    <3> QED BY <3>1, ToSetElements DEF Linked
  <2>2. \A c \in Buf : c # b => poll'[c] = poll[c] /\ answered'[c] = answered[c]
    BY <1>4 DEF TypeOK
  <2>3. poll'[b] = [poll[b] EXCEPT !.free_flag = 1] /\ poll[b] \in PollFields
    BY <1>4 DEF TypeOK
  <2>4. /\ poll'[b].type = poll[b].type /\ poll'[b].times = poll[b].times
        /\ poll'[b].free_flag = 1
    BY <2>3 DEF PollFields
  <2>5. answered'[b] <=> answered[b] \/ b = own
    BY <1>4 DEF TypeOK
  <2>6. IsNtf(b) <=> b = own
    BY <1>4, <2>1
  <2>7. ~IsHeld(b)
    BY <2>1 DEF Discipline, BufferRules, IdleClean
  <2>8. \A c \in Buf : c # b => Kept(c)
    BY <1>1, <2>2 DEF Kept
  <2>9. RecordRules(b)'
    BY <1>1, <2>1, <2>4, <2>5, <2>6, <2>7
    DEF Record, RecordRules, KindOfType, Unposted, GoneIsReply, Counted, OutIsPosted,
        IsNtf, IsHeld, Linked, InFlight, At
  <2> QED BY <1>2, <2>8, <2>9, RecordKept
<1> QED BY <1>3, <1>4 DEF Mark

-----------------------------------------------------------------------------
(* The steps of uart_poll_tsk.                                               *)

\* What Record says of the entry at the cursor.
LEMMA EntryRecord ==
    ASSUME Discipline, TypeOK, Record, cursor \in DOMAIN sendList,
           NEW b \in Buf, b = sendList[cursor]
    PROVE  /\ poll[b].type = 1 <=> IsNtf(b)
           /\ poll[b].times \in Nat /\ posts[b] \in Nat /\ answered[b] \in BOOLEAN
           /\ poll[b].type = 0 => posts[b] = 0 /\ ~answered[b]
           /\ poll[b].type = 1 =>
                 /\ answered[b] <=> poll[b].free_flag # 0
                 /\ poll[b].times <= MaxTimes
                 /\ posts[b] = IF pollPc = "count" THEN poll[b].times + 1
                               ELSE IF pollPc = "post" THEN poll[b].times - 1
                               ELSE poll[b].times
           /\ ~IsHeld(b) /\ b \in Linked /\ b \notin ToSet(free)
<1>1. /\ b \in Linked /\ poll[b] \in PollFields /\ ~IsHeld(b)
      /\ b \notin ToSet(free) /\ poll[b].type \in {0, 1}
  BY AtEntry
<1>2. poll[b].times \in Nat /\ posts[b] \in Nat /\ answered[b] \in BOOLEAN
  BY <1>1, FieldsNat DEF TypeOK
<1> QED
  BY <1>1, <1>2 DEF Record, RecordRules, KindOfType, Unposted, Counted, At

\* The entries before the cursor are not the one at the cursor.
LEMMA BeforeCursor ==
    ASSUME Discipline, TypeOK, cursor \in DOMAIN sendList
    PROVE  /\ \A i \in DOMAIN sendList : i < cursor =>
                 sendList[i] \in Buf /\ sendList[i] # sendList[cursor]
           /\ \A i \in DOMAIN RemoveAt(sendList, cursor) : i < cursor =>
                 i \in DOMAIN sendList /\ RemoveAt(sendList, cursor)[i] = sendList[i]
           /\ ToSet(RemoveAt(sendList, cursor)) = Linked \ {sendList[cursor]}
<1>1. sendList \in Seq(Buf) /\ cursor \in 1 .. Len(sendList) /\ IsInjective(sendList)
  BY DEF TypeOK, Discipline, Queues
<1>2. \A i \in DOMAIN sendList : i < cursor =>
         sendList[i] \in Buf /\ sendList[i] # sendList[cursor]
  BY <1>1 DEF IsInjective
<1>3. /\ RemoveAt(sendList, cursor) \in Seq(Buf)
      /\ Len(RemoveAt(sendList, cursor)) = Len(sendList) - 1
      /\ \A i \in 1 .. Len(sendList) - 1 :
            RemoveAt(sendList, cursor)[i] = IF i < cursor THEN sendList[i] ELSE sendList[i + 1]
  BY <1>1, RemoveAtItems
<1>4. DOMAIN RemoveAt(sendList, cursor) = 1 .. Len(sendList) - 1 /\ Len(sendList) \in Nat
  BY <1>1, <1>3
<1> QED BY <1>1, <1>2, <1>3, <1>4, RemoveAtSet DEF Linked

\* uart_poll_tsk changes the record of the entry and leaves it linked.
LEMMA EntryKeeps ==
    ASSUME Discipline, TypeOK, Record, cursor \in DOMAIN sendList,
           NEW b \in Buf, b = sendList[cursor],
           \A c \in Buf : c # b => poll'[c] = poll[c] /\ posts'[c] = posts[c],
           \A c \in Buf : c # b /\ c \in ToSet(mbx') => c \in ToSet(mbx),
           pollPc' \in {"count", "post"} => cursor' = cursor,
           UNCHANGED <<free, frame, sendList, sendBuf, held, uart_send_sn, answered, heard>>,
           RecordRules(b)', Passed'
    PROVE  Record'
<1>1. ASSUME NEW c \in Buf, c # b PROVE Kept(c)
  BY <1>1 DEF Kept
<1>2. Numbers'
  BY NumbersKept DEF Record
<1> QED BY <1>1, <1>2, RecordKept

\* uart_poll_tsk takes the entry out of the list.
LEMMA EntryLeaves ==
    ASSUME Discipline, TypeOK, Record, cursor \in DOMAIN sendList,
           NEW b \in Buf, b = sendList[cursor],
           \A c \in Buf : c # b =>
              /\ poll'[c] = poll[c] /\ posts'[c] = posts[c]
              /\ c \in ToSet(mbx') => c \in ToSet(mbx)
              /\ c \in ToSet(free') <=> c \in ToSet(free),
           sendList' = RemoveAt(sendList, cursor), cursor' = cursor,
           pollPc # "sleep", pollPc' = "visit", ToSet(free) \subseteq ToSet(free'),
           UNCHANGED <<frame, sendBuf, held, uart_send_sn, answered, heard>>,
           b \notin ToSet(free') => ~IsNtf(b),
           b \in ToSet(mbx') \/ b = sendBuf \/ b \in heard => posts'[b] > 0
    PROVE  Record'
<1>1. /\ ToSet(sendList') = Linked \ {b}
      /\ \A i \in DOMAIN sendList' : i < cursor =>
            i \in DOMAIN sendList /\ sendList'[i] = sendList[i]
            /\ sendList[i] \in Buf /\ sendList[i] # b
  BY BeforeCursor
<1>2. ASSUME NEW c \in Buf, c # b PROVE Kept(c)
  BY <1>1, <1>2 DEF Kept, Linked
<1>3. Numbers'
  BY NumbersKept DEF Record
<1>4. Passed'
  BY <1>1 DEF Record, Passed
<1>5. ~IsHeld(b) /\ (b \in heard => IsNtf(b))
  BY EntryRecord DEF Record, RecordRules, OutIsPosted
<1>6. RecordRules(b)'
  BY <1>1, <1>5
  DEF RecordRules, KindOfType, Unposted, GoneIsReply, Counted, OutIsPosted,
      IsNtf, IsHeld, Linked, InFlight
<1> QED BY <1>2, <1>3, <1>4, <1>6, RecordKept

\* The steps of a pass keep Record.
LEMMA PollRecord == Discipline /\ TypeOK /\ Record /\ PollTask => Record'
<1> SUFFICES ASSUME Discipline, TypeOK, Record, PollTask PROVE Record'
  OBVIOUS
<1> USE DEF pollVars, sendVars, recvVars, history
<1>1. CASE PollBegin
  <2>1. Passed'
    BY <1>1 DEF PollBegin, Passed, TypeOK
  <2> QED BY <1>1, <2>1, IdleRecord DEF PollBegin, Unlocked
<1>2. CASE PollEnd
  <2>1. Passed'
    BY <1>2 DEF PollEnd, Passed
  <2> QED BY <1>2, <2>1, IdleRecord DEF PollEnd
<1>3. ASSUME cursor \in DOMAIN sendList,
             \/ PollReply \/ PollPostUnlink \/ PollFirst \/ PollCount
             \/ PollAnswered \/ PollWait \/ PollTimeout \/ PollPost \/ PollGiveUp
      PROVE  Record'
  <2> PICK b \in Buf : b = sendList[cursor]
    BY <1>3, AtEntry
  <2>1. /\ poll[b] \in PollFields /\ b \in ToSet(sendList) /\ ~IsHeld(b)
        /\ b \notin ToSet(free) /\ cursor \in Nat \ {0}
        /\ posts[b] \in Nat /\ poll[b].times \in Nat
    BY <1>3, AtEntry, EntryRecord DEF TypeOK, Linked
  <2>2. \A i \in DOMAIN sendList : i < cursor => sendList[i] \in Buf /\ sendList[i] # b
    BY <1>3, BeforeCursor
  <2>next. \A i \in DOMAIN sendList : i < cursor + 1 => i < cursor \/ sendList[i] = b
    <3>1. DOMAIN sendList = 1 .. Len(sendList) /\ Len(sendList) \in Nat
      BY DEF TypeOK
    <3> QED BY <2>1, <3>1
  <2>3. /\ mbx \in Seq(Buf) /\ poll \in [Buf -> PollFields] /\ posts \in [Buf -> Nat]
    BY DEF TypeOK
  <2>4. ASSUME Post(b)
        PROVE  /\ posts'[b] = posts[b] + 1 /\ \A c \in Buf : c # b => posts'[c] = posts[c]
               /\ \A c \in Buf : c # b /\ c \in ToSet(mbx') => c \in ToSet(mbx)
               /\ UNCHANGED <<answered, heard>>
    <3>1. ToSet(mbx') = ToSet(mbx) \cup {b}
      BY <2>3, <2>4, AppendSet DEF Post
    <3> QED BY <2>3, <2>4, <3>1 DEF Post
  <2>5. ASSUME Release(b), pollPc = "visit", UNCHANGED <<frame, mbx, pollVars, sendVars, held, uart_send_sn, history>>
        PROVE  Record'
    <3>1. free \in Seq(Buf) /\ free' = Append(free, b)
      BY <2>1, <2>5 DEF Release, Recycle, TypeOK
    <3>2. ToSet(free') = ToSet(free) \cup {b}
      BY <3>1, AppendSet
    <3>3. \A c \in Buf : c # b => poll'[c] = poll[c]
      BY <2>3, <2>5 DEF Release
    <3>4. b \in ToSet(mbx) \/ b = sendBuf \/ b \in heard => posts[b] > 0
      BY DEF Record, RecordRules, OutIsPosted, InFlight
    <3>5. sendList' = RemoveAt(sendList, cursor)
      BY <2>5 DEF Release
    <3> QED BY <1>3, <2>5, <3>2, <3>3, <3>4, <3>5, EntryLeaves
  <2> USE DEF Visiting
  <2>6. CASE PollReply
    <3>1. poll' = [poll EXCEPT ![b].free_flag = 1] /\ pollPc' = "post_unlink" /\ poll[b].type = 0
      BY <2>6 DEF PollReply
    <3>2. /\ \A c \in Buf : c # b => poll'[c] = poll[c]
          /\ poll'[b] = [poll[b] EXCEPT !.free_flag = 1]
      BY <2>3, <3>1
    <3>3. poll'[b].type = poll[b].type
      BY <2>1, <3>2 DEF PollFields
    <3>4. ~IsNtf(b)
      BY <1>3, <3>1, EntryRecord
    <3>5. RecordRules(b)'
      BY <2>1, <2>6, <3>3, <3>4
      DEF PollReply, Record, RecordRules, KindOfType, Unposted, GoneIsReply, Counted,
          OutIsPosted, IsNtf, IsHeld, Linked, InFlight
    <3>6. Passed'
      BY <2>6 DEF PollReply, Record, Passed
    <3> QED BY <1>3, <2>6, <3>1, <3>2, <3>5, <3>6, EntryKeeps DEF PollReply
  <2>7. CASE PollPostUnlink
    <3>1. /\ pollPc = "post_unlink" /\ Post(b) /\ sendList' = RemoveAt(sendList, cursor)
          /\ pollPc' = "visit" /\ UNCHANGED <<free, poll, frame, cursor, sendBuf, held, uart_send_sn>>
      BY <2>7 DEF PollPostUnlink
    <3>2. ~IsNtf(b)
      BY <1>3, <3>1, EntryRecord DEF Discipline, AtCursor
    <3> QED BY <1>3, <2>1, <2>4, <3>1, <3>2, EntryLeaves
  <2>8. CASE PollFirst
    <3>1. /\ pollPc = "visit" /\ Post(b) /\ pollPc' = "count" /\ poll[b].type = 1 /\ poll[b].times = 0
          /\ UNCHANGED <<free, poll, frame, sendList, cursor, sendBuf, held, uart_send_sn>>
      BY <2>8 DEF PollFirst
    <3>2. /\ IsNtf(b) /\ poll[b].times <= MaxTimes /\ posts[b] = poll[b].times
          /\ answered[b] <=> poll[b].free_flag # 0
      BY <1>3, <3>1, EntryRecord
    <3>3. RecordRules(b)'
      BY <2>1, <2>4, <3>1, <3>2
      DEF RecordRules, KindOfType, Unposted, GoneIsReply, Counted,
          OutIsPosted, IsNtf, IsHeld, Linked, At
    <3>4. Passed'
      BY <2>2, <2>4, <3>1 DEF Record, Passed
    <3> QED BY <1>3, <2>4, <3>1, <3>3, <3>4, EntryKeeps
  <2>9. CASE PollCount
    <3>1. /\ pollPc = "count" /\ poll' = [poll EXCEPT ![b].times = @ + 1]
          /\ pollPc' = "visit" /\ cursor' = cursor + 1
          /\ UNCHANGED <<free, frame, sendList, mbx, sendBuf, held, uart_send_sn, history>>
      BY <2>9 DEF PollCount
    <3>2. /\ \A c \in Buf : c # b => poll'[c] = poll[c]
          /\ poll'[b] = [poll[b] EXCEPT !.times = @ + 1]
      BY <2>3, <3>1
    <3>3. /\ poll'[b].type = poll[b].type /\ poll'[b].free_flag = poll[b].free_flag
          /\ poll'[b].times = poll[b].times + 1
      BY <2>1, <3>2 DEF PollFields
    <3>4. poll[b].times = 0 /\ poll[b].type = 1
      BY <3>1 DEF Record, Passed, Discipline, AtCursor
    <3>5. /\ IsNtf(b) /\ posts[b] = poll[b].times + 1
          /\ answered[b] <=> poll[b].free_flag # 0
      BY <1>3, <3>1, <3>4, EntryRecord
    <3>6. MaxTimes \in Nat \ {0}
      BY BoundsAssumption
    <3>7. RecordRules(b)'
      BY <2>1, <3>1, <3>3, <3>4, <3>5, <3>6
      DEF RecordRules, KindOfType, Unposted, GoneIsReply, Counted,
          OutIsPosted, IsNtf, IsHeld, Linked, At
    <3>8. Passed'
      BY <2>1, <2>next, <3>1, <3>5 DEF Record, Passed
    <3> QED BY <1>3, <3>1, <3>2, <3>7, <3>8, EntryKeeps
  <2>10. CASE PollAnswered
    <3>1. /\ Release(b) /\ pollPc = "visit"
          /\ UNCHANGED <<frame, mbx, pollVars, sendVars, held, uart_send_sn, history>>
      BY <2>10 DEF PollAnswered
    <3> QED BY <2>5, <3>1
  <2>11. CASE PollGiveUp
    <3>1. /\ Release(b) /\ pollPc = "visit"
          /\ UNCHANGED <<frame, mbx, pollVars, sendVars, held, uart_send_sn, history>>
      BY <2>11 DEF PollGiveUp, Waiting
    <3> QED BY <2>5, <3>1
  <2>12. CASE PollWait
    <3>1. /\ pollPc = "visit" /\ poll' = [poll EXCEPT ![b].delay = @ + PollStep]
          /\ pollPc' = "visit" /\ cursor' = cursor + 1 /\ poll[b].type = 1 /\ poll[b].times # 0
          /\ UNCHANGED <<free, frame, sendList, mbx, sendBuf, held, uart_send_sn, history>>
      BY <2>12 DEF PollWait, Waiting
    <3>2. /\ \A c \in Buf : c # b => poll'[c] = poll[c]
          /\ poll'[b] = [poll[b] EXCEPT !.delay = @ + PollStep]
      BY <2>3, <3>1
    <3>3. /\ poll'[b].type = poll[b].type /\ poll'[b].free_flag = poll[b].free_flag
          /\ poll'[b].times = poll[b].times
      BY <2>1, <3>2 DEF PollFields
    <3>4. /\ IsNtf(b) /\ poll[b].times <= MaxTimes /\ posts[b] = poll[b].times
          /\ answered[b] <=> poll[b].free_flag # 0
      BY <1>3, <3>1, EntryRecord
    <3>5. RecordRules(b)'
      BY <2>1, <3>1, <3>3, <3>4
      DEF Record, RecordRules, KindOfType, Unposted, GoneIsReply, Counted,
          OutIsPosted, InFlight, IsNtf, IsHeld, Linked, At
    <3>6. Passed'
      BY <2>1, <2>next, <3>1, <3>4 DEF Record, Passed
    <3> QED BY <1>3, <3>1, <3>2, <3>5, <3>6, EntryKeeps
  <2>13. CASE PollTimeout
    <3>1. /\ pollPc = "visit" /\ poll' = [poll EXCEPT ![b].delay = 0, ![b].times = @ + 1]
          /\ pollPc' = "post" /\ poll[b].type = 1 /\ poll[b].times # 0 /\ ~LastTry(b)
          /\ UNCHANGED <<free, frame, sendList, cursor, mbx, sendBuf, held, uart_send_sn, history>>
      BY <2>13 DEF PollTimeout, Waiting
    <3>2. /\ \A c \in Buf : c # b => poll'[c] = poll[c]
          /\ poll'[b] = [poll[b] EXCEPT !.delay = 0, !.times = @ + 1]
      BY <2>3, <3>1
    <3>3. /\ poll'[b].type = poll[b].type /\ poll'[b].free_flag = poll[b].free_flag
          /\ poll'[b].times = poll[b].times + 1
      BY <2>1, <3>2 DEF PollFields
    <3>4. /\ IsNtf(b) /\ posts[b] = poll[b].times
          /\ answered[b] <=> poll[b].free_flag # 0
      BY <1>3, <3>1, EntryRecord
    <3>5. poll'[b].times <= MaxTimes /\ posts[b] = poll'[b].times - 1
      BY <2>1, <3>1, <3>3, <3>4, BoundsAssumption DEF LastTry
    <3>6. RecordRules(b)'
      BY <2>1, <3>1, <3>3, <3>4, <3>5
      DEF Record, RecordRules, KindOfType, Unposted, GoneIsReply, Counted,
          OutIsPosted, InFlight, IsNtf, IsHeld, Linked, At
    <3>7. Passed'
      BY <3>1 DEF Record, Passed
    <3> QED BY <1>3, <3>1, <3>2, <3>6, <3>7, EntryKeeps
  <2>14. CASE PollPost
    <3>1. /\ pollPc = "post" /\ Post(b) /\ pollPc' = "visit" /\ cursor' = cursor + 1
          /\ UNCHANGED <<free, poll, frame, sendList, sendBuf, held, uart_send_sn>>
      BY <2>14 DEF PollPost
    <3>2. poll[b].type = 1
      BY <3>1 DEF Discipline, AtCursor
    <3>3. /\ IsNtf(b) /\ poll[b].times <= MaxTimes /\ posts[b] = poll[b].times - 1
          /\ answered[b] <=> poll[b].free_flag # 0
      BY <1>3, <3>1, <3>2, EntryRecord
    <3>4. RecordRules(b)'
      BY <2>1, <2>4, <3>1, <3>2, <3>3
      DEF RecordRules, KindOfType, Unposted, GoneIsReply, Counted,
          OutIsPosted, IsNtf, IsHeld, Linked, At
    <3>5. Passed'
      BY <2>1, <2>2, <2>next, <2>4, <3>1, <3>3 DEF Record, Passed
    <3> QED BY <1>3, <2>4, <3>1, <3>4, <3>5, EntryKeeps
  <2> QED BY <1>3, <2>6, <2>7, <2>8, <2>9, <2>10, <2>11, <2>12, <2>13, <2>14
<1>4. ASSUME \/ PollReply \/ PollPostUnlink \/ PollFirst \/ PollCount
             \/ PollAnswered \/ PollWait \/ PollTimeout \/ PollPost \/ PollGiveUp
      PROVE  cursor \in DOMAIN sendList
  <2>1. CASE PollPostUnlink \/ PollCount \/ PollPost
    BY <2>1 DEF PollPostUnlink, PollCount, PollPost, TypeOK
  <2>2. ASSUME NEW type, Visiting(type) PROVE cursor \in DOMAIN sendList
    BY <2>2 DEF Visiting, TypeOK
  <2> QED
    BY <1>4, <2>1, <2>2
    DEF PollReply, PollFirst, PollAnswered, PollWait, PollTimeout, PollGiveUp, Waiting
<1> QED BY <1>1, <1>2, <1>3, <1>4 DEF PollTask

-----------------------------------------------------------------------------
\* The steps of uart_send_tsk keep Record.
LEMMA SendRecord == Discipline /\ TypeOK /\ Record /\ SendTask => Record'
<1> SUFFICES ASSUME Discipline, TypeOK, Record, SendTask PROVE Record'
  OBVIOUS
<1> USE DEF pollVars, recvVars, history
<1>1. CASE SendPend
  <2>1. /\ sendBuf' = Head(mbx) /\ mbx' = Tail(mbx) /\ mbx # <<>> /\ mbx \in Seq(Buf)
        /\ IsInjective(mbx)
    BY <1>1 DEF SendPend, TypeOK, Discipline, Queues
  <2>2. sendBuf' \in ToSet(mbx) /\ ToSet(mbx') \subseteq ToSet(mbx)
    BY <2>1, TailSet
  <2>3. Passed'
    BY <1>1 DEF SendPend, Record, Passed
  <2> QED BY <1>1, <2>2, <2>3, IdleRecord DEF SendPend
<1>2. CASE SendWrite
  <2> PICK b \in Buf : b = sendBuf
    BY <1>2 DEF SendWrite, TypeOK
  <2>1. heard' = heard \/ (IsNtf(b) /\ heard' = heard \cup {b})
    BY <1>2 DEF SendWrite, IsNtf
  <2>2. UNCHANGED <<free, poll, frame, sendList, mbx, pollPc, cursor, sendBuf, held,
                    uart_send_sn, posts, answered>>
    BY <1>2 DEF SendWrite
  <2>3. \A c \in Buf : c # b => Kept(c)
    BY <2>1, <2>2 DEF Kept
  <2>4. posts[b] > 0
    BY DEF Record, RecordRules, OutIsPosted, InFlight
  <2>5. RecordRules(b)'
    BY <2>1, <2>2, <2>4
    DEF Record, RecordRules, KindOfType, Unposted, GoneIsReply, Counted, OutIsPosted,
        IsNtf, IsHeld, Linked, InFlight, At
  <2>6. Numbers' /\ Passed'
    BY <2>2, NumbersKept DEF Record, Passed
  <2> QED BY <2>3, <2>5, <2>6, RecordKept
<1>3. CASE SendCheck
  <2> PICK b \in Buf : b = sendBuf
    BY <1>3 DEF SendCheck, TypeOK
  <2>1. InFlight(b) /\ b \notin ToSet(mbx) /\ b # NoBuf
    BY DEF InFlight, Discipline, Queues, Buf, NoBuf
  <2>2. b \notin ToSet(free) /\ ~IsHeld(b)
    BY <2>1 DEF Discipline, BufferRules, IdleClean
  <2>3. /\ UNCHANGED <<sendList, mbx, pollPc, cursor, held, frame, uart_send_sn, history>>
        /\ sendBuf' = NoBuf
    BY <1>3 DEF SendCheck
  <2>4. CASE poll[b].free_flag # 0
    <3>1. b \notin Linked
      BY <2>1, <2>4
      DEF Discipline, BufferRules, TypeSet, LinkedReply, LinkedNtf
    <3>2. poll' = [poll EXCEPT ![b] = ZeroPoll] /\ free' = Append(free, b)
      BY <1>3, <2>2, <2>4 DEF SendCheck, Recycle
    <3>3. /\ ToSet(free') = ToSet(free) \cup {b}
          /\ \A c \in Buf : c # b => poll'[c] = poll[c]
      BY <3>2, AppendSet DEF TypeOK
    <3>4. \A c \in Buf : c # b => Kept(c)
      BY <2>3, <3>3 DEF Kept, Buf, NoBuf
    <3>5. RecordRules(b)'
      BY <2>1, <2>2, <2>3, <3>1, <3>3
      DEF Record, RecordRules, KindOfType, Unposted, GoneIsReply, Counted, OutIsPosted,
          IsNtf, IsHeld, Linked, InFlight
    <3>6. Numbers'
      BY <2>3, <3>3, NumbersKept DEF Record
    <3>7. Passed'
      <4>1. pollPc = "count" => sendList[cursor] \in Buf /\ sendList[cursor] # b
        <5>1. pollPc = "count" => cursor \in DOMAIN sendList
          BY DEF TypeOK
        <5> QED BY <5>1, <3>1, AtEntry
      <4> QED BY <2>3, <3>3, <4>1 DEF Record, Passed
    <3> QED BY <3>4, <3>5, <3>6, <3>7, RecordKept
  <2>5. CASE poll[b].free_flag = 0
    <3>1. UNCHANGED <<poll, free>>
      BY <1>3, <2>5 DEF SendCheck
    <3>2. Passed'
      BY <2>3, <3>1 DEF Record, Passed
    <3> QED BY <2>3, <3>1, <3>2, IdleRecord DEF Buf, NoBuf
  <2> QED BY <2>4, <2>5
<1> QED BY <1>1, <1>2, <1>3 DEF SendTask

\* Every step keeps Record, under the timing assumptions and when an upload that is
\* handled has no number of a waiting notification.
LEMMA RecordNext ==
    Timely /\ TypeOK /\ Discipline /\ UploadsApart /\ Record /\ [Next]_vars => Record'
<1> SUFFICES ASSUME Timely, TypeOK, Discipline, UploadsApart, Record, [Next]_vars PROVE Record'
  OBVIOUS
<1>1. ASSUME UNCHANGED <<free, poll, frame, sendList, mbx, pollVars, sendVars, held, uart_send_sn, history>>
      PROVE  Record'
  <2>1. Passed'
    BY <1>1 DEF Record, Passed, pollVars, history
  <2> QED BY <1>1, <2>1, IdleRecord DEF sendVars
<1>2. ASSUME NEW t \in Threads, BufFactoryCrash(t) PROVE Record'
  BY <1>1, <1>2 DEF BufFactoryCrash
<1>3. ASSUME NEW t \in Threads, NEW type \in {0, 1}, DisposeFill(t, type) PROVE Record'
  <2> DEFINE f == [kind |-> IF type = 1 THEN "ntf" ELSE "reply", sn |-> uart_send_sn]
  <2>1. uart_send_sn \in 0 .. SnMod - 1
    BY DEF Record, Numbers
  <2>2. f \in SentFrames /\ (type = 1 <=> f.kind = "ntf") /\ f.sn = uart_send_sn
    BY <2>1 DEF SentFrames
  <2>3. \A c \in Buf : ~NtfWaits(c, f.sn)
    BY <1>3 DEF DisposeFill, TimelyRefill
  <2>4. uart_send_sn' \in 0 .. SnMod - 1
    <3>1. uart_send_sn' = (uart_send_sn + 1) % SnMod
      BY <1>3 DEF DisposeFill
    <3>2. SnMod \in Nat \ {0}
      BY BoundsAssumption
    <3> QED BY <2>1, <3>1, <3>2
  <2>5. Produce(t, f, type) /\ held[t] = NoBuf /\ UNCHANGED <<status, sendList, mbx, pollVars, sendVars>>
    BY <1>3 DEF DisposeFill
  <2> HIDE DEF f
  <2> QED BY <2>2, <2>3, <2>4, <2>5, ProduceRecord
<1>4. ASSUME NEW t \in Threads, Link(t) PROVE Record'
  BY <1>4, LinkRecord
<1>5. ASSUME NEW sn \in PeerSn, RecvCommand(sn) PROVE Record'
  <2> DEFINE f == [kind |-> "reply", sn |-> sn]
  <2>1. f \in SentFrames /\ f.kind = "reply"
    BY DEF SentFrames
  <2>2. uart_send_sn' \in 0 .. SnMod - 1 /\ Recv \in Threads
    BY <1>5 DEF RecvCommand, Record, Numbers, Threads
  <2>3. Produce(Recv, f, 0) /\ held[Recv] = NoBuf /\ UNCHANGED <<status, sendList, mbx, pollVars, sendVars>>
    BY <1>5 DEF RecvCommand
  <2> HIDE DEF f
  <2> QED BY <2>1, <2>2, <2>3, ProduceRecord
<1>6. ASSUME NEW b \in Buf, RecvResponse(b) PROVE Record'
  <2>1. b \in heard /\ TimelyAnswer(b) /\ IsNtf(b)
    BY <1>6 DEF RecvResponse, Record, RecordRules, OutIsPosted
  <2>2. \A c \in Buf : c \in Linked /\ frame[c].sn = frame[b].sn => (IsNtf(c) <=> c = b)
    BY <2>1, MarkedIsOwn
  <2>3. /\ Mark(frame[b].sn, b)
        /\ UNCHANGED <<free, frame, sendList, mbx, pollVars, sendVars, held,
                       uart_send_sn, posts, heard>>
    BY <1>6 DEF RecvResponse
  <2> QED BY <2>2, <2>3, MarkRecord
<1>7. ASSUME NEW sn \in UploadSn, RecvUpload(sn) PROVE Record'
  BY <1>1, <1>7 DEF RecvUpload
<1>8. CASE RecvUploadMark
  <2>1. ASSUME NEW c \in Buf, c \in Linked, frame[c].sn = recvSn PROVE ~IsNtf(c) /\ c # NoBuf
    <3>1. ~NtfWaits(c, recvSn)
      BY <1>8 DEF UploadsApart, RecvUploadMark
    <3>2. c \notin ToSet(free)
      BY <2>1 DEF Discipline, BufferRules, IdleClean
    <3> QED BY <2>1, <3>1, <3>2 DEF NtfWaits, IsNtf, Buf, NoBuf
  <2>2. /\ Mark(recvSn, NoBuf)
        /\ UNCHANGED <<free, frame, sendList, mbx, pollVars, sendVars, held,
                       uart_send_sn, posts, heard>>
    BY <1>8 DEF RecvUploadMark
  <2> QED BY <2>1, <2>2, MarkRecord
<1>9. CASE UNCHANGED vars
  BY <1>1, <1>9 DEF vars
<1> QED
  BY <1>2, <1>3, <1>4, <1>5, <1>6, <1>7, <1>8, <1>9, PollRecord, SendRecord
  DEF Next, Halted

\* The record is true as long as the uploads keep apart.
LEMMA RecordHolds ==
    ASSUME Timely, CleanPoll
    PROVE  Spec /\ []UploadsApart => []Record
<1>1. TypeOK /\ Discipline /\ UploadsApart /\ Record /\ [Next]_vars => Record'
  BY RecordNext
<1> QED BY <1>1, RecordInit, TypeCorrect, DisciplineHolds, PTL DEF Spec

-----------------------------------------------------------------------------
(* What Record says of the flags and of a notification's end.                *)

\* A flag on a linked notification means that the peer has answered it, and the
\* branch for replies posts no notification: as the finding runs FlagMeansAnswered
\* and RepliesOnly show, neither is true without the hypotheses.
THEOREM FlagsHold ==
    ASSUME Timely, CleanPoll
    PROVE  Spec /\ []UploadsApart => [](FlagMeansAnswered /\ RepliesOnly)
<1>1. TypeOK /\ Discipline /\ Record => FlagMeansAnswered
  <2> SUFFICES ASSUME TypeOK, Discipline, Record, NEW b \in Linked,
                      frame[b].kind = "ntf", poll[b].free_flag # 0
               PROVE  answered[b]
    BY DEF FlagMeansAnswered
  <2>1. b \in Buf
    BY ToSetElements DEF TypeOK, Linked
  <2> QED BY <2>1 DEF Record, RecordRules, Counted, IsNtf
<1>2. TypeOK /\ Discipline /\ Record => RepliesOnly
  <2> SUFFICES ASSUME TypeOK, Discipline, Record, pollPc = "post_unlink"
               PROVE  frame[sendList[cursor]].kind = "reply"
    BY DEF RepliesOnly
  <2>1. cursor \in DOMAIN sendList
    BY DEF TypeOK
  <2> PICK b \in Buf : b = sendList[cursor]
    BY <2>1, AtEntry
  <2>2. ~IsNtf(b)
    BY <2>1, EntryRecord DEF Discipline, AtCursor
  <2>3. frame[b].kind \in {"ntf", "reply"}
    BY DEF Record, Numbers, SentFrames
  <2> QED BY <2>2, <2>3 DEF IsNtf
<1> QED BY <1>1, <1>2, TypeCorrect, DisciplineHolds, RecordHolds, PTL

\* A step that takes an entry out of the list is the one of uart_poll_tsk that
\* posts a reply, sees an answer or gives up.
LEMMA WhoUnlinks ==
    ASSUME TypeOK, [Next]_vars, NEW b \in Buf, b \in Linked, b \notin Linked'
    PROVE  /\ cursor \in DOMAIN sendList /\ b = sendList[cursor]
           /\ PollPostUnlink \/ PollAnswered \/ PollGiveUp
<1> USE DEF Linked
<1>1. sendList' # sendList
  OBVIOUS
<1>2. ASSUME NEW t \in Threads PROVE ~Link(t)
  <2>1. ASSUME Link(t) PROVE FALSE
    <3>1. sendList' = Append(sendList, held[t]) /\ held[t] \in Buf /\ sendList \in Seq(Buf)
      BY <1>1, <2>1 DEF Link, TypeOK
    <3> QED BY <3>1, AppendSet
  <2> QED BY <2>1
<1>3. PollPostUnlink \/ PollAnswered \/ PollGiveUp
  BY <1>1, <1>2
  DEF Next, vars, BufFactoryCrash, DisposeFill, RecvCommand, RecvResponse, RecvUpload,
      RecvUploadMark, PollTask, PollBegin, PollEnd, PollReply, PollFirst, PollCount,
      PollWait, PollTimeout, PollPost, SendTask, SendPend, SendWrite, SendCheck, Halted
<1>4. cursor \in DOMAIN sendList /\ sendList' = RemoveAt(sendList, cursor)
  BY <1>3 DEF PollPostUnlink, PollAnswered, PollGiveUp, Waiting, Visiting, Release, TypeOK
<1>5. b = sendList[cursor]
  <2>1. sendList \in Seq(Buf) /\ cursor \in 1 .. Len(sendList)
    BY <1>4 DEF TypeOK
  <2>2. \A i \in 1 .. Len(sendList) - 1 :
           sendList'[i] = IF i < cursor THEN sendList[i] ELSE sendList[i + 1]
    BY <1>4, <2>1, RemoveAtItems
  <2>3. sendList' \in Seq(Buf) /\ Len(sendList') = Len(sendList) - 1
    BY <1>4, <2>1, RemoveAtItems
  <2>4. PICK i \in 1 .. Len(sendList) : sendList[i] = b
    BY <2>1, ToSetElements
  <2>5. \A j \in 1 .. Len(sendList') : sendList'[j] # b
    BY <2>3, ToSetElements
  <2>6. ~(i < cursor)
    BY <2>1, <2>2, <2>3, <2>4, <2>5
  <2>7. ~(i > cursor)
    <3>1. ASSUME i > cursor PROVE FALSE
      <4>1. i - 1 \in 1 .. Len(sendList) - 1 /\ ~(i - 1 < cursor) /\ i - 1 + 1 = i
        BY <2>1, <3>1
      <4>2. sendList'[i - 1] = b
        BY <2>2, <2>4, <4>1
      <4> QED BY <2>3, <2>5, <4>1, <4>2
    <3> QED BY <3>1
  <2> QED BY <2>1, <2>4, <2>6, <2>7
<1> QED BY <1>3, <1>4, <1>5

\* A notification leaves the list when it is answered, or after MaxTimes posts.
LEMMA FateStep ==
    TypeOK /\ Discipline /\ Record /\ [Next]_vars =>
       \A b \in Buf :
          b \in Linked /\ b \notin Linked' /\ frame[b].kind = "ntf" =>
             answered[b] \/ posts[b] = MaxTimes
<1> SUFFICES ASSUME TypeOK, Discipline, Record, [Next]_vars,
                    NEW b \in Buf, b \in Linked, b \notin Linked', frame[b].kind = "ntf"
             PROVE  answered[b] \/ posts[b] = MaxTimes
  OBVIOUS
<1>1. cursor \in DOMAIN sendList /\ b = sendList[cursor]
  BY WhoUnlinks
<1>2. IsNtf(b) /\ poll[b].type = 1
  BY <1>1, EntryRecord DEF IsNtf
<1>3. CASE PollPostUnlink
  BY <1>1, <1>2, <1>3 DEF PollPostUnlink, Discipline, AtCursor
<1>4. CASE PollAnswered
  BY <1>1, <1>2, <1>4, EntryRecord DEF PollAnswered
<1>5. CASE PollGiveUp
  <2>1. pollPc = "visit" /\ LastTry(b)
    BY <1>1, <1>5 DEF PollGiveUp, Waiting, Visiting
  <2>2. poll[b].times \in Nat /\ poll[b].times <= MaxTimes /\ posts[b] = poll[b].times
    BY <1>1, <1>2, <2>1, EntryRecord
  <2> QED BY <2>1, <2>2, BoundsAssumption DEF LastTry
<1> QED BY <1>3, <1>4, <1>5, WhoUnlinks

\* No notification is dropped before its answer or its last try, and none is
\* posted more often than MaxTimes.
THEOREM NtfFateHolds ==
    ASSUME Timely, CleanPoll
    PROVE  Spec /\ []UploadsApart => NtfFate
<1>1. TypeOK /\ Discipline /\ Record /\ [Next]_vars =>
         [\A b \in Buf :
             b \in Linked /\ b \notin Linked' /\ frame[b].kind = "ntf" =>
                answered[b] \/ posts[b] = MaxTimes]_vars
  BY FateStep
<1> QED BY <1>1, TypeCorrect, DisciplineHolds, RecordHolds, PTL DEF Spec, NtfFate

-----------------------------------------------------------------------------
(* The mapping of the list and the mailbox to the queue and the line.        *)

WaitsOf == [b \in Buf |-> Waits(b)]
OnWayOf == [b \in Buf |-> OnItsWay(b)]

\* The queue and the line of Delivery are what the buffers of the list and of the
\* mailbox stand for, before and after a step.
LEMMA QueueMapped ==
    ASSUME TypeOK, TypeOK'
    PROVE  /\ QueueOfList = Mapped(sendList, WaitsOf)
           /\ QueueOfList' = Mapped(sendList', WaitsOf')
           /\ sendList \in Seq(Buf) /\ sendList' \in Seq(Buf)
<1>1. sendList \in Seq(Buf) /\ sendList' \in Seq(Buf)
  BY DEF TypeOK
<1>2. /\ \A i \in DOMAIN sendList : sendList[i] \in Buf
      /\ \A i \in DOMAIN sendList' : sendList'[i] \in Buf
  BY <1>1
<1> QED BY <1>1, <1>2 DEF QueueOfList, Mapped, WaitsOf

\* The line of Delivery is the outgoing queue with what its entries stand for.
LEMMA LineMapped ==
    ASSUME TypeOK, TypeOK'
    PROVE  /\ LineOfMailbox = Mapped(Outgoing, OnWayOf)
           /\ LineOfMailbox' = Mapped(Outgoing', OnWayOf')
           /\ Outgoing \in Seq(Buf) /\ Outgoing' \in Seq(Buf)
<1>1. /\ mbx \in Seq(Buf) /\ (sendBuf \in Buf \/ sendBuf = NoBuf)
      /\ mbx' \in Seq(Buf) /\ (sendBuf' \in Buf \/ sendBuf' = NoBuf)
  BY DEF TypeOK
<1>2. ASSUME NEW s \in Seq(Buf), NEW b \in Buf PROVE <<b>> \o s \in Seq(Buf)
  BY ConcatProperties
<1>3. Outgoing \in Seq(Buf) /\ Outgoing' \in Seq(Buf)
  BY <1>1, <1>2 DEF Outgoing
<1>4. /\ \A i \in DOMAIN Outgoing : Outgoing[i] \in Buf
      /\ \A i \in DOMAIN Outgoing' : Outgoing'[i] \in Buf
  BY <1>3
<1> QED BY <1>3, <1>4 DEF LineOfMailbox, Mapped, OnWayOf

\* What is outgoing is in the mailbox or being written.
LEMMA OutgoingSet ==
    ASSUME TypeOK, TypeOK', NEW b \in ToSet(Outgoing)
    PROVE  b \in Buf /\ InFlight(b)
<1>1. mbx \in Seq(Buf) /\ Outgoing \in Seq(Buf) /\ (sendBuf \in Buf \/ sendBuf = NoBuf)
  BY LineMapped DEF TypeOK
<1>2. CASE sendBuf = NoBuf
  BY <1>1, <1>2, ToSetElements DEF Outgoing, InFlight
<1>3. CASE sendBuf \in Buf
  <2>1. Outgoing = <<sendBuf>> \o mbx \/ sendBuf = NoBuf
    BY DEF Outgoing
  <2>2. PICK i \in 1 .. Len(Outgoing) : Outgoing[i] = b
    BY <1>1, ToSetElements
  <2>3. CASE Outgoing = <<sendBuf>> \o mbx
    <3>1. b = sendBuf \/ \E j \in 1 .. Len(mbx) : mbx[j] = b
      BY <1>1, <1>3, <2>2, <2>3
    <3> QED BY <1>1, <2>2, <3>1, ToSetElements DEF InFlight
  <2> QED BY <1>2, <2>1, <2>3
<1> QED BY <1>1, <1>2, <1>3

\* The queue is the same when the list is, and the frames and the history of its
\* entries are.
LEMMA SameQueue ==
    ASSUME sendList' = sendList,
           \A b \in Linked : /\ frame'[b] = frame[b] /\ posts'[b] = posts[b]
                             /\ answered'[b] = answered[b]
    PROVE  QueueOfList' = QueueOfList
<1>1. \A i \in DOMAIN sendList : sendList[i] \in Linked
  BY DEF Linked, ToSet
<1> QED BY <1>1 DEF QueueOfList, Waits

\* It stays the same if queue and frames do.
LEMMA SameLine ==
    ASSUME TypeOK, TypeOK', Outgoing' = Outgoing,
           \A b \in Buf : InFlight(b) => frame'[b] = frame[b]
    PROVE  LineOfMailbox' = LineOfMailbox
<1>1. \A i \in DOMAIN Outgoing : Outgoing[i] \in ToSet(Outgoing)
  BY DEF ToSet
<1>2. \A i \in DOMAIN Outgoing : frame'[Outgoing[i]] = frame[Outgoing[i]]
  BY <1>1, OutgoingSet
<1> QED BY <1>2 DEF LineOfMailbox, OnItsWay

\* mailbox_post puts b behind all that is outgoing.
LEMMA PostedLine ==
    ASSUME TypeOK, TypeOK', NEW b \in Buf, mbx' = Append(mbx, b), UNCHANGED <<sendBuf, frame>>
    PROVE  LineOfMailbox' = Append(LineOfMailbox, OnItsWay(b))
<1>1. Outgoing' = Append(Outgoing, b)
  <2>1. mbx \in Seq(Buf) /\ (sendBuf \in Buf \/ sendBuf = NoBuf)
    BY DEF TypeOK
  <2>2. CASE sendBuf = NoBuf
    BY <2>2 DEF Outgoing
  <2>3. CASE sendBuf \in Buf
    <3>1. <<sendBuf>> \o Append(mbx, b) = Append(<<sendBuf>> \o mbx, b)
      BY <2>1, <2>3
    <3> QED BY <2>2, <3>1 DEF Outgoing
  <2> QED BY <2>1, <2>2, <2>3
<1>2. OnWayOf' = OnWayOf
  BY DEF OnWayOf, OnItsWay
<1>3. Mapped(Append(Outgoing, b), OnWayOf) = Append(Mapped(Outgoing, OnWayOf), OnWayOf[b])
  BY LineMapped, MappedAppend
<1>4. OnWayOf[b] = OnItsWay(b)
  BY DEF OnWayOf
<1> QED BY <1>1, <1>2, <1>3, <1>4, LineMapped

\* A step that Delivery does not see.
LEMMA Unseen ==
    ASSUME TypeOK, TypeOK', UNCHANGED <<sendList, mbx, sendBuf, frame, posts, answered>>
    PROVE  UNCHANGED <<QueueOfList, LineOfMailbox>>
<1>1. Outgoing' = Outgoing
  BY DEF Outgoing
<1> QED BY <1>1, SameQueue, SameLine

-----------------------------------------------------------------------------
(* Every step is one of Delivery, or none that it sees.                      *)

DeliveryStep == [Delivery!Next]_<<QueueOfList, LineOfMailbox>>

\* Assigning a field of an entry of the queue.
LEMMA EntryUpdate ==
    ASSUME TypeOK, NEW b \in Buf, NEW m \in Nat, NEW v \in BOOLEAN
    PROVE  /\ [Waits(b) EXCEPT !.answered = v]
                 = [slot |-> b, frame |-> frame[b], tries |-> posts[b], answered |-> v]
           /\ [Waits(b) EXCEPT !.tries = m]
                 = [slot |-> b, frame |-> frame[b], tries |-> m, answered |-> answered[b]]
<1> PICK f \in Frames, n \in Nat, a \in BOOLEAN : f = frame[b] /\ n = posts[b] /\ a = answered[b]
  BY DEF TypeOK
<1> DEFINE E == [slot : Buf, frame : Frames, tries : Nat, answered : BOOLEAN]
           e == Waits(b)
           x == [slot |-> b, frame |-> f, tries |-> n, answered |-> v]
           y == [slot |-> b, frame |-> f, tries |-> m, answered |-> a]
           ex == [e EXCEPT !.answered = v]
           ey == [e EXCEPT !.tries = m]
<1>1. e \in E /\ x \in E /\ y \in E
  BY DEF Waits
<1>2. e.slot = b /\ e.frame = f /\ e.tries = n /\ e.answered = a
  BY DEF Waits
<1>3. /\ x.slot = b /\ x.frame = f /\ x.tries = n /\ x.answered = v
      /\ y.slot = b /\ y.frame = f /\ y.tries = m /\ y.answered = a
  OBVIOUS
<1> HIDE DEF e
<1>4. ex \in E /\ ey \in E
  BY <1>1
<1>5. /\ ex.slot = b /\ ex.frame = f /\ ex.tries = n /\ ex.answered = v
      /\ ey.slot = b /\ ey.frame = f /\ ey.tries = m /\ ey.answered = a
  BY <1>1, <1>2
<1> HIDE DEF x, y, ex, ey
<1>6. ex = x /\ ey = y
  BY <1>1, <1>3, <1>4, <1>5
<1> QED BY <1>6 DEF e, x, y, ex, ey

\* The initial list and mailbox are the empty queue and line.
LEMMA DeliveryInit == Init => Delivery!Init
<1> SUFFICES ASSUME Init PROVE QueueOfList = <<>> /\ LineOfMailbox = <<>>
  BY DEF Delivery!Init
<1>1. sendList = <<>> /\ Outgoing = <<>>
  BY DEF Init, Outgoing
<1> QED BY <1>1 DEF QueueOfList, LineOfMailbox

\* Filling a free buffer is not seen: it is neither listed nor outgoing.
LEMMA ProduceUnseen ==
    ASSUME TypeOK, TypeOK', Discipline, NEW t, NEW f, NEW type, Produce(t, f, type),
           UNCHANGED <<sendList, mbx, sendVars>>
    PROVE  UNCHANGED <<QueueOfList, LineOfMailbox>>
<1> PICK b \in Buf : b = Head(free)
  BY TailSet DEF Produce, TypeOK
<1>1. b \in ToSet(free)
  BY TailSet DEF Produce, TypeOK
<1>2. b \notin Linked /\ ~InFlight(b)
  BY <1>1 DEF Discipline, BufferRules, IdleClean
<1>3. \A c : c # b => frame'[c] = frame[c] /\ posts'[c] = posts[c] /\ answered'[c] = answered[c]
  <2>1. TAKE c
  <2>2. HAVE c # b
  <2>3. DOMAIN frame = Buf /\ DOMAIN posts = Buf /\ DOMAIN answered = Buf
    BY DEF TypeOK
  <2> QED BY <2>2, <2>3 DEF Produce
<1>4. Outgoing' = Outgoing
  BY DEF Outgoing, sendVars
<1>5. QueueOfList' = QueueOfList
  BY <1>2, <1>3, SameQueue
<1>6. LineOfMailbox' = LineOfMailbox
  BY <1>2, <1>3, <1>4, SameLine
<1> QED BY <1>5, <1>6

\* list_add_tail submits the frame.
LEMMA LinkSubmits ==
    ASSUME TypeOK, TypeOK', Discipline, Record, NEW t \in Threads, Link(t)
    PROVE  DeliveryStep
<1> PICK b \in Buf : b = held[t]
  BY DEF Link, TypeOK
<1>1. b # NoBuf /\ IsHeld(b)
  BY DEF Buf, NoBuf, IsHeld
<1>2. b \notin Linked /\ ~InFlight(b) /\ posts[b] = 0 /\ answered[b] = FALSE
  BY <1>1 DEF Discipline, BufferRules, IdleClean, Record, RecordRules, Unposted, TypeOK
<1>3. /\ sendList' = Append(sendList, b)
      /\ UNCHANGED <<frame, mbx, sendBuf, posts, answered>>
  BY <1>2 DEF Link, sendVars, history
<1>4. LineOfMailbox' = LineOfMailbox
  BY <1>3, SameLine DEF Outgoing
<1>5. WaitsOf' = WaitsOf
  BY <1>3 DEF WaitsOf, Waits
<1>6. QueueOfList' = Append(QueueOfList, Waits(b))
  <2>1. Mapped(Append(sendList, b), WaitsOf) = Append(Mapped(sendList, WaitsOf), WaitsOf[b])
    BY QueueMapped, MappedAppend
  <2>2. WaitsOf[b] = Waits(b)
    BY DEF WaitsOf
  <2> QED BY <1>3, <1>5, <2>1, <2>2, QueueMapped
<1>7. \A i \in DOMAIN QueueOfList : QueueOfList[i].slot # b
  <2>1. \A i \in DOMAIN sendList : sendList[i] # b
    BY <1>2 DEF Linked, ToSet
  <2> QED BY <2>1 DEF QueueOfList, Waits
<1>8. \A i \in DOMAIN LineOfMailbox : LineOfMailbox[i].slot # b
  <2>1. \A i \in DOMAIN Outgoing : Outgoing[i] # b
    <3>1. \A i \in DOMAIN Outgoing : Outgoing[i] \in ToSet(Outgoing)
      BY DEF ToSet
    <3> QED BY <1>2, <3>1, OutgoingSet
  <2> QED BY <2>1 DEF LineOfMailbox, OnItsWay
<1>9. Delivery!Submit(b, frame[b])
  BY <1>2, <1>4, <1>6, <1>7, <1>8 DEF Delivery!Submit, Delivery!Unused, Waits
<1>10. frame[b] \in SentFrames
  BY DEF Record, Numbers
<1> QED BY <1>9, <1>10 DEF DeliveryStep, Delivery!Next

\* Marking is seen when the entry is the notification that is answered.
LEMMA MarkSees ==
    ASSUME TypeOK, TypeOK', Discipline, NEW sn, NEW own, Mark(sn, own),
           own \in Buf => IsNtf(own) /\ posts[own] > 0,
           UNCHANGED <<frame, sendList, mbx, sendVars, posts>>
    PROVE  DeliveryStep
<1> USE DEF sendVars
<1>1. CASE UNCHANGED answered
  BY <1>1, Unseen DEF DeliveryStep
<1>2. ASSUME NEW i \in DOMAIN sendList,
             answered' = [answered EXCEPT ![sendList[i]] = @ \/ sendList[i] = own]
      PROVE  DeliveryStep
  <2> PICK b \in Buf : b = sendList[i]
    BY DEF TypeOK
  <2>1. answered' = [answered EXCEPT ![b] = answered[b] \/ b = own] /\ answered \in [Buf -> BOOLEAN]
    BY <1>2 DEF TypeOK
  <2>2. CASE b # own
    <3>1. UNCHANGED answered
      BY <2>1, <2>2
    <3> QED BY <3>1, <1>1
  <2>3. CASE b = own
    <3>1. LineOfMailbox' = LineOfMailbox
      BY SameLine DEF Outgoing
    <3>2. \A c \in Buf \ {b} : WaitsOf[c] = WaitsOf'[c]
      BY <2>1 DEF WaitsOf, Waits
    <3>3. sendList \in Seq(Buf) /\ IsInjective(sendList) /\ i \in 1 .. Len(sendList)
      BY DEF TypeOK, Discipline, Queues
    <3>4. QueueOfList' = [QueueOfList EXCEPT ![i] = WaitsOf'[b]]
      BY <3>2, <3>3, MappedUpdate, QueueMapped
    <3>5. i \in DOMAIN QueueOfList /\ QueueOfList[i] = Waits(b)
      BY DEF QueueOfList
    <3>6. WaitsOf'[b] = [Waits(b) EXCEPT !.answered = TRUE]
      <4>1. answered'[b] = TRUE /\ frame'[b] = frame[b] /\ posts'[b] = posts[b]
        BY <2>1, <2>3
      <4>2. WaitsOf'[b] = [slot |-> b, frame |-> frame'[b], tries |-> posts'[b], answered |-> answered'[b]]
        BY DEF WaitsOf, Waits
      <4> PICK v \in BOOLEAN : v = TRUE
        OBVIOUS
      <4>4. [Waits(b) EXCEPT !.answered = v]
               = [slot |-> b, frame |-> frame[b], tries |-> posts[b], answered |-> v]
        BY EntryUpdate
      <4>5. [Waits(b) EXCEPT !.answered = TRUE]
               = [slot |-> b, frame |-> frame[b], tries |-> posts[b], answered |-> TRUE]
        BY <4>4, Zenon
      <4> QED BY <4>1, <4>2, <4>5
    <3>7. Delivery!SeeAnswer(i)
      BY <2>3, <3>1, <3>4, <3>5, <3>6 DEF Delivery!SeeAnswer, Waits, IsNtf
    <3> QED BY <3>5, <3>7 DEF DeliveryStep, Delivery!Next
  <2> QED BY <2>2, <2>3
<1> QED BY <1>1, <1>2 DEF Mark

\* A queue whose entry at the cursor leaves.
LEMMA QueueWithout ==
    ASSUME TypeOK, TypeOK', Discipline, cursor \in DOMAIN sendList,
           NEW b \in Buf, b = sendList[cursor], sendList' = RemoveAt(sendList, cursor),
           \A c \in Buf : c # b => posts'[c] = posts[c], UNCHANGED <<frame, answered>>
    PROVE  QueueOfList' = RemoveAt(QueueOfList, cursor)
<1>1. sendList \in Seq(Buf) /\ cursor \in 1 .. Len(sendList)
  BY DEF TypeOK
<1>2. /\ RemoveAt(sendList, cursor) \in Seq(Buf)
      /\ ToSet(RemoveAt(sendList, cursor)) = Linked \ {b}
  BY <1>1, RemoveAtSet, BeforeCursor
<1>3. \A c \in ToSet(RemoveAt(sendList, cursor)) : WaitsOf'[c] = WaitsOf[c]
  <2>1. ASSUME NEW c \in ToSet(RemoveAt(sendList, cursor)) PROVE WaitsOf'[c] = WaitsOf[c]
    <3>1. c \in Buf /\ c # b
      BY <1>1, <1>2, ToSetElements DEF Linked
    <3> QED BY <3>1 DEF WaitsOf, Waits
  <2> QED BY <2>1
<1>4. Mapped(RemoveAt(sendList, cursor), WaitsOf') = Mapped(RemoveAt(sendList, cursor), WaitsOf)
  BY <1>2, <1>3, MappedSame
<1>5. Mapped(RemoveAt(sendList, cursor), WaitsOf) = RemoveAt(Mapped(sendList, WaitsOf), cursor)
  BY <1>1, MappedRemoveAt
<1> QED BY <1>4, <1>5, QueueMapped

\* The post of a frame, the one at the cursor, transmits it.
LEMMA PostTransmits ==
    ASSUME TypeOK, TypeOK', Discipline, Record, PollPostUnlink \/ PollFirst \/ PollPost
    PROVE  DeliveryStep
<1> USE DEF sendVars
<1>1. /\ cursor \in DOMAIN sendList /\ pollPc \in {"visit", "post_unlink", "post"}
      /\ Post(sendList[cursor])
      /\ UNCHANGED <<frame, sendBuf>>
  BY DEF PollPostUnlink, PollFirst, PollPost, Visiting, TypeOK
<1> PICK b \in Buf : b = sendList[cursor]
  BY <1>1, AtEntry
<1>2. /\ posts' = [posts EXCEPT ![b] = posts[b] + 1] /\ UNCHANGED answered
      /\ mbx' = Append(mbx, b)
  BY <1>1 DEF Post
<1>3. \A c \in Buf : c # b => posts'[c] = posts[c]
  BY <1>2 DEF TypeOK
<1>4. cursor \in DOMAIN QueueOfList /\ QueueOfList[cursor] = Waits(b)
  BY <1>1 DEF QueueOfList
<1>5. posts[b] = 0 => \A j \in 1 .. cursor - 1 : QueueOfList[j].tries > 0
  <2>1. \A j \in 1 .. cursor - 1 : j \in DOMAIN sendList /\ j < cursor
    BY <1>1 DEF TypeOK
  <2>2. \A j \in 1 .. cursor - 1 : posts[sendList[j]] > 0
    BY <1>1, <2>1 DEF Record, Passed
  <2> QED BY <2>1, <2>2 DEF QueueOfList, Waits
<1>6. LineOfMailbox' = Append(LineOfMailbox, OnItsWay(b))
  BY <1>1, <1>2, PostedLine
<1>7. CASE PollPostUnlink
  <2>1. ~IsNtf(b) /\ posts[b] = 0 /\ answered[b] = FALSE /\ sendList' = RemoveAt(sendList, cursor)
    BY <1>1, <1>7, EntryRecord DEF PollPostUnlink, Discipline, AtCursor
  <2>2. frame[b].kind = "reply"
    BY <2>1 DEF IsNtf, Record, Numbers, SentFrames
  <2>3. QueueOfList' = RemoveAt(QueueOfList, cursor)
    BY <1>1, <1>2, <1>3, <2>1, QueueWithout
  <2>4. Delivery!Transmit(cursor)
    <3>1. QueueOfList' = Delivery!RemoveAt(QueueOfList, cursor)
      BY <2>3 DEF RemoveAt, Delivery!RemoveAt
    <3> QED
      BY <1>4, <1>5, <1>6, <2>1, <2>2, <3>1
      DEF Delivery!Transmit, Delivery!Limit, Waits, OnItsWay
  <2> QED BY <1>4, <2>4 DEF DeliveryStep, Delivery!Next
<1>8. CASE PollFirst \/ PollPost
  <2>1. /\ poll[b].type = 1 /\ poll[b].free_flag = 0 /\ pollPc \in {"visit", "post"}
        /\ pollPc = "visit" => poll[b].times = 0
        /\ UNCHANGED sendList
    <3>1. CASE PollFirst
      <4>1. poll[b].type = 1 /\ poll[b].times = 0 /\ UNCHANGED sendList /\ pollPc = "visit"
        BY <3>1 DEF PollFirst, Visiting
      <4>2. b \in Linked
        BY <1>1, AtEntry
      <4> QED BY <4>1, <4>2 DEF Discipline, BufferRules, LinkedNtf
    <3>2. CASE PollPost
      BY <3>2 DEF PollPost, Discipline, AtCursor
    <3> QED BY <1>8, <3>1, <3>2
  <2>2. /\ IsNtf(b) /\ ~answered[b] /\ poll[b].times \in Nat /\ poll[b].times <= MaxTimes
        /\ posts[b] = IF pollPc = "post" THEN poll[b].times - 1 ELSE poll[b].times
        /\ posts[b] \in Nat
    BY <1>1, <2>1, EntryRecord
  <2>3. posts[b] < MaxTimes
    BY <2>1, <2>2, BoundsAssumption
  <2>4. posts[b] + 1 \in Nat /\ posts'[b] = posts[b] + 1
    BY <1>2, <2>2 DEF TypeOK
  <2>5. QueueOfList' = [QueueOfList EXCEPT ![cursor] = WaitsOf'[b]]
    <3>1. \A c \in Buf \ {b} : WaitsOf[c] = WaitsOf'[c]
      BY <1>1, <1>2, <1>3 DEF WaitsOf, Waits
    <3>2. sendList \in Seq(Buf) /\ IsInjective(sendList) /\ cursor \in 1 .. Len(sendList)
      BY <1>1 DEF TypeOK, Discipline, Queues
    <3> QED BY <2>1, <3>1, <3>2, MappedUpdate, QueueMapped
  <2>6. WaitsOf'[b] = [Waits(b) EXCEPT !.tries = posts[b] + 1]
    <3>1. WaitsOf'[b] = [slot |-> b, frame |-> frame[b], tries |-> posts[b] + 1, answered |-> answered[b]]
      BY <1>1, <1>2, <2>4 DEF WaitsOf, Waits
    <3> QED BY <2>4, <3>1, EntryUpdate
  <2>7. Delivery!Transmit(cursor)
    <3>1. answered[b] = FALSE
      BY <2>2 DEF TypeOK
    <3>2. /\ ~Waits(b).answered /\ Waits(b).tries = posts[b]
          /\ Waits(b).frame.kind = "ntf" /\ Waits(b).slot = b /\ Waits(b).frame = frame[b]
      BY <2>2, <3>1 DEF Waits, IsNtf
    <3>3. ~QueueOfList[cursor].answered
      BY <1>4, <3>2, Zenon
    <3>4. posts[b] < Delivery!Limit(frame[b])
      BY <2>3, <3>2 DEF Delivery!Limit
    <3>5. LineOfMailbox' = Append(LineOfMailbox, [slot |-> b, frame |-> frame[b]])
      BY <1>6 DEF OnItsWay
    <3>6. frame[b].kind # "reply"
      BY <3>2
    <3>7. QueueOfList[cursor].tries < Delivery!Limit(QueueOfList[cursor].frame)
      BY <1>4, <3>2, <3>4, Zenon
    <3>8. QueueOfList[cursor].tries = 0 => \A j \in 1 .. cursor - 1 : QueueOfList[j].tries > 0
      BY <1>4, <1>5, <3>2, Zenon
    <3>9. LineOfMailbox' = Append(LineOfMailbox,
                                  [slot |-> QueueOfList[cursor].slot, frame |-> QueueOfList[cursor].frame])
      BY <1>4, <3>2, <3>5, Zenon
    <3>10. QueueOfList' = [QueueOfList EXCEPT ![cursor].tries = QueueOfList[cursor].tries + 1]
      BY <1>4, <2>5, <2>6, <3>2, Zenon
    <3>11. QueueOfList[cursor].frame.kind # "reply"
      BY <1>4, <3>2, <3>6, Zenon
    <3> QED
      BY ONLY <3>3, <3>7, <3>8, <3>9, <3>10, <3>11, Zenon DEF Delivery!Transmit
  <2> QED BY <1>4, <2>7 DEF DeliveryStep, Delivery!Next
<1> QED BY <1>7, <1>8

\* An entry is released when its answer is seen or its tries are used up.
LEMMA ReleaseDismisses ==
    ASSUME TypeOK, TypeOK', Discipline, Record, PollAnswered \/ PollGiveUp
    PROVE  DeliveryStep
<1> USE DEF sendVars, history
<1>1. /\ cursor \in DOMAIN sendList /\ pollPc = "visit"
      /\ poll[sendList[cursor]].type = 1
      /\ sendList' = RemoveAt(sendList, cursor)
      /\ UNCHANGED <<frame, mbx, sendBuf, posts, answered>>
  BY DEF PollAnswered, PollGiveUp, Waiting, Visiting, Release, TypeOK
<1> PICK b \in Buf : b = sendList[cursor]
  BY <1>1, AtEntry
<1>2. /\ IsNtf(b) /\ poll[b].times \in Nat /\ poll[b].times <= MaxTimes
      /\ posts[b] = poll[b].times /\ (answered[b] <=> poll[b].free_flag # 0)
  BY <1>1, EntryRecord
<1>3. answered[b] \/ posts[b] = MaxTimes
  <2>1. CASE PollAnswered
    BY <1>2, <2>1 DEF PollAnswered
  <2>2. CASE PollGiveUp
    <3>1. LastTry(b)
      BY <2>2 DEF PollGiveUp
    <3> QED BY <1>2, <3>1, BoundsAssumption DEF LastTry
  <2> QED BY <2>1, <2>2
<1>4. cursor \in DOMAIN QueueOfList /\ QueueOfList[cursor] = Waits(b)
  BY <1>1 DEF QueueOfList
<1>5. QueueOfList' = RemoveAt(QueueOfList, cursor)
  BY <1>1, QueueWithout
<1>6. LineOfMailbox' = LineOfMailbox
  BY <1>1, SameLine DEF Outgoing
<1>7. Waits(b).frame.kind = "ntf" /\ (Waits(b).answered \/ Waits(b).tries = MaxTimes)
  <2>1. Waits(b).answered = answered[b] /\ Waits(b).tries = posts[b] /\ Waits(b).frame = frame[b]
    BY DEF Waits
  <2>2. answered[b] = TRUE \/ posts[b] = MaxTimes
    BY <1>3 DEF TypeOK
  <2> QED BY <1>2, <2>1, <2>2 DEF IsNtf
<1>8. Delivery!Dismiss(cursor)
  BY <1>4, <1>5, <1>6, <1>7 DEF Delivery!Dismiss, RemoveAt, Delivery!RemoveAt
<1> QED BY <1>4, <1>8 DEF DeliveryStep, Delivery!Next

\* uart_send_tsk takes over the oldest outgoing frame, and finishes it.
LEMMA SendFinishes ==
    ASSUME TypeOK, TypeOK', Discipline, SendTask
    PROVE  DeliveryStep
<1> USE DEF pollVars, history
<1>1. mbx \in Seq(Buf) /\ (sendBuf \in Buf \/ sendBuf = NoBuf) /\ NoBuf \notin Buf
  BY DEF TypeOK, Buf, NoBuf
<1>2. CASE SendPend
  <2>1. /\ UNCHANGED <<sendList, frame, posts, answered>> /\ sendPc = "pend" /\ mbx # <<>>
        /\ sendBuf' = Head(mbx) /\ mbx' = Tail(mbx)
    BY <1>2 DEF SendPend
  <2>2. sendBuf = NoBuf
    BY <2>1 DEF TypeOK
  <2>3. Head(mbx) \in Buf /\ <<Head(mbx)>> \o Tail(mbx) = mbx
    BY <1>1, <2>1
  <2>4. Outgoing' = Outgoing
    BY <1>1, <2>1, <2>2, <2>3 DEF Outgoing
  <2>5. QueueOfList' = QueueOfList
    BY <2>1, SameQueue
  <2>6. LineOfMailbox' = LineOfMailbox
    BY <2>1, <2>4, SameLine
  <2> QED BY <2>5, <2>6 DEF DeliveryStep
<1>3. CASE SendWrite
  BY <1>3, Unseen DEF SendWrite, DeliveryStep
<1>4. CASE SendCheck
  <2>1. /\ UNCHANGED <<sendList, frame, mbx, posts, answered>> /\ sendBuf' = NoBuf
        /\ sendBuf \in Buf
    BY <1>4 DEF SendCheck, TypeOK
  <2>2. Outgoing = <<sendBuf>> \o mbx /\ Outgoing' = mbx
    BY <1>1, <2>1 DEF Outgoing
  <2>3. Outgoing # <<>> /\ Tail(Outgoing) = mbx
    BY <1>1, <2>1, <2>2
  <2>4. OnWayOf' = OnWayOf
    BY <2>1 DEF OnWayOf, OnItsWay
  <2>5. LineOfMailbox # <<>> /\ LineOfMailbox' = Tail(LineOfMailbox)
    <3>1. Mapped(Outgoing, OnWayOf) # <<>>
          /\ Mapped(Tail(Outgoing), OnWayOf) = Tail(Mapped(Outgoing, OnWayOf))
      BY <2>3, LineMapped, MappedTail
    <3> QED BY <2>2, <2>3, <2>4, <3>1, LineMapped
  <2>6. QueueOfList' = QueueOfList
    BY <2>1, SameQueue
  <2>7. Delivery!Finish
    BY <2>5, <2>6 DEF Delivery!Finish
  <2> QED BY <2>7 DEF DeliveryStep, Delivery!Next
<1> QED BY <1>2, <1>3, <1>4 DEF SendTask

\* Every step of the sender is a step of Delivery or a stutter.
LEMMA StepDelivers ==
    TypeOK /\ TypeOK' /\ Discipline /\ Record /\ [Next]_vars => DeliveryStep
<1> SUFFICES ASSUME TypeOK, TypeOK', Discipline, Record, [Next]_vars PROVE DeliveryStep
  OBVIOUS
<1> USE DEF sendVars, history
<1>1. ASSUME UNCHANGED <<sendList, mbx, sendBuf, frame, posts, answered>> PROVE DeliveryStep
  BY <1>1, Unseen DEF DeliveryStep
<1>2. ASSUME NEW t \in Threads, BufFactoryCrash(t) PROVE DeliveryStep
  BY <1>1, <1>2 DEF BufFactoryCrash
<1>3. ASSUME NEW t \in Threads, NEW type \in {0, 1}, DisposeFill(t, type) PROVE DeliveryStep
  BY <1>3, ProduceUnseen DEF DisposeFill, DeliveryStep
<1>4. ASSUME NEW t \in Threads, Link(t) PROVE DeliveryStep
  BY <1>4, LinkSubmits
<1>5. ASSUME NEW sn \in PeerSn, RecvCommand(sn) PROVE DeliveryStep
  BY <1>5, ProduceUnseen DEF RecvCommand, DeliveryStep
<1>6. ASSUME NEW b \in Buf, RecvResponse(b) PROVE DeliveryStep
  <2>1. IsNtf(b) /\ posts[b] > 0
    BY <1>6 DEF RecvResponse, Record, RecordRules, OutIsPosted
  <2> QED BY <1>6, <2>1, MarkSees DEF RecvResponse
<1>7. ASSUME NEW sn \in UploadSn, RecvUpload(sn) PROVE DeliveryStep
  BY <1>1, <1>7 DEF RecvUpload
<1>8. CASE RecvUploadMark
  <2>1. NoBuf \notin Buf
    BY DEF Buf, NoBuf
  <2> QED BY <1>8, <2>1, MarkSees DEF RecvUploadMark
<1>9. CASE PollTask
  <2>1. CASE PollPostUnlink \/ PollFirst \/ PollPost
    BY <2>1, PostTransmits
  <2>2. CASE PollAnswered \/ PollGiveUp
    BY <2>2, ReleaseDismisses
  <2>3. CASE PollBegin \/ PollEnd \/ PollReply \/ PollCount \/ PollWait \/ PollTimeout
    BY <1>1, <2>3 DEF PollBegin, PollEnd, PollReply, PollCount, PollWait, PollTimeout
  <2> QED BY <1>9, <2>1, <2>2, <2>3 DEF PollTask
<1>10. CASE SendTask
  BY <1>10, SendFinishes
<1>11. CASE UNCHANGED vars
  BY <1>1, <1>11 DEF vars
<1> QED
  BY <1>2, <1>3, <1>4, <1>5, <1>6, <1>7, <1>8, <1>9, <1>10, <1>11 DEF Next, Halted

\* UartSend implements Delivery: the two tasks, the list, the pool and the mailbox
\* keep what Delivery promises to the threads that hand over frames.
THEOREM DeliveryHolds ==
    ASSUME Timely, CleanPoll
    PROVE  Spec /\ []UploadsApart => ImplementsDelivery
<1>1. TypeOK /\ TypeOK' /\ Discipline /\ Record /\ [Next]_vars =>
         [Delivery!Next]_<<QueueOfList, LineOfMailbox>>
  BY StepDelivers DEF DeliveryStep
<1>2. Init => Delivery!Init
  BY DeliveryInit
<1> QED
  BY <1>1, <1>2, TypeCorrect, DisciplineHolds, RecordHolds, PTL
  DEF Spec, ImplementsDelivery, Delivery!Spec
=============================================================================
