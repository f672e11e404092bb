------------------------- MODULE UartDisposeProofs -------------------------
(***************************************************************************)
(* The damage that callers of uart_protocol_dispose do to each other's     *)
(* frames stays among calls that overlap, for any number of callers,       *)
(* buffers and productions.  The inductive invariant is DisposeInv.        *)
(***************************************************************************)
EXTENDS UartDispose, QueueLemmas, TLAPS

-----------------------------------------------------------------------------
(* The inductive invariant.                                                  *)

Pcs == {"idle", "point", "head", "sn", "increment", "body", "sum", "link"}
Contents == [head : Int, sn : Int, body : Int, sum : Seq(Int)]
Items == [buf : Buf, info : Prod]

Types ==
    /\ pc \in [Threads -> Pcs]
    /\ buf \in [Threads -> Buf \cup {NoBuf}] /\ prod \in [Threads -> 0 .. made]
    /\ made \in 0 .. MaxProd
    /\ Respdata \in Buf \cup {NoBuf}
    /\ uart_send_sn \in Nat /\ loaded \in [Threads -> Nat]
    /\ content \in [Buf -> Contents]
    /\ free \in Seq(Buf) /\ sendList \in Seq(Items)
    /\ took \in [Buf -> 0 .. made]
    /\ number \in [Prod -> Nat \cup {NoNumber}]
    /\ overlapped \subseteq 1 .. made /\ lastAlone \in Nat \cup {NoNumber}

\* A caller has a buffer and a production while it is inside.
Callers ==
    \A t \in Threads :
       /\ pc[t] = "idle" <=> buf[t] = NoBuf
       /\ pc[t] = "idle" <=> prod[t] = NoProd
       /\ pc[t] \notin {"idle", "point"} => Respdata # NoBuf

\* A buffer is free, with one caller, or listed once, for the production that took
\* it; no production took two.
Places ==
    /\ IsInjective(free)
    /\ \A t, u \in Threads : buf[t] = buf[u] /\ buf[t] # NoBuf => t = u
    /\ \A t \in Threads : buf[t] # NoBuf => buf[t] \notin ToSet(free) /\ took[buf[t]] = prod[t]
    /\ \A i \in 1 .. Len(sendList) :
          /\ sendList[i].info = took[sendList[i].buf]
          /\ sendList[i].buf \notin ToSet(free)
          /\ \A t \in Threads : buf[t] # sendList[i].buf
    /\ \A i, j \in 1 .. Len(sendList) : sendList[i].buf = sendList[j].buf => i = j
    /\ \A b, c \in Buf : took[b] = took[c] /\ took[b] # NoProd => b = c
    /\ \A b \in ToSet(free) : took[b] = NoProd
    /\ \A p \in Prod : p > made => number[p] = NoNumber

\* What a caller that has run alone so far has done to its frame.
Progress(t) ==
    LET f == content[buf[t]]
        p == prod[t]
    IN  /\ pc[t] \in {"sn", "increment", "body", "sum", "link"} => f.head = p
        /\ pc[t] = "sn" => loaded[t] = uart_send_sn
        /\ pc[t] \in {"increment", "body", "sum", "link"} =>
              f.sn = number[p] /\ number[p] > lastAlone
        /\ pc[t] = "increment" => loaded[t] = number[p]
        /\ pc[t] \in {"body", "sum", "link"} => uart_send_sn > number[p]
        /\ pc[t] \in {"sum", "link"} => f.body = p
        /\ pc[t] = "link" => f.sum = Summed(f)

\* A caller none of whose call overlapped another is the only one inside, and the
\* pointer is its own.
Alone(t) == pc[t] # "idle" /\ prod[t] \notin overlapped
AloneRules(t) ==
    /\ \A u \in Threads : pc[u] # "idle" => u = t
    /\ pc[t] # "point" => Respdata = buf[t]
    /\ Progress(t)

\* The pointer has left the frames of those that ran alone.
Left ==
    \A i \in 1 .. Len(sendList) :
       sendList[i].info \notin overlapped =>
          /\ Intact(content[sendList[i].buf], sendList[i].info)
          /\ \A t \in Threads : pc[t] \notin {"idle", "point"} => Respdata # sendList[i].buf

\* A counter taken back by a late store is not taken back behind a call that ran alone.
Numbers ==
    /\ uart_send_sn > lastAlone
    /\ \A t \in Threads : pc[t] \in {"sn", "increment"} => loaded[t] > lastAlone

DisposeInv ==
    /\ Types /\ Callers /\ Places /\ Left /\ Numbers
    /\ \A t \in Threads : Alone(t) => AloneRules(t)

-----------------------------------------------------------------------------
(* Facts used throughout.                                                    *)

\* Buffers, productions and the values that stand for none.
LEMMA Constants ==
    /\ NumBuf \in Nat /\ MaxProd \in Nat
    /\ NoBuf \notin Buf /\ NoProd \notin Prod /\ NoNumber \notin Nat
    /\ Prod = 1 .. MaxProd /\ Buf \subseteq Nat
  BY DisposeAssumption DEF Buf, NoBuf, Prod, NoProd, NoNumber

\* A caller inside has a buffer and a production, and writes into buffers.
LEMMA InsideFacts ==
    ASSUME Types, Callers, NEW t \in Threads, pc[t] # "idle"
    PROVE  /\ buf[t] \in Buf /\ prod[t] \in Prod /\ prod[t] <= made
           /\ pc[t] # "point" => Respdata \in Buf /\ Target(t) \subseteq Buf
<1>1. buf[t] # NoBuf /\ prod[t] # NoProd
  BY DEF Callers
<1> QED
  BY <1>1, Constants DEF Types, Callers, Target, NoProd, NoBuf

\* The buffer that is taken is free, and in no other place.
LEMMA HeadFacts ==
    ASSUME Types, Places, free # <<>>
    PROVE  /\ Head(free) \in Buf /\ Head(free) \in ToSet(free) /\ Tail(free) \in Seq(Buf)
           /\ IsInjective(Tail(free)) /\ ToSet(Tail(free)) = ToSet(free) \ {Head(free)}
           /\ \A t \in Threads : buf[t] # Head(free)
           /\ \A i \in 1 .. Len(sendList) : sendList[i].buf # Head(free)
<1>1. free \in Seq(Buf) /\ IsInjective(free)
  BY DEF Types, Places
<1>2. /\ Head(free) \in Buf /\ Head(free) \in ToSet(free) /\ Tail(free) \in Seq(Buf)
      /\ IsInjective(Tail(free)) /\ ToSet(Tail(free)) = ToSet(free) \ {Head(free)}
  BY <1>1, TailSet
<1> QED
  BY <1>2, Constants DEF Places

\* The items of the list.
LEMMA ItemFacts ==
    ASSUME Types, NEW i \in 1 .. Len(sendList)
    PROVE  sendList[i] \in Items /\ sendList[i].buf \in Buf /\ sendList[i].info \in Prod
<1>1. sendList[i] \in Items
  BY DEF Types
<1> QED
  BY <1>1 DEF Items

\* The production of a caller has no frame in the list, nor another caller.
LEMMA OwnProduction ==
    ASSUME Types, Callers, Places, NEW t \in Threads, pc[t] # "idle"
    PROVE  /\ \A i \in 1 .. Len(sendList) : sendList[i].info # prod[t]
           /\ \A u \in Threads : prod[u] = prod[t] => u = t
<1>1. buf[t] \in Buf /\ prod[t] \in Prod /\ took[buf[t]] = prod[t] /\ prod[t] # NoProd
  BY InsideFacts, Constants DEF Places
<1>2. ASSUME NEW i \in 1 .. Len(sendList), sendList[i].info = prod[t] PROVE FALSE
  <2>1. sendList[i].buf \in Buf /\ took[sendList[i].buf] = prod[t]
    BY <1>2, ItemFacts DEF Places
  <2>2. sendList[i].buf = buf[t]
    BY <1>1, <2>1 DEF Places
  <2> QED
    BY <2>2 DEF Places
<1>3. ASSUME NEW u \in Threads, prod[u] = prod[t] PROVE u = t
  <2>1. pc[u] # "idle"
    BY <1>1, <1>3 DEF Callers
  <2>2. buf[u] \in Buf /\ took[buf[u]] = prod[t]
    BY <2>1, <1>3, InsideFacts, Constants DEF Places
  <2>3. buf[u] = buf[t]
    BY <1>1, <2>2 DEF Places
  <2> QED
    BY <2>3, <1>1, Constants DEF Places
<1> QED
  BY <1>2, <1>3

-----------------------------------------------------------------------------
\* Nothing is produced yet.
LEMMA DisposeInit == Init => DisposeInv
<1> SUFFICES ASSUME Init PROVE DisposeInv
  OBVIOUS
<1>1. Blank \in Contents
  BY DEF Blank, Contents, NoProd, NoNumber
<1>2. Types
  <2>1. free \in Seq(Buf) /\ sendList \in Seq(Items)
    BY Constants DEF Init, Buf
  <2> QED
    BY <1>1, <2>1, Constants DEF Init, Types, Pcs, NoProd
<1>3. Callers /\ Numbers
  BY DEF Init, Callers, Numbers, NoNumber
<1>4. Places
  <2>1. IsInjective(free)
    BY Constants DEF Init, IsInjective
  <2>2. 1 .. Len(sendList) = {}
    BY DEF Init
  <2>3. \A t \in Threads : buf[t] = NoBuf
    BY DEF Init
  <2>4. /\ \A b \in Buf : took[b] = NoProd
        /\ \A p \in Prod : number[p] = NoNumber
    BY DEF Init
  <2>5. ToSet(free) \subseteq Buf
    BY DEF Init, ToSet
  <2> QED
    BY <2>1, <2>2, <2>3, <2>4, <2>5 DEF Places
<1>5. Left
  BY DEF Init, Left
<1>6. \A t \in Threads : ~Alone(t)
  BY DEF Init, Alone
<1> QED
  BY <1>2, <1>3, <1>4, <1>5, <1>6 DEF DisposeInv

-----------------------------------------------------------------------------
(* A production begins.                                                      *)

\* What taking a buffer changes: a new production, which overlaps all that are under way.
LEMMA BeginFacts ==
    ASSUME Types, Callers, Places, Begin
    PROVE  /\ made' = made + 1 /\ made \in Nat /\ made + 1 \in Prod /\ made' \in 0 .. MaxProd
           /\ overlapped' \subseteq 1 .. made + 1 /\ overlapped \subseteq overlapped'
           /\ \A t \in Threads : pc[t] # "idle" => prod[t] \in overlapped' /\ made + 1 \in overlapped'
           /\ \A p \in Prod : p \in overlapped' =>
                 p \in overlapped \/ p = made + 1 \/ \E t \in Threads : pc[t] # "idle" /\ prod[t] = p
           /\ took' \in [Buf -> 0 .. made + 1] /\ took'[Head(free)] = made + 1
           /\ \A b \in Buf : b # Head(free) => took'[b] = took[b]
<1>1. made \in Nat /\ made + 1 \in Prod /\ made' = made + 1 /\ free # <<>> /\ made' \in 0 .. MaxProd
  BY Constants DEF Begin, Types
<1>2. Head(free) \in Buf
  BY <1>1, HeadFacts
<1>3. /\ took' \in [Buf -> 0 .. made + 1] /\ took'[Head(free)] = made + 1
      /\ \A b \in Buf : b # Head(free) => took'[b] = took[b]
  <2>1. took \in [Buf -> 0 .. made] /\ took' = [took EXCEPT ![Head(free)] = made + 1]
    BY DEF Begin, Types
  <2> QED
    BY <1>1, <1>2, <2>1
<1>4. \A t \in Threads : pc[t] # "idle" => prod[t] \in 1 .. made
  BY <1>1, InsideFacts, Constants
<1>5. /\ overlapped' \subseteq 1 .. made + 1 /\ overlapped \subseteq overlapped'
      /\ \A t \in Threads : pc[t] # "idle" => prod[t] \in overlapped' /\ made + 1 \in overlapped'
      /\ \A p \in Prod : p \in overlapped' =>
            p \in overlapped \/ p = made + 1 \/ \E t \in Threads : pc[t] # "idle" /\ prod[t] = p
  <2>1. CASE Inside = {}
    BY <1>1, <2>1 DEF Begin, Inside, Types
  <2>2. CASE Inside # {}
    <3> DEFINE beside == {prod[t] : t \in Inside}
    <3>1. overlapped' = overlapped \cup {made + 1} \cup beside
      BY <2>2 DEF Begin
    <3>2. overlapped \subseteq 1 .. made
      BY DEF Types
    <3>3. \A p : p \in beside <=> \E t \in Threads : pc[t] # "idle" /\ prod[t] = p
      BY DEF Inside
    <3>4. beside \subseteq 1 .. made
      BY <1>4, <3>3
    <3> HIDE DEF beside
    <3>5. overlapped' \subseteq 1 .. made + 1
      BY <1>1, <3>1, <3>2, <3>4
    <3> QED
      BY <3>1, <3>3, <3>5
  <2> QED
    BY <2>1, <2>2
<1> QED
  BY <1>1, <1>3, <1>5

\* A production that begins keeps the rules of those that ran alone: nobody is alone
\* beside it.
LEMMA BeginAlone ==
    ASSUME Types, Callers, Places, Begin, UNCHANGED number,
           NEW i \in 1 .. Len(sendList), sendList[i].info \notin overlapped'
    PROVE  sendList[i].info \notin overlapped
  BY BeginFacts

-----------------------------------------------------------------------------
\* Types, one case per access.
LEMMA TypesStep == DisposeInv /\ Next => Types'
<1> SUFFICES ASSUME DisposeInv, Next PROVE Types'
  OBVIOUS
<1>0. Types /\ Callers /\ Places
  BY DEF DisposeInv
<1> USE DEF frameVars, listVars, Goto, Pcs
<1>1. ASSUME NEW t \in Threads, Take(t) PROVE Types'
  <2>1. Begin /\ free # <<>> /\ UNCHANGED <<frameVars, sendList, number, lastAlone>>
    BY <1>1 DEF Take, Begin
  <2>2. free' \in Seq(Buf) /\ Head(free) \in Buf
    BY <1>0, <1>1, <2>1, HeadFacts DEF Take
  <2>3. prod' \in [Threads -> 0 .. made'] /\ buf' \in [Threads -> Buf \cup {NoBuf}] /\ pc' \in [Threads -> Pcs]
    <3>1. made' = made + 1 /\ made \in Nat
      BY <1>0, <2>1, BeginFacts
    <3>2. prod' = [prod EXCEPT ![t] = made + 1] /\ buf' = [buf EXCEPT ![t] = Head(free)]
          /\ pc' = [pc EXCEPT ![t] = "point"]
      BY <1>1 DEF Take
    <3>3. prod \in [Threads -> 0 .. made] /\ buf \in [Threads -> Buf \cup {NoBuf}] /\ pc \in [Threads -> Pcs]
      BY <1>0 DEF Types
    <3> QED
      BY <2>2, <3>1, <3>2, <3>3
  <2> QED
    BY <1>0, <2>1, <2>2, <2>3, BeginFacts DEF Types
<1>2. ASSUME BuildReply PROVE Types'
  <2>1. Begin /\ free # <<>> /\ UNCHANGED <<pc, buf, prod, Respdata, uart_send_sn, loaded, number, lastAlone>>
    BY <1>2 DEF BuildReply, Begin
  <2>2. free' \in Seq(Buf) /\ Head(free) \in Buf
    BY <1>0, <1>2, <2>1, HeadFacts DEF BuildReply
  <2>3. sendList' \in Seq(Items)
    <3>1. sendList' = Append(sendList, [buf |-> Head(free), info |-> made + 1])
      BY <1>2 DEF BuildReply
    <3>2. [buf |-> Head(free), info |-> made + 1] \in Items
      BY <1>0, <2>1, <2>2, BeginFacts DEF Items
    <3> QED
      BY <1>0, <3>1, <3>2 DEF Types
  <2>4. content' \in [Buf -> Contents]
    <3>1. Reply(made + 1) \in Contents
      <4>1. made + 1 \in Int /\ NoNumber \in Int
        BY <1>0, <2>1, BeginFacts DEF NoNumber
      <4>2. <<made + 1, NoNumber, made + 1>> \in Seq(Int)
        BY <4>1
      <4> QED
        BY <4>1, <4>2 DEF Contents, Reply
    <3> QED
      BY <1>0, <1>2, <2>2, <3>1 DEF Types, BuildReply
  <2>5. prod \in [Threads -> 0 .. made']
    BY <1>0, <2>1, BeginFacts DEF Types
  <2> QED
    BY <1>0, <2>1, <2>2, <2>3, <2>4, <2>5, BeginFacts DEF Types
<1>3. ASSUME NEW t \in Threads, Point(t) PROVE Types'
  <2>1. buf[t] \in Buf
    BY <1>0, <1>3, InsideFacts DEF Point
  <2> QED
    BY <1>0, <1>3, <2>1 DEF Types, Point
<1>4. ASSUME NEW t \in Threads,
             WriteHead(t) \/ WriteSn(t) \/ Increment(t) \/ WriteBody(t) \/ WriteSum(t)
      PROVE  Types'
  <2>1. prod[t] \in Prod /\ prod[t] \in Int /\ Target(t) \subseteq Buf /\ loaded[t] \in Nat
    <3>1. pc[t] # "idle" /\ pc[t] # "point"
      BY <1>4 DEF WriteHead, WriteSn, Increment, WriteBody, WriteSum
    <3>2. prod[t] \in Prod /\ Target(t) \subseteq Buf
      BY <1>0, <3>1, InsideFacts
    <3>3. loaded[t] \in Nat
      BY <1>0 DEF Types
    <3> QED
      BY <3>2, <3>3, Constants
  <2>2. content' \in [Buf -> Contents]
    <3>1. CASE WriteHead(t)
      <4>1. PICK b \in Buf : content' = [content EXCEPT ![b].head = prod[t]]
        BY <2>1, <3>1 DEF WriteHead
      <4> QED
        BY <1>0, <2>1, <4>1 DEF Types, Contents
    <3>2. CASE WriteSn(t)
      <4>0. loaded[t] \in Int
        BY <2>1
      <4>1. PICK b \in Buf : content' = [content EXCEPT ![b].sn = loaded[t]]
        BY <2>1, <3>2 DEF WriteSn
      <4>2. content \in [Buf -> Contents]
        BY <1>0 DEF Types
      <4>3. [content[b] EXCEPT !.sn = loaded[t]] \in Contents
        BY <4>0, <4>2 DEF Contents
      <4> QED
        BY <4>1, <4>2, <4>3
    <3>3. CASE Increment(t)
      BY <1>0, <3>3 DEF Increment, Types
    <3>4. CASE WriteBody(t)
      <4>1. PICK b \in Buf : content' = [content EXCEPT ![b].body = prod[t]]
        BY <2>1, <3>4 DEF WriteBody
      <4> QED
        BY <1>0, <2>1, <4>1 DEF Types, Contents
    <3>5. CASE WriteSum(t)
      <4>1. PICK b \in Buf, c \in Buf : content' = [content EXCEPT ![b].sum = Summed(content[c])]
        BY <2>1, <3>5 DEF WriteSum
      <4>2. content[c] \in Contents
        BY <1>0 DEF Types
      <4>3. Summed(content[c]) \in Seq(Int)
        BY <4>2 DEF Summed, Contents
      <4>4. PICK v \in Seq(Int) : content' = [content EXCEPT ![b].sum = v]
        BY <4>1, <4>3
      <4>5. content \in [Buf -> Contents]
        BY <1>0 DEF Types
      <4>6. [content[b] EXCEPT !.sum = v] \in Contents
        BY <4>5 DEF Contents
      <4> QED
        BY <4>4, <4>5, <4>6
    <3> QED
      BY <1>4, <3>1, <3>2, <3>3, <3>4, <3>5
  <2>3. UNCHANGED <<buf, prod, Respdata, free, sendList, made, took, overlapped, lastAlone>>
    BY <1>4 DEF WriteHead, WriteSn, Increment, WriteBody, WriteSum
  <2>4. pc' \in [Threads -> Pcs]
    BY <1>0, <1>4 DEF WriteHead, WriteSn, Increment, WriteBody, WriteSum, Types
  <2>5. uart_send_sn' \in Nat /\ loaded' \in [Threads -> Nat]
    <3>1. uart_send_sn \in Nat /\ loaded \in [Threads -> Nat]
      BY <1>0 DEF Types
    <3>2. CASE WriteSn(t)
      BY <3>1, <3>2, <2>1 DEF WriteSn
    <3>3. CASE ~WriteSn(t)
      BY <1>4, <3>1, <3>3, <2>1 DEF WriteHead, Increment, WriteBody, WriteSum
    <3> QED
      BY <3>2, <3>3
  <2>6. number' \in [Prod -> Nat \cup {NoNumber}]
    BY <1>0, <1>4, <2>1 DEF WriteHead, WriteSn, Increment, WriteBody, WriteSum, Types
  <2> QED
    BY <1>0, <2>2, <2>3, <2>4, <2>5, <2>6 DEF Types
<1>5. ASSUME NEW t \in Threads, Link(t) PROVE Types'
  <2>1. buf[t] \in Buf /\ prod[t] \in Prod
    BY <1>0, <1>5, InsideFacts DEF Link
  <2>2. sendList' \in Seq(Items)
    <3>1. sendList' = Append(sendList, [buf |-> buf[t], info |-> prod[t]])
      BY <1>5 DEF Link
    <3>2. [buf |-> buf[t], info |-> prod[t]] \in Items
      BY <2>1 DEF Items
    <3> QED
      BY <1>0, <3>1, <3>2 DEF Types
  <2>3. prod' \in [Threads -> 0 .. made'] /\ buf' \in [Threads -> Buf \cup {NoBuf}] /\ pc' \in [Threads -> Pcs]
    BY <1>0, <1>5 DEF Types, Link, NoProd
  <2>4. lastAlone' \in Nat \cup {NoNumber}
    BY <1>0, <1>5, <2>1 DEF Types, Link
  <2>5. UNCHANGED <<frameVars, free, made, took, number, overlapped>>
    BY <1>5 DEF Link
  <2> QED
    BY <1>0, <2>2, <2>3, <2>4, <2>5 DEF Types
<1>6. ASSUME NEW i \in DOMAIN sendList, Leave(i) PROVE Types'
  <2>1. i \in 1 .. Len(sendList) /\ sendList \in Seq(Items)
    BY <1>0 DEF Types
  <2>2. sendList[i].buf \in Buf /\ sendList[i].info \in Prod
    BY <1>0, <2>1, ItemFacts
  <2>3. sendList' \in Seq(Items)
    BY <1>6, <2>1, RemoveAtItems DEF Leave
  <2>4. Blank \in Contents
    BY DEF Blank, Contents, NoProd, NoNumber
  <2>5. free' \in Seq(Buf) /\ took' \in [Buf -> 0 .. made] /\ content' \in [Buf -> Contents]
    BY <1>0, <1>6, <2>2, <2>4 DEF Leave, Types, NoProd
  <2>6. number' \in [Prod -> Nat \cup {NoNumber}] /\ overlapped' \subseteq 1 .. made
    BY <1>0, <1>6, <2>2 DEF Leave, Types
  <2>7. UNCHANGED <<pc, buf, prod, Respdata, uart_send_sn, loaded, made, lastAlone>>
    BY <1>6 DEF Leave
  <2> QED
    BY <1>0, <2>3, <2>5, <2>6, <2>7 DEF Types
<1> QED
  BY <1>1, <1>2, <1>3, <1>4, <1>5, <1>6 DEF Next, Dispose

-----------------------------------------------------------------------------
(* The steps, as far as the other parts of the invariant look at them.       *)

Writes(t) == WriteHead(t) \/ WriteSn(t) \/ Increment(t) \/ WriteBody(t) \/ WriteSum(t)

\* A write reaches the frames of Target and the number of the caller's production.
LEMMA WriteFacts ==
    ASSUME Types, Callers, NEW t \in Threads, Writes(t)
    PROVE  /\ UNCHANGED <<buf, prod, Respdata, free, sendList, made, took, overlapped, lastAlone>>
           /\ pc[t] \notin {"idle", "point"} /\ pc'[t] \notin {"idle", "point"}
           /\ \A u \in Threads : u # t => pc'[u] = pc[u] /\ loaded'[u] = loaded[u]
           /\ \A b \in Buf : b \notin Target(t) => content'[b] = content[b]
           /\ \A p \in Prod : p # prod[t] => number'[p] = number[p]
           /\ prod[t] \in Prod /\ prod[t] <= made /\ buf[t] \in Buf
<1>1. UNCHANGED <<buf, prod, Respdata, free, sendList, made, took, overlapped, lastAlone>>
  BY DEF Writes, WriteHead, WriteSn, Increment, WriteBody, WriteSum, listVars
<1>2. /\ pc[t] \notin {"idle", "point"} /\ pc'[t] \notin {"idle", "point"}
      /\ \A u \in Threads : u # t => pc'[u] = pc[u]
  BY DEF Writes, WriteHead, WriteSn, Increment, WriteBody, WriteSum, Goto, Types
<1>3. \A u \in Threads : u # t => loaded'[u] = loaded[u]
  BY DEF Writes, WriteHead, WriteSn, Increment, WriteBody, WriteSum, Types
<1>4. \A b \in Buf : b \notin Target(t) => content'[b] = content[b]
  BY DEF Writes, WriteHead, WriteSn, Increment, WriteBody, WriteSum, Types
<1>5. \A p \in Prod : p # prod[t] => number'[p] = number[p]
  BY DEF Writes, WriteHead, WriteSn, Increment, WriteBody, WriteSum, Types
<1> QED
  BY <1>1, <1>2, <1>3, <1>4, <1>5, InsideFacts

\* What remains of the list was there before, apart from the entry that left.
LEMMA LeaveFacts ==
    ASSUME Types, Places, NEW c \in DOMAIN sendList, Leave(c)
    PROVE  /\ c \in 1 .. Len(sendList) /\ sendList[c].buf \in Buf /\ sendList[c].info \in Prod
           /\ Len(sendList') = Len(sendList) - 1
           /\ \A i \in 1 .. Len(sendList') :
                 sendList'[i] = IF i < c THEN sendList[i] ELSE sendList[i + 1]
           /\ \A i \in 1 .. Len(sendList') : \E j \in 1 .. Len(sendList) :
                 /\ sendList'[i] = sendList[j] /\ sendList'[i].buf \in Buf
                 /\ sendList'[i].buf # sendList[c].buf /\ sendList'[i].info # sendList[c].info
           /\ ToSet(free') = ToSet(free) \cup {sendList[c].buf} /\ IsInjective(free')
           /\ UNCHANGED <<pc, buf, prod, Respdata, uart_send_sn, loaded, made, lastAlone>>
<1>1. c \in 1 .. Len(sendList) /\ sendList \in Seq(Items) /\ Len(sendList) \in Nat
  BY DEF Types
<1>2. sendList[c].buf \in Buf /\ sendList[c].info \in Prod
  BY <1>1, ItemFacts
<1>3. /\ Len(sendList') = Len(sendList) - 1
      /\ \A i \in 1 .. Len(sendList') :
            sendList'[i] = IF i < c THEN sendList[i] ELSE sendList[i + 1]
  <2>1. sendList' = RemoveAt(sendList, c)
    BY DEF Leave
  <2> QED
    BY <1>1, <2>1, RemoveAtItems
<1>4. ASSUME NEW i \in 1 .. Len(sendList')
      PROVE  \E j \in 1 .. Len(sendList) :
                 /\ sendList'[i] = sendList[j] /\ sendList'[i].buf \in Buf
                 /\ sendList'[i].buf # sendList[c].buf /\ sendList'[i].info # sendList[c].info
  <2>1. PICK j \in 1 .. Len(sendList) : sendList'[i] = sendList[j] /\ j # c
    <3>1. CASE i < c
      BY <1>1, <1>3, <3>1
    <3>2. CASE ~(i < c)
      BY <1>1, <1>3, <3>2
    <3> QED
      BY <3>1, <3>2
  <2>2. sendList[j].buf \in Buf /\ sendList[j].info \in Prod
    BY ItemFacts
  <2>3. sendList[j].buf # sendList[c].buf
    BY <1>1, <2>1 DEF Places
  <2>4. sendList[j].info # sendList[c].info
    <3>1. sendList[j].info = took[sendList[j].buf] /\ sendList[c].info = took[sendList[c].buf]
      BY <1>1 DEF Places
    <3>2. sendList[j].info # NoProd
      BY <2>2, Constants
    <3> QED
      BY <1>2, <2>2, <2>3, <3>1, <3>2 DEF Places
  <2> QED
    BY <2>1, <2>2, <2>3, <2>4
<1>5. ToSet(free') = ToSet(free) \cup {sendList[c].buf} /\ IsInjective(free')
  <2>1. free' = Append(free, sendList[c].buf) /\ free \in Seq(Buf)
    BY DEF Leave, Types
  <2>2. IsInjective(free) /\ sendList[c].buf \notin ToSet(free)
    BY <1>1 DEF Places
  <2> QED
    BY <1>2, <2>1, <2>2, AppendSet
<1>6. UNCHANGED <<pc, buf, prod, Respdata, uart_send_sn, loaded, made, lastAlone>>
  BY DEF Leave
<1> QED
  BY <1>1, <1>2, <1>3, <1>4, <1>5, <1>6

\* The two steps that put an entry at the end of the list.
LEMMA AppendFacts ==
    ASSUME Types, NEW e \in Items, sendList' = Append(sendList, e)
    PROVE  /\ Len(sendList) \in Nat /\ Len(sendList') = Len(sendList) + 1
           /\ sendList'[Len(sendList) + 1] = e
           /\ \A i \in 1 .. Len(sendList) : sendList'[i] = sendList[i]
           /\ \A i \in 1 .. Len(sendList') : i \in 1 .. Len(sendList) \/ i = Len(sendList) + 1
  BY DEF Types

-----------------------------------------------------------------------------
\* Each caller keeps its buffer and its production as long as it is inside.
LEMMA CallersStep == DisposeInv /\ Next => Callers'
<1> SUFFICES ASSUME DisposeInv, Next PROVE Callers'
  OBVIOUS
<1>0. Types /\ Callers /\ Places
  BY DEF DisposeInv
<1>1. ASSUME NEW t \in Threads, Take(t) PROVE Callers'
  <2>1. made \in Nat /\ Head(free) \in Buf
    BY <1>0, <1>1, BeginFacts, HeadFacts DEF Take, Begin
  <2>2. /\ pc' = [pc EXCEPT ![t] = "point"] /\ buf' = [buf EXCEPT ![t] = Head(free)]
        /\ prod' = [prod EXCEPT ![t] = made + 1] /\ Respdata' = Respdata
    BY <1>1 DEF Take, Goto, frameVars
  <2>3. Head(free) # NoBuf /\ made + 1 # NoProd
    BY <2>1, Constants DEF NoProd
  <2> QED
    BY <1>0, <2>2, <2>3 DEF Types, Callers
<1>2. ASSUME BuildReply PROVE Callers'
  BY <1>0, <1>2 DEF BuildReply, Callers
<1>3. ASSUME NEW t \in Threads, Point(t) PROVE Callers'
  <2>1. Respdata' # NoBuf
    BY <1>0, <1>3, InsideFacts, Constants DEF Point, Goto
  <2> QED
    BY <1>0, <1>3, <2>1 DEF Point, Goto, Types, Callers
<1>4. ASSUME NEW t \in Threads, Writes(t) PROVE Callers'
  BY <1>0, <1>4, WriteFacts DEF Callers
<1>5. ASSUME NEW t \in Threads, Link(t) PROVE Callers'
  BY <1>0, <1>5 DEF Link, Goto, Types, Callers, frameVars
<1>6. ASSUME NEW c \in DOMAIN sendList, Leave(c) PROVE Callers'
  BY <1>0, <1>6 DEF Leave, Callers
<1> QED
  BY <1>1, <1>2, <1>3, <1>4, <1>5, <1>6 DEF Next, Dispose, Writes

-----------------------------------------------------------------------------
\* A number that was read stays above those of the calls that ran alone before.
LEMMA NumbersStep == DisposeInv /\ Next => Numbers'
<1> SUFFICES ASSUME DisposeInv, Next PROVE Numbers'
  OBVIOUS
<1>0. Types /\ Callers /\ Places /\ Numbers /\ \A t \in Threads : Alone(t) => AloneRules(t)
  BY DEF DisposeInv
<1>1. ASSUME NEW t \in Threads, Take(t) \/ Point(t) PROVE Numbers'
  BY <1>0, <1>1 DEF Take, Point, Goto, Types, Numbers, frameVars
<1>2. ASSUME BuildReply PROVE Numbers'
  BY <1>0, <1>2 DEF BuildReply, Numbers
<1>3. ASSUME NEW t \in Threads, WriteHead(t) PROVE Numbers'
  BY <1>0, <1>3 DEF WriteHead, Goto, Types, Numbers
<1>4. ASSUME NEW t \in Threads, WriteSn(t) PROVE Numbers'
  <2>1. PICK n \in {loaded[t], uart_send_sn} : loaded' = [loaded EXCEPT ![t] = n]
    BY <1>4 DEF WriteSn
  <2>2. pc[t] = "sn" /\ pc' = [pc EXCEPT ![t] = "increment"] /\ UNCHANGED <<uart_send_sn, lastAlone>>
    BY <1>4 DEF WriteSn, Goto
  <2> QED
    BY <1>0, <2>1, <2>2 DEF Types, Numbers
<1>5. ASSUME NEW t \in Threads, Increment(t) PROVE Numbers'
  <2>1. /\ pc[t] = "increment" /\ pc' = [pc EXCEPT ![t] = "body"] /\ lastAlone' = lastAlone
        /\ uart_send_sn' = loaded[t] + 1 /\ loaded' = [loaded EXCEPT ![t] = 0]
    BY <1>5 DEF Increment, Goto
  <2>2. uart_send_sn' > lastAlone
    BY <1>0, <2>1 DEF Types, Numbers, NoNumber
  <2> QED
    BY <1>0, <2>1, <2>2 DEF Types, Numbers
<1>6. ASSUME NEW t \in Threads, WriteBody(t) \/ WriteSum(t) PROVE Numbers'
  BY <1>0, <1>6 DEF WriteBody, WriteSum, Goto, Types, Numbers
<1>7. ASSUME NEW t \in Threads, Link(t) PROVE Numbers'
  <2>1. pc[t] = "link" /\ pc' = [pc EXCEPT ![t] = "idle"] /\ UNCHANGED <<uart_send_sn, loaded>>
    BY <1>7 DEF Link, Goto, frameVars
  <2>2. CASE prod[t] \in overlapped
    BY <1>0, <1>7, <2>1, <2>2 DEF Link, Types, Numbers
  <2>3. CASE prod[t] \notin overlapped
    <3>1. AloneRules(t)
      BY <1>0, <2>1, <2>3 DEF Alone
    <3>2. lastAlone' = number[prod[t]] /\ uart_send_sn > number[prod[t]]
      BY <1>7, <2>1, <2>3, <3>1 DEF Link, AloneRules, Progress
    <3>3. \A u \in Threads : pc'[u] = "idle"
      BY <1>0, <2>1, <3>1 DEF AloneRules, Types
    <3> QED
      BY <2>1, <3>2, <3>3 DEF Numbers
  <2> QED
    BY <2>2, <2>3
<1>8. ASSUME NEW c \in DOMAIN sendList, Leave(c) PROVE Numbers'
  BY <1>0, <1>8 DEF Leave, Numbers
<1> QED
  BY <1>1, <1>2, <1>3, <1>4, <1>5, <1>6, <1>7, <1>8 DEF Next, Dispose

-----------------------------------------------------------------------------
\* A buffer that was free has been given to production made + 1: no other buffer is
\* or was with that production, and what is left of the pool is still without one.
LEMMA TakenPlaces ==
    ASSUME Types, Callers, Places, Begin, free' = Tail(free), number' = number
    PROVE  /\ Head(free) \in Buf /\ took'[Head(free)] = made + 1 /\ made' = made + 1
           /\ \A b \in Buf : b # Head(free) => took'[b] = took[b]
           /\ IsInjective(free') /\ ToSet(free') = ToSet(free) \ {Head(free)}
           /\ \A t \in Threads : buf[t] # Head(free)
           /\ \A i \in 1 .. Len(sendList) : sendList[i].buf # Head(free)
           /\ \A b, c \in Buf : took'[b] = took'[c] /\ took'[b] # NoProd => b = c
           /\ \A b \in ToSet(free') : took'[b] = NoProd
           /\ \A p \in Prod : p > made' => number'[p] = NoNumber
           /\ number[made + 1] = NoNumber /\ made + 1 \in Prod
<1>1. /\ free # <<>> /\ made' = made + 1 /\ made \in Nat /\ made + 1 \in Prod
      /\ took'[Head(free)] = made + 1
      /\ \A b \in Buf : b # Head(free) => took'[b] = took[b]
  BY BeginFacts DEF Begin
<1>2. /\ Head(free) \in Buf
      /\ IsInjective(free') /\ ToSet(free') = ToSet(free) \ {Head(free)}
      /\ \A t \in Threads : buf[t] # Head(free)
      /\ \A i \in 1 .. Len(sendList) : sendList[i].buf # Head(free)
  BY <1>1, HeadFacts
<1>3. \A b \in Buf : took[b] \in 0 .. made
  BY DEF Types
<1>4. \A b, c \in Buf : took'[b] = took'[c] /\ took'[b] # NoProd => b = c
  BY <1>1, <1>2, <1>3 DEF Places
<1>5. ToSet(free) \subseteq Buf
  BY ToSetElements DEF Types
<1>6. \A b \in ToSet(free') : took'[b] = NoProd
  BY <1>1, <1>2, <1>5 DEF Places
<1>7. \A p \in Prod : p > made => number[p] = NoNumber
  BY DEF Places
<1> QED
  BY <1>1, <1>2, <1>4, <1>6, <1>7, Constants

\* A buffer stays in one place: pool, caller or list.
LEMMA PlacesStep == DisposeInv /\ Next => Places'
<1> SUFFICES ASSUME DisposeInv, Next PROVE Places'
  OBVIOUS
<1>0. Types /\ Callers /\ Places
  BY DEF DisposeInv
<1>1. ASSUME NEW t \in Threads, Take(t) PROVE Places'
  <2>1. Begin /\ free' = Tail(free) /\ number' = number /\ sendList' = sendList
    BY <1>1 DEF Take
  <2>2. buf' = [buf EXCEPT ![t] = Head(free)] /\ prod' = [prod EXCEPT ![t] = made + 1]
    BY <1>1 DEF Take
  <2>3. \A u \in Threads : /\ buf'[u] = IF u = t THEN Head(free) ELSE buf[u]
                           /\ prod'[u] = IF u = t THEN made + 1 ELSE prod[u]
    BY <1>0, <2>2 DEF Types
  <2>4. \A u, w \in Threads : buf'[u] = buf'[w] /\ buf'[u] # NoBuf => u = w
    BY <1>0, <2>1, <2>3, TakenPlaces DEF Places
  <2>5. \A u \in Threads : buf'[u] # NoBuf => buf'[u] \notin ToSet(free') /\ took'[buf'[u]] = prod'[u]
    <3>1. TAKE u \in Threads
    <3>2. HAVE buf'[u] # NoBuf
    <3>3. CASE u = t
      BY <1>0, <2>1, <2>3, <3>3, TakenPlaces
    <3>4. CASE u # t
      <4>1. buf[u] \in Buf
        BY <1>0, <2>3, <3>2, <3>4 DEF Types
      <4> QED
        BY <1>0, <2>1, <2>3, <3>2, <3>4, <4>1, TakenPlaces DEF Places
    <3> QED
      BY <3>3, <3>4
  <2>6. \A i \in 1 .. Len(sendList) :
          /\ sendList[i].info = took'[sendList[i].buf]
          /\ sendList[i].buf \notin ToSet(free')
          /\ \A u \in Threads : buf'[u] # sendList[i].buf
    <3>1. TAKE i \in 1 .. Len(sendList)
    <3>2. sendList[i].buf \in Buf
      BY <1>0, ItemFacts
    <3>3. sendList[i].buf # Head(free)
      BY <1>0, <2>1, TakenPlaces
    <3>4. sendList[i].info = took'[sendList[i].buf] /\ sendList[i].buf \notin ToSet(free')
      BY <1>0, <2>1, <3>2, <3>3, TakenPlaces DEF Places
    <3>5. \A u \in Threads : buf'[u] # sendList[i].buf
      BY <1>0, <2>3, <3>3 DEF Places
    <3> QED
      BY <3>4, <3>5
  <2> QED
    BY <1>0, <2>1, <2>4, <2>5, <2>6, TakenPlaces DEF Places
<1>2. ASSUME BuildReply PROVE Places'
  <2> DEFINE e == [buf |-> Head(free), info |-> made + 1]
  <2>1. Begin /\ free' = Tail(free) /\ number' = number /\ UNCHANGED <<buf, prod>>
    BY <1>2 DEF BuildReply
  <2>2. sendList' = Append(sendList, e) /\ e \in Items /\ e.buf = Head(free) /\ e.info = made + 1
    BY <1>0, <1>2, <2>1, TakenPlaces DEF BuildReply, Items
  <2> HIDE DEF e
  <2>3. \A u \in Threads : buf[u] # NoBuf => buf[u] \notin ToSet(free') /\ took'[buf[u]] = prod[u]
    <3>1. TAKE u \in Threads
    <3>2. HAVE buf[u] # NoBuf
    <3>3. buf[u] \in Buf
      BY <1>0, <3>2 DEF Types
    <3> QED
      BY <1>0, <2>1, <3>2, <3>3, TakenPlaces DEF Places
  <2>4. \A i \in 1 .. Len(sendList') :
          /\ sendList'[i].info = took'[sendList'[i].buf]
          /\ sendList'[i].buf \notin ToSet(free')
          /\ \A u \in Threads : buf[u] # sendList'[i].buf
    <3>1. TAKE i \in 1 .. Len(sendList')
    <3>2. CASE i \in 1 .. Len(sendList)
      <4>1. sendList'[i] = sendList[i] /\ sendList[i].buf \in Buf
        BY <1>0, <2>2, <3>2, AppendFacts, ItemFacts
      <4> QED
        BY <1>0, <2>1, <3>2, <4>1, TakenPlaces DEF Places
    <3>3. CASE i = Len(sendList) + 1
      BY <1>0, <2>1, <2>2, <3>3, AppendFacts, TakenPlaces
    <3> QED
      BY <1>0, <2>2, <3>2, <3>3, AppendFacts
  <2>5. \A i, j \in 1 .. Len(sendList') : sendList'[i].buf = sendList'[j].buf => i = j
    BY <1>0, <2>1, <2>2, AppendFacts, TakenPlaces DEF Places
  <2> QED
    BY <1>0, <2>1, <2>3, <2>4, <2>5, TakenPlaces DEF Places
<1>3. ASSUME NEW t \in Threads, Point(t) PROVE Places'
  BY <1>0, <1>3 DEF Point, listVars, Places
<1>4. ASSUME NEW t \in Threads, Writes(t) PROVE Places'
  <2>1. \A p \in Prod : p > made => number'[p] = NoNumber
    <3>1. made \in Nat /\ prod[t] \in Prod /\ prod[t] <= made
      BY <1>0, <1>4, WriteFacts DEF Types
    <3>2. \A p \in Prod : p > made => p # prod[t]
      BY <3>1, Constants
    <3> QED
      BY <1>0, <1>4, <3>2, WriteFacts DEF Places
  <2>2. UNCHANGED <<buf, prod, free, sendList, made, took>>
    BY <1>0, <1>4, WriteFacts
  <2> QED
    BY <1>0, <2>1, <2>2 DEF Places
<1>5. ASSUME NEW t \in Threads, Link(t) PROVE Places'
  <2> DEFINE e == [buf |-> buf[t], info |-> prod[t]]
  <2>1. /\ buf[t] \in Buf /\ buf[t] # NoBuf /\ prod[t] \in Prod
    BY <1>0, <1>5, InsideFacts, Constants DEF Link, Goto
  <2>2. sendList' = Append(sendList, e) /\ e \in Items /\ e.buf = buf[t] /\ e.info = prod[t]
    BY <1>5, <2>1 DEF Link, Items
  <2> HIDE DEF e
  <2>3. UNCHANGED <<free, made, took, number>>
    BY <1>5 DEF Link
  <2>4. \A u \in Threads : /\ buf'[u] = IF u = t THEN NoBuf ELSE buf[u]
                           /\ u # t => prod'[u] = prod[u]
    BY <1>0, <1>5 DEF Link, Types
  <2>5. \A i \in 1 .. Len(sendList') :
          /\ sendList'[i].info = took[sendList'[i].buf]
          /\ sendList'[i].buf \notin ToSet(free)
          /\ \A u \in Threads : buf'[u] # sendList'[i].buf
    <3>1. TAKE i \in 1 .. Len(sendList')
    <3>2. CASE i \in 1 .. Len(sendList)
      <4>1. sendList'[i] = sendList[i] /\ sendList[i].buf \in Buf
        BY <1>0, <2>2, <3>2, AppendFacts, ItemFacts
      <4> QED
        BY <1>0, <2>4, <3>2, <4>1, Constants DEF Places
    <3>3. CASE i = Len(sendList) + 1
      <4>1. sendList'[i] = e
        BY <1>0, <2>2, <3>3, AppendFacts
      <4> QED
        BY <1>0, <2>1, <2>2, <2>4, <4>1, Constants DEF Places
    <3> QED
      BY <1>0, <2>2, <3>2, <3>3, AppendFacts
  <2>6. \A i, j \in 1 .. Len(sendList') : sendList'[i].buf = sendList'[j].buf => i = j
    BY <1>0, <2>2, AppendFacts DEF Places
  <2> QED
    BY <1>0, <2>3, <2>4, <2>5, <2>6 DEF Places
<1>6. ASSUME NEW c \in DOMAIN sendList, Leave(c) PROVE Places'
  <2> DEFINE d == sendList[c].buf
  <2>1. /\ c \in 1 .. Len(sendList) /\ d \in Buf /\ sendList[c].info \in Prod
        /\ Len(sendList') = Len(sendList) - 1
        /\ \A i \in 1 .. Len(sendList') :
              sendList'[i] = IF i < c THEN sendList[i] ELSE sendList[i + 1]
        /\ \A i \in 1 .. Len(sendList') : \E j \in 1 .. Len(sendList) :
              /\ sendList'[i] = sendList[j] /\ sendList'[i].buf \in Buf
              /\ sendList'[i].buf # d
        /\ ToSet(free') = ToSet(free) \cup {d} /\ IsInjective(free')
        /\ UNCHANGED <<pc, buf, prod, made>>
    BY <1>0, <1>6, LeaveFacts
  <2>2. /\ took'[d] = NoProd /\ \A b \in Buf : b # d => took'[b] = took[b]
        /\ \A p \in Prod : number'[p] = number[p] \/ number'[p] = NoNumber
    BY <1>0, <1>6, <2>1 DEF Leave, Types
  <2>3. \A t \in Threads : buf[t] # d
    BY <1>0, <2>1 DEF Places
  <2> HIDE DEF d
  <2>4. \A t \in Threads : buf[t] # NoBuf => buf[t] \notin ToSet(free') /\ took'[buf[t]] = prod[t]
    <3>1. \A t \in Threads : buf[t] # NoBuf => buf[t] \in Buf
      BY <1>0 DEF Types
    <3> QED
      BY <1>0, <2>1, <2>2, <2>3, <3>1 DEF Places
  <2>5. \A i \in 1 .. Len(sendList') :
          /\ sendList'[i].info = took'[sendList'[i].buf]
          /\ sendList'[i].buf \notin ToSet(free')
          /\ \A t \in Threads : buf[t] # sendList'[i].buf
    <3>1. TAKE i \in 1 .. Len(sendList')
    <3>2. PICK j \in 1 .. Len(sendList) :
             sendList'[i] = sendList[j] /\ sendList[j].buf \in Buf /\ sendList[j].buf # d
      BY <2>1
    <3>3. took'[sendList[j].buf] = took[sendList[j].buf]
      BY <2>2, <3>2
    <3> QED
      BY <1>0, <2>1, <3>2, <3>3 DEF Places
  <2>6. \A i, j \in 1 .. Len(sendList') : sendList'[i].buf = sendList'[j].buf => i = j
    <3>1. TAKE i, j \in 1 .. Len(sendList')
    <3>2. HAVE sendList'[i].buf = sendList'[j].buf
    <3> DEFINE from(k) == IF k < c THEN k ELSE k + 1
    <3>3. Len(sendList) \in Nat
      BY <1>0 DEF Types
    <3>4. from(i) \in 1 .. Len(sendList) /\ from(j) \in 1 .. Len(sendList)
      BY <2>1, <3>3
    <3>5. sendList[from(i)].buf = sendList[from(j)].buf
      BY <2>1, <3>2
    <3>6. from(i) = from(j)
      BY <1>0, <3>4, <3>5 DEF Places
    <3> QED
      BY <2>1, <3>6
  <2>7. \A b, e \in Buf : took'[b] = took'[e] /\ took'[b] # NoProd => b = e
    BY <1>0, <2>2 DEF Places
  <2>8. \A b \in ToSet(free') : took'[b] = NoProd
    <3>1. ToSet(free) \subseteq Buf
      BY <1>0, ToSetElements DEF Types
    <3> QED
      BY <1>0, <2>1, <2>2, <3>1 DEF Places
  <2>9. \A p \in Prod : p > made => number'[p] = NoNumber
    BY <1>0, <2>2 DEF Places
  <2> QED
    BY <1>0, <2>1, <2>4, <2>5, <2>6, <2>7, <2>8, <2>9 DEF Places
<1> QED
  BY <1>1, <1>2, <1>3, <1>4, <1>5, <1>6 DEF Next, Dispose, Writes

-----------------------------------------------------------------------------
\* The shared pointer does not return to a frame of a call that ran alone.
LEMMA LeftStep == DisposeInv /\ Next => Left'
<1> SUFFICES ASSUME DisposeInv, Next PROVE Left'
  OBVIOUS
<1>0. /\ Types /\ Callers /\ Places /\ Left
      /\ \A t \in Threads : Alone(t) => AloneRules(t)
  BY DEF DisposeInv
<1>1. ASSUME NEW t \in Threads, Take(t) PROVE Left'
  <2>1. Begin /\ UNCHANGED <<Respdata, content, sendList, number>>
    BY <1>1 DEF Take, frameVars
  <2>2. \A u \in Threads : pc'[u] \notin {"idle", "point"} => pc[u] \notin {"idle", "point"}
    BY <1>0, <1>1 DEF Take, Goto, Types
  <2>3. \A i \in 1 .. Len(sendList) : sendList[i].info \notin overlapped' =>
           sendList[i].info \notin overlapped
    BY <1>0, <2>1, BeginFacts
  <2> QED
    BY <1>0, <2>1, <2>2, <2>3 DEF Left, Intact
<1>2. ASSUME BuildReply PROVE Left'
  <2> DEFINE e == [buf |-> Head(free), info |-> made + 1]
  <2>1. /\ Begin /\ free' = Tail(free) /\ UNCHANGED <<pc, Respdata, number>>
        /\ content' = [content EXCEPT ![Head(free)] = Reply(made + 1)]
    BY <1>2 DEF BuildReply
  <2>2. sendList' = Append(sendList, e) /\ e \in Items /\ e.buf = Head(free) /\ e.info = made + 1
    BY <1>0, <1>2, <2>1, TakenPlaces DEF BuildReply, Items
  <2> HIDE DEF e
  <2>3. SUFFICES ASSUME NEW i \in 1 .. Len(sendList'), sendList'[i].info \notin overlapped'
                 PROVE  /\ Intact(content[sendList[i].buf], sendList[i].info)'
                        /\ \A u \in Threads : pc'[u] \notin {"idle", "point"} => Respdata' # sendList'[i].buf
    BY DEF Left
  <2>4. CASE i \in 1 .. Len(sendList)
    <3>1. sendList'[i] = sendList[i] /\ sendList[i].buf \in Buf /\ sendList[i].info \notin overlapped
      BY <1>0, <2>1, <2>2, <2>3, <2>4, AppendFacts, ItemFacts, BeginFacts
    <3>2. content'[sendList[i].buf] = content[sendList[i].buf]
      BY <1>0, <2>1, <2>4, <3>1, TakenPlaces DEF Types
    <3> QED
      BY <1>0, <2>1, <2>4, <3>1, <3>2 DEF Left, Intact
  <2>5. CASE i = Len(sendList) + 1
    <3>1. sendList'[i] = e
      BY <1>0, <2>2, <2>5, AppendFacts
    <3>2. content'[e.buf] = Reply(made + 1) /\ number[made + 1] = NoNumber
      BY <1>0, <2>1, <2>2, TakenPlaces DEF Types
    <3>3. \A u \in Threads : pc[u] = "idle"
      BY <1>0, <2>1, <2>2, <2>3, <3>1, BeginFacts
    <3> QED
      BY <2>1, <2>2, <3>1, <3>2, <3>3 DEF Intact, Reply, Summed
  <2> QED
    BY <1>0, <2>2, <2>3, <2>4, <2>5, AppendFacts
<1>3. ASSUME NEW t \in Threads, Point(t) PROVE Left'
  <2>1. \A i \in 1 .. Len(sendList) : Respdata' # sendList[i].buf
    BY <1>0, <1>3 DEF Point, Places
  <2> QED
    BY <1>0, <1>3, <2>1 DEF Point, listVars, Left, Intact
<1>4. ASSUME NEW t \in Threads, Writes(t) PROVE Left'
  <2>1. SUFFICES ASSUME NEW i \in 1 .. Len(sendList), sendList[i].info \notin overlapped
                 PROVE  /\ Intact(content[sendList[i].buf], sendList[i].info)'
                        /\ \A u \in Threads : pc'[u] \notin {"idle", "point"} => Respdata # sendList[i].buf
    BY <1>0, <1>4, WriteFacts DEF Left
  <2>2. /\ sendList[i].buf \in Buf /\ sendList[i].info \in Prod
        /\ pc[t] \notin {"idle", "point"} /\ sendList' = sendList
    BY <1>0, <1>4, WriteFacts, ItemFacts
  <2>3. /\ Intact(content[sendList[i].buf], sendList[i].info)
        /\ Respdata # sendList[i].buf
    BY <1>0, <2>1, <2>2 DEF Left
  <2>4. sendList[i].buf \notin Target(t)
    BY <1>0, <2>3 DEF Target, Places
  <2>5. content'[sendList[i].buf] = content[sendList[i].buf]
    BY <1>0, <1>4, <2>2, <2>4, WriteFacts
  <2>6. number'[sendList[i].info] = number[sendList[i].info]
    BY <1>0, <1>4, <2>2, WriteFacts, OwnProduction
  <2> QED
    BY <2>2, <2>3, <2>5, <2>6 DEF Intact
<1>5. ASSUME NEW t \in Threads, Link(t) PROVE Left'
  <2> DEFINE e == [buf |-> buf[t], info |-> prod[t]]
  <2>1. /\ buf[t] \in Buf /\ prod[t] \in Prod /\ pc[t] = "link"
        /\ UNCHANGED <<Respdata, content, number, overlapped>>
        /\ \A u \in Threads : pc'[u] = IF u = t THEN "idle" ELSE pc[u]
    BY <1>0, <1>5, InsideFacts DEF Link, Goto, frameVars, Types
  <2>2. sendList' = Append(sendList, e) /\ e \in Items /\ e.buf = buf[t] /\ e.info = prod[t]
    BY <1>5, <2>1 DEF Link, Items
  <2> HIDE DEF e
  <2>3. SUFFICES ASSUME NEW i \in 1 .. Len(sendList'), sendList'[i].info \notin overlapped
                 PROVE  /\ Intact(content[sendList[i].buf], sendList[i].info)'
                        /\ \A u \in Threads : pc'[u] \notin {"idle", "point"} => Respdata # sendList'[i].buf
    BY <2>1 DEF Left
  <2>4. CASE i \in 1 .. Len(sendList)
    <3>1. sendList'[i] = sendList[i]
      BY <1>0, <2>2, <2>4, AppendFacts
    <3>2. \A u \in Threads : pc'[u] \notin {"idle", "point"} => pc[u] \notin {"idle", "point"}
      BY <2>1
    <3> QED
      BY <1>0, <2>1, <2>3, <2>4, <3>1, <3>2 DEF Left, Intact
  <2>5. CASE i = Len(sendList) + 1
    <3>1. sendList'[i] = e
      BY <1>0, <2>2, <2>5, AppendFacts
    <3>2. AloneRules(t)
      BY <1>0, <2>1, <2>2, <2>3, <3>1 DEF Alone
    <3>3. Intact(content[buf[t]], prod[t])
      BY <2>1, <3>2 DEF AloneRules, Progress, Intact
    <3>4. \A u \in Threads : pc'[u] = "idle"
      BY <2>1, <3>2 DEF AloneRules
    <3> QED
      BY <2>1, <2>2, <3>1, <3>3, <3>4 DEF Intact
  <2> QED
    BY <1>0, <2>2, <2>3, <2>4, <2>5, AppendFacts
<1>6. ASSUME NEW c \in DOMAIN sendList, Leave(c) PROVE Left'
  <2>1. SUFFICES ASSUME NEW i \in 1 .. Len(sendList'), sendList'[i].info \notin overlapped'
                 PROVE  /\ Intact(content[sendList[i].buf], sendList[i].info)'
                        /\ \A u \in Threads : pc'[u] \notin {"idle", "point"} => Respdata' # sendList'[i].buf
    BY DEF Left
  <2>2. PICK j \in 1 .. Len(sendList) :
           /\ sendList'[i] = sendList[j] /\ sendList[j].buf \in Buf
           /\ sendList[j].buf # sendList[c].buf /\ sendList[j].info # sendList[c].info
    <3>1. PICK j \in 1 .. Len(sendList) :
             /\ sendList'[i] = sendList[j] /\ sendList'[i].buf \in Buf
             /\ sendList'[i].buf # sendList[c].buf /\ sendList'[i].info # sendList[c].info
      BY <1>0, <1>6, LeaveFacts
    <3> QED
      BY <3>1
  <2>3. sendList[j].info \in Prod /\ sendList[c].buf \in Buf /\ sendList[c].info \in Prod
        /\ UNCHANGED <<pc, Respdata>>
    BY <1>0, <1>6, ItemFacts, LeaveFacts
  <2>4. sendList[j].info \notin overlapped
    BY <1>6, <2>1, <2>2 DEF Leave
  <2>5. content'[sendList[j].buf] = content[sendList[j].buf]
    BY <1>0, <1>6, <2>2, <2>3 DEF Leave, Types
  <2>6. number'[sendList[j].info] = number[sendList[j].info]
    BY <1>0, <1>6, <2>2, <2>3 DEF Leave, Types
  <2> QED
    BY <1>0, <2>2, <2>3, <2>4, <2>5, <2>6 DEF Left, Intact
<1> QED
  BY <1>1, <1>2, <1>3, <1>4, <1>5, <1>6 DEF Next, Dispose, Writes

-----------------------------------------------------------------------------
\* A write of a caller that runs alone goes into its own frame.
LEMMA ProgressStep ==
    ASSUME Types, Callers, Places, Numbers, NEW t \in Threads, Writes(t), AloneRules(t)
    PROVE  Progress(t)'
<1>1. /\ buf[t] \in Buf /\ prod[t] \in Prod /\ buf' = buf /\ prod' = prod /\ lastAlone' = lastAlone
      /\ Target(t) = {buf[t]} /\ Progress(t)
  <2>1. pc[t] # "point" /\ UNCHANGED <<buf, prod, lastAlone>> /\ buf[t] \in Buf /\ prod[t] \in Prod
    BY WriteFacts
  <2>2. Respdata = buf[t] /\ Progress(t)
    BY <2>1 DEF AloneRules
  <2> QED
    BY <2>1, <2>2 DEF Target
<1>2. content \in [Buf -> Contents] /\ content[buf[t]] \in Contents
  BY <1>1 DEF Types
<1>3. CASE WriteHead(t)
  <2>1. /\ pc'[t] = "sn" /\ loaded'[t] = uart_send_sn' /\ content'[buf[t]].head = prod[t]
    BY <1>1, <1>2, <1>3 DEF WriteHead, Goto, Types, Contents
  <2> QED
    BY <1>1, <2>1 DEF Progress
<1>4. CASE WriteSn(t)
  <2>1. /\ pc[t] = "sn" /\ pc'[t] = "increment"
        /\ content'[buf[t]].head = content[buf[t]].head /\ content'[buf[t]].sn = loaded[t]
    BY <1>1, <1>2, <1>4 DEF WriteSn, Goto, Types, Contents
  <2>2. number'[prod[t]] = loaded[t]
    BY <1>1, <1>4 DEF WriteSn, Types
  <2>3. loaded[t] = uart_send_sn /\ loaded[t] > lastAlone
    BY <1>1, <2>1 DEF Progress, Numbers
  <2>4. loaded'[t] = loaded[t]
    BY <1>4, <2>3 DEF WriteSn, Types
  <2> QED
    BY <1>1, <2>1, <2>2, <2>3, <2>4 DEF Progress
<1>5. CASE Increment(t)
  <2>1. /\ pc[t] = "increment" /\ pc'[t] = "body" /\ UNCHANGED <<content, number>>
        /\ uart_send_sn' = loaded[t] + 1
    BY <1>5 DEF Increment, Goto, Types
  <2>2. loaded[t] = number[prod[t]] /\ loaded[t] \in Nat
    BY <1>1, <2>1 DEF Progress, Types
  <2> QED
    BY <1>1, <2>1, <2>2 DEF Progress
<1>6. CASE WriteBody(t)
  <2>1. /\ pc[t] = "body" /\ pc'[t] = "sum" /\ UNCHANGED <<number, uart_send_sn>>
        /\ content'[buf[t]].head = content[buf[t]].head /\ content'[buf[t]].sn = content[buf[t]].sn
        /\ content'[buf[t]].body = prod[t]
    BY <1>1, <1>2, <1>6 DEF WriteBody, Goto, Types, Contents
  <2> QED
    BY <1>1, <2>1 DEF Progress
<1>7. CASE WriteSum(t)
  <2> DEFINE f == content[buf[t]]
  <2>1. content' = [content EXCEPT ![buf[t]].sum = Summed(f)]
    BY <1>1, <1>7 DEF WriteSum
  <2>2. /\ content'[buf[t]].head = f.head /\ content'[buf[t]].sn = f.sn
        /\ content'[buf[t]].body = f.body /\ content'[buf[t]].sum = Summed(f)
    BY <1>1, <1>2, <2>1 DEF Contents
  <2>3. /\ pc[t] = "sum" /\ pc'[t] = "link" /\ UNCHANGED <<number, uart_send_sn>>
    BY <1>7 DEF WriteSum, Goto, Types
  <2> QED
    BY <1>1, <2>2, <2>3 DEF Progress, Summed
<1> QED
  BY <1>3, <1>4, <1>5, <1>6, <1>7 DEF Writes

\* The progress of a call that runs alone.
LEMMA AloneStep == DisposeInv /\ Next => \A u \in Threads : Alone(u)' => AloneRules(u)'
<1> SUFFICES ASSUME DisposeInv, Next, NEW u \in Threads, Alone(u)' PROVE AloneRules(u)'
  OBVIOUS
<1>0. /\ Types /\ Callers /\ Places /\ Numbers
      /\ Alone(u) => AloneRules(u)
      /\ pc'[u] # "idle" /\ prod'[u] \notin overlapped'
  BY DEF DisposeInv, Alone
<1>1. ASSUME NEW t \in Threads, Take(t) PROVE AloneRules(u)'
  <2>1. /\ Begin /\ pc[t] = "idle"
        /\ \A w \in Threads : /\ pc'[w] = IF w = t THEN "point" ELSE pc[w]
                              /\ prod'[w] = IF w = t THEN made + 1 ELSE prod[w]
    BY <1>0, <1>1 DEF Take, Goto, Types
  <2>2. u = t
    BY <1>0, <2>1, BeginFacts
  <2>3. \A w \in Threads : pc[w] = "idle"
    BY <1>0, <2>1, <2>2, BeginFacts
  <2> QED
    BY <2>1, <2>2, <2>3 DEF AloneRules, Progress
<1>2. ASSUME BuildReply PROVE AloneRules(u)'
  BY <1>0, <1>2, BeginFacts DEF BuildReply
<1>3. ASSUME NEW t \in Threads, Point(t) PROVE AloneRules(u)'
  <2>1. /\ pc[t] = "point" /\ Respdata' = buf[t] /\ UNCHANGED <<buf, prod, overlapped>>
        /\ \A w \in Threads : pc'[w] = IF w = t THEN "head" ELSE pc[w]
    BY <1>0, <1>3 DEF Point, Goto, Types
  <2>2. AloneRules(u) /\ u = t
    BY <1>0, <2>1 DEF Alone, AloneRules
  <2> QED
    BY <2>1, <2>2 DEF AloneRules, Progress
<1>4. ASSUME NEW t \in Threads, Writes(t) PROVE AloneRules(u)'
  <2>1. /\ pc[t] # "idle" /\ pc[t] # "point" /\ UNCHANGED <<buf, prod, Respdata, overlapped>>
        /\ \A w \in Threads : w # t => pc'[w] = pc[w]
    BY <1>0, <1>4, WriteFacts
  <2>2. AloneRules(u) /\ u = t
    BY <1>0, <2>1 DEF Alone, AloneRules
  <2>3. Progress(u)'
    BY <1>0, <1>4, <2>2, ProgressStep
  <2> QED
    BY <2>1, <2>2, <2>3 DEF AloneRules
<1>5. ASSUME NEW t \in Threads, Link(t) PROVE AloneRules(u)'
  <2>1. /\ pc[t] = "link" /\ overlapped' = overlapped /\ pc'[t] = "idle"
        /\ \A w \in Threads : w # t => pc'[w] = pc[w] /\ prod'[w] = prod[w]
    BY <1>0, <1>5 DEF Link, Goto, Types
  <2> QED
    BY <1>0, <2>1 DEF Alone, AloneRules
<1>6. ASSUME NEW c \in DOMAIN sendList, Leave(c) PROVE AloneRules(u)'
  <2>1. /\ c \in 1 .. Len(sendList) /\ sendList[c].buf \in Buf /\ sendList[c].info \in Prod
        /\ UNCHANGED <<pc, buf, prod, Respdata, uart_send_sn, loaded, lastAlone>>
    BY <1>0, <1>6, LeaveFacts
  <2>2. buf[u] \in Buf /\ prod[u] \in Prod /\ buf[u] # sendList[c].buf /\ prod[u] # sendList[c].info
    BY <1>0, <2>1, InsideFacts, OwnProduction DEF Places
  <2>3. AloneRules(u)
    BY <1>0, <1>6, <2>1, <2>2 DEF Leave, Alone
  <2>4. content'[buf[u]] = content[buf[u]] /\ number'[prod[u]] = number[prod[u]]
    BY <1>0, <1>6, <2>1, <2>2 DEF Leave, Types
  <2> QED
    BY <2>1, <2>3, <2>4 DEF AloneRules, Progress
<1> QED
  BY <1>1, <1>2, <1>3, <1>4, <1>5, <1>6 DEF Next, Dispose, Writes

-----------------------------------------------------------------------------
(* The theorems.                                                             *)

\* A step that changes nothing.
LEMMA DisposeStutter == DisposeInv /\ UNCHANGED vars => DisposeInv'
  BY DEF vars, frameVars, listVars, DisposeInv, Types, Callers, Places, Left, Numbers,
         Intact, Alone, AloneRules, Progress

\* The invariant holds always.
LEMMA DisposeAlways == Spec => []DisposeInv
<1>1. DisposeInv /\ [Next]_vars => DisposeInv'
  <2>1. DisposeInv /\ Next => DisposeInv'
    BY TypesStep, CallersStep, PlacesStep, LeftStep, NumbersStep, AloneStep DEF DisposeInv
  <2> QED
    BY <2>1, DisposeStutter
<1> QED
  BY DisposeInit, <1>1, PTL DEF Spec

\* Every variable of a behaviour of uart_protocol_dispose keeps its type.
THEOREM DisposeTypes == Spec => []TypeOK
<1>1. DisposeInv => TypeOK
  <2>1. SUFFICES ASSUME Types, Callers PROVE TypeOK
    BY DEF DisposeInv
  <2>2. \A b \in Buf : DOMAIN content[b] = DOMAIN Blank
    BY <2>1 DEF Types, Contents, Blank
  <2>3. overlapped \subseteq Prod
    BY <2>1, Constants DEF Types
  <2> QED
    BY <2>1, <2>2, <2>3 DEF TypeOK, Types, Callers, Pcs, Items
<1> QED
  BY DisposeAlways, <1>1, PTL

\* However many threads are inside uart_protocol_dispose, each links the buffer it
\* took, once and with its own poll.type (the local sendpdata, not the static).
THEOREM DisposeOwnBufferLinked == Spec => []OwnBufferLinked
<1>1. DisposeInv => OwnBufferLinked
  <2>1. SUFFICES ASSUME Types, Places PROVE OwnBufferLinked
    BY DEF DisposeInv
  <2>2. DOMAIN sendList = 1 .. Len(sendList)
    BY <2>1 DEF Types
  <2> QED
    BY <2>1, <2>2 DEF OwnBufferLinked, Places
<1> QED
  BY DisposeAlways, <1>1, PTL

\* A frame whose production overlapped no other is intact while it is listed, whatever
\* later calls do through Respdata.
THEOREM DisposeAloneIntact == Spec => []AloneIntact
<1>1. DisposeInv => AloneIntact
  <2>1. SUFFICES ASSUME Types, Left PROVE AloneIntact
    BY DEF DisposeInv
  <2>2. DOMAIN sendList = 1 .. Len(sendList)
    BY <2>1 DEF Types
  <2> QED
    BY <2>1, <2>2 DEF AloneIntact, Left
<1> QED
  BY DisposeAlways, <1>1, PTL

\* A call that runs alone numbers its frame above all those before it that ran alone:
\* a late store of uart_send_sn never takes the counter back behind one of them.
THEOREM DisposeAloneNumbersGrow == Spec => []AloneNumbersGrow
<1>1. DisposeInv => AloneNumbersGrow
  BY DEF DisposeInv, Alone, AloneRules, Progress, AloneNumbersGrow
<1> QED
  BY DisposeAlways, <1>1, PTL
=============================================================================
