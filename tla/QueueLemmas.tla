---------------------------- MODULE QueueLemmas -----------------------------
(***************************************************************************)
(* Facts about the queues of the program.                                  *)
(*  - Sequences used as queues: the lemmas that the proofs about lists,    *)
(*    pools and mailboxes cite.                                            *)
(*  - list.c keeps what UartSend and Hid take for granted: that a pool and *)
(*    the send list are sequences, taken at the head, extended at the      *)
(*    tail, and with an entry removed wherever it is.                      *)
(***************************************************************************)
EXTENDS ListRing, SequenceTheorems, TLAPS

-----------------------------------------------------------------------------
(* What the operators on queues do to the set of their elements.             *)

\* Elements of a sequence are the values at its positions.
LEMMA ToSetElements ==
    ASSUME NEW S, NEW s \in Seq(S)
    PROVE  /\ \A x : x \in ToSet(s) <=> \E i \in 1 .. Len(s) : s[i] = x
           /\ ToSet(s) \subseteq S
  BY DEF ToSet

\* A value that is not queued yet joins a queue without repeated elements.
LEMMA AppendSet ==
    ASSUME NEW S, NEW s \in Seq(S), NEW e \in S
    PROVE  /\ Append(s, e) \in Seq(S)
           /\ ToSet(Append(s, e)) = ToSet(s) \cup {e}
           /\ IsInjective(s) /\ e \notin ToSet(s) => IsInjective(Append(s, e))
<1> DEFINE q == Append(s, e)
<1>1. q \in Seq(S) /\ Len(q) = Len(s) + 1 /\ \A i \in 1 .. Len(q) : q[i] = IF i <= Len(s) THEN s[i] ELSE e
  OBVIOUS
<1>2. DOMAIN q = 1 .. Len(q) /\ DOMAIN s = 1 .. Len(s) /\ Len(s) \in Nat
  BY <1>1
<1> HIDE DEF q
<1>3. ASSUME NEW x PROVE x \in ToSet(q) <=> x \in ToSet(s) \cup {e}
  <2>1. x \in ToSet(q) <=> \E i \in 1 .. Len(q) : q[i] = x
    BY <1>1, ToSetElements
  <2>2. x \in ToSet(s) <=> \E i \in 1 .. Len(s) : s[i] = x
    BY ToSetElements
  <2>3. q[Len(s) + 1] = e
    BY <1>1, <1>2
  <2> QED BY <1>1, <1>2, <2>1, <2>2, <2>3
<1>4. ASSUME IsInjective(s), e \notin ToSet(s) PROVE IsInjective(q)
  <2>1. \A i \in 1 .. Len(s) : s[i] # e
    BY <1>4, ToSetElements
  <2> QED BY <1>1, <1>2, <1>4, <2>1 DEF IsInjective
<1> QED BY <1>1, <1>3, <1>4 DEF q

\* Taking the head out of a queue without repeated elements.
LEMMA TailSet ==
    ASSUME NEW S, NEW s \in Seq(S), s # <<>>
    PROVE  /\ Head(s) \in S /\ Head(s) \in ToSet(s) /\ Tail(s) \in Seq(S)
           /\ IsInjective(s) => /\ IsInjective(Tail(s))
                                /\ ToSet(Tail(s)) = ToSet(s) \ {Head(s)}
<1> DEFINE q == Tail(s)
<1>1. /\ q \in Seq(S) /\ Len(q) = Len(s) - 1 /\ Len(s) \in Nat \ {0}
      /\ \A i \in 1 .. Len(q) : q[i] = s[i + 1]
      /\ Head(s) = s[1] /\ s[1] \in S
  OBVIOUS
<1>2. DOMAIN q = 1 .. Len(q) /\ DOMAIN s = 1 .. Len(s)
  BY <1>1
<1>3. Head(s) \in ToSet(s)
  BY <1>1, ToSetElements
<1> HIDE DEF q
<1>4. ASSUME IsInjective(s) PROVE IsInjective(q)
  <2>1. ASSUME NEW i \in 1 .. Len(q), NEW j \in 1 .. Len(q), q[i] = q[j] PROVE i = j
    <3>1. i + 1 \in DOMAIN s /\ j + 1 \in DOMAIN s /\ s[i + 1] = s[j + 1]
      BY <1>1, <1>2, <2>1
    <3> QED BY <3>1, <1>4 DEF IsInjective
  <2> QED BY <1>2, <2>1 DEF IsInjective
<1>5. ASSUME IsInjective(s), NEW x PROVE x \in ToSet(q) <=> x \in ToSet(s) \ {Head(s)}
  <2>1. x \in ToSet(q) <=> \E i \in 1 .. Len(q) : q[i] = x
    BY <1>1, ToSetElements
  <2>2. x \in ToSet(s) <=> \E i \in 1 .. Len(s) : s[i] = x
    BY ToSetElements
  <2>3. ASSUME NEW i \in 1 .. Len(q), q[i] = x PROVE x \in ToSet(s) /\ x # Head(s)
    BY <1>1, <1>2, <1>5, <2>2, <2>3 DEF IsInjective
  <2>4. ASSUME NEW i \in 1 .. Len(s), s[i] = x, x # Head(s) PROVE x \in ToSet(q)
    <3>1. i - 1 \in 1 .. Len(q) /\ q[i - 1] = s[i]
      BY <1>1, <2>4
    <3> QED BY <3>1, <2>1, <2>4
  <2> QED BY <2>1, <2>2, <2>3, <2>4
<1> QED BY <1>1, <1>3, <1>4, <1>5 DEF q

\* The entries of a list without the one at position c.
LEMMA RemoveAtItems ==
    ASSUME NEW S, NEW s \in Seq(S), NEW c \in 1 .. Len(s)
    PROVE  /\ RemoveAt(s, c) \in Seq(S) /\ Len(RemoveAt(s, c)) = Len(s) - 1
           /\ \A i \in 1 .. Len(s) - 1 :
                 RemoveAt(s, c)[i] = IF i < c THEN s[i] ELSE s[i + 1]
<1> DEFINE l == SubSeq(s, 1, c - 1)
           r == SubSeq(s, c + 1, Len(s))
           q == RemoveAt(s, c)
<1>1. Len(s) \in Nat /\ c \in Nat /\ 1 <= c /\ c <= Len(s) /\ \A i \in 1 .. Len(s) : s[i] \in S
  OBVIOUS
<1>2. l \in Seq(S) /\ Len(l) = c - 1 /\ \A i \in 1 .. c - 1 : l[i] = s[i]
  BY <1>1
<1>3. r \in Seq(S) /\ Len(r) = Len(s) - c /\ \A i \in 1 .. Len(s) - c : r[i] = s[i + c]
  BY <1>1
<1>4. q = l \o r
  BY DEF RemoveAt
<1> HIDE DEF l, r, q
<1>5. q \in Seq(S) /\ Len(q) = Len(s) - 1
  <2>1. q \in Seq(S) /\ Len(q) = Len(l) + Len(r)
    BY <1>2, <1>3, <1>4, ConcatProperties
  <2> QED BY <2>1, <1>1, <1>2, <1>3
<1>6. \A i \in 1 .. Len(q) : q[i] = IF i < c THEN s[i] ELSE s[i + 1]
  <2>1. TAKE i \in 1 .. Len(q)
  <2>2. CASE i < c
    BY <2>2, <1>1, <1>2, <1>3, <1>4, <1>5
  <2>3. CASE ~(i < c)
    <3>1. q[i] = r[i - Len(l)]
      BY <2>3, <1>1, <1>2, <1>3, <1>4, <1>5
    <3>2. i - (c - 1) \in 1 .. Len(s) - c
      BY <2>3, <1>1, <1>5
    <3>3. r[i - (c - 1)] = s[i - (c - 1) + c]
      BY <3>2, <1>3
    <3> QED BY <3>1, <3>3, <1>1, <1>2, <2>3
  <2> QED BY <2>2, <2>3
<1> QED
  BY <1>5, <1>6 DEF q

\* list_del of one entry of a list without repeated elements.
LEMMA RemoveAtSet ==
    ASSUME NEW S, NEW s \in Seq(S), NEW c \in 1 .. Len(s)
    PROVE  /\ RemoveAt(s, c) \in Seq(S)
           /\ IsInjective(s) => /\ IsInjective(RemoveAt(s, c))
                                /\ ToSet(RemoveAt(s, c)) = ToSet(s) \ {s[c]}
<1> DEFINE q == RemoveAt(s, c)
<1>1. Len(s) \in Nat /\ c \in Nat /\ 1 <= c /\ c <= Len(s) /\ \A i \in 1 .. Len(s) : s[i] \in S
  OBVIOUS
<1>5. q \in Seq(S) /\ Len(q) = Len(s) - 1
  BY RemoveAtItems
<1>6. \A i \in 1 .. Len(q) : q[i] = IF i < c THEN s[i] ELSE s[i + 1]
  BY <1>5, RemoveAtItems
<1> HIDE DEF q
<1>7. DOMAIN q = 1 .. Len(q) /\ DOMAIN s = 1 .. Len(s)
  BY <1>5
<1>8. ASSUME IsInjective(s) PROVE IsInjective(q)
  <2>1. ASSUME NEW i \in 1 .. Len(q), NEW j \in 1 .. Len(q), q[i] = q[j] PROVE i = j
    <3> DEFINE at(k) == IF k < c THEN k ELSE k + 1
    <3>1. at(i) \in 1 .. Len(s) /\ at(j) \in 1 .. Len(s)
      BY <1>1, <1>5
    <3>2. s[at(i)] = s[at(j)]
      BY <1>6, <2>1
    <3>3. at(i) = at(j)
      BY <3>1, <3>2, <1>7, <1>8 DEF IsInjective
    <3> QED BY <3>3, <1>1
  <2> QED BY <1>7, <2>1 DEF IsInjective
<1>9. ASSUME IsInjective(s), NEW x PROVE x \in ToSet(q) <=> x \in ToSet(s) \ {s[c]}
  <2>1. x \in ToSet(q) <=> \E i \in 1 .. Len(q) : q[i] = x
    BY <1>5, ToSetElements
  <2>2. x \in ToSet(s) <=> \E i \in 1 .. Len(s) : s[i] = x
    BY ToSetElements
  <2>3. ASSUME NEW i \in 1 .. Len(q), q[i] = x PROVE x \in ToSet(s) /\ x # s[c]
    BY <1>1, <1>5, <1>6, <1>7, <1>9, <2>2, <2>3 DEF IsInjective
  <2>4. ASSUME NEW i \in 1 .. Len(s), s[i] = x, x # s[c] PROVE x \in ToSet(q)
    <3>1. CASE i < c
      BY <3>1, <1>1, <1>5, <1>6, <2>1, <2>4
    <3>2. CASE ~(i < c)
      <4>1. i > c
        BY <3>2, <2>4, <1>1
      <4>2. i - 1 \in 1 .. Len(q) /\ q[i - 1] = s[i]
        BY <4>1, <1>1, <1>5, <1>6
      <4> QED BY <4>2, <2>1, <2>4
    <3> QED BY <3>1, <3>2
  <2> QED BY <2>1, <2>2, <2>3, <2>4
<1> QED BY <1>5, <1>8, <1>9 DEF q

-----------------------------------------------------------------------------
(* A queue whose elements stand for something else: e for F[e].              *)

Meanings(S, F) == {F[e] : e \in S}
Mapped(s, F) == [i \in DOMAIN s |-> F[s[i]]]

\* Its places are those of the queue.
LEMMA MappedItems ==
    ASSUME NEW S, NEW s \in Seq(S), NEW F
    PROVE  /\ Mapped(s, F) \in Seq(Meanings(S, F)) /\ Len(Mapped(s, F)) = Len(s)
           /\ DOMAIN Mapped(s, F) = 1 .. Len(s)
           /\ \A i \in 1 .. Len(s) : Mapped(s, F)[i] = F[s[i]]
<1>1. DOMAIN s = 1 .. Len(s) /\ Len(s) \in Nat /\ \A i \in 1 .. Len(s) : s[i] \in S
  OBVIOUS
<1> DEFINE E == Meanings(S, F)
<1>2. Mapped(s, F) \in [1 .. Len(s) -> E] /\ \A i \in 1 .. Len(s) : Mapped(s, F)[i] = F[s[i]]
  BY <1>1 DEF Mapped, Meanings
<1>3. Mapped(s, F) \in Seq(E)
  BY <1>1, <1>2
<1> QED BY <1>1, <1>2, <1>3

\* Only what the queued elements stand for matters.
LEMMA MappedSame ==
    ASSUME NEW S, NEW s \in Seq(S), NEW F, NEW G, \A e \in ToSet(s) : F[e] = G[e]
    PROVE  Mapped(s, F) = Mapped(s, G)
<1>1. \A i \in DOMAIN s : s[i] \in ToSet(s)
  BY DEF ToSet
<1> QED BY <1>1 DEF Mapped

\* What a queue stands for grows at its end with it, ...
LEMMA MappedAppend ==
    ASSUME NEW S, NEW s \in Seq(S), NEW F, NEW e \in S
    PROVE  Mapped(Append(s, e), F) = Append(Mapped(s, F), F[e])
<1> DEFINE E == Meanings(S, F)
           q == Append(s, e)
           l == Mapped(q, F)
           m == Mapped(s, F)
           r == Append(m, F[e])
<1>1. q \in Seq(S) /\ Len(q) = Len(s) + 1 /\ \A i \in 1 .. Len(q) : q[i] = IF i <= Len(s) THEN s[i] ELSE e
  OBVIOUS
<1> HIDE DEF q
<1>2. /\ l \in Seq(E) /\ Len(l) = Len(q) /\ \A i \in 1 .. Len(q) : l[i] = F[q[i]]
      /\ m \in Seq(E) /\ Len(m) = Len(s) /\ \A i \in 1 .. Len(s) : m[i] = F[s[i]]
  BY <1>1, MappedItems
<1>3. F[e] \in E
  BY DEF Meanings
<1> HIDE DEF E, l, m
<1>4. r \in Seq(E) /\ Len(r) = Len(m) + 1 /\ \A i \in 1 .. Len(r) : r[i] = IF i <= Len(m) THEN m[i] ELSE F[e]
  BY <1>2, <1>3
<1> HIDE DEF r
<1>5. Len(l) = Len(r) /\ \A i \in 1 .. Len(l) : l[i] = r[i]
  BY <1>1, <1>2, <1>4
<1>6. l = r
  BY <1>2, <1>4, <1>5, SeqEqual
<1> QED BY <1>6 DEF l, m, r, q

\* ... loses the same place, ...
LEMMA MappedRemoveAt ==
    ASSUME NEW S, NEW s \in Seq(S), NEW F, NEW c \in 1 .. Len(s)
    PROVE  Mapped(RemoveAt(s, c), F) = RemoveAt(Mapped(s, F), c)
<1> DEFINE E == Meanings(S, F)
           q == RemoveAt(s, c)
           l == Mapped(q, F)
           m == Mapped(s, F)
           r == RemoveAt(m, c)
<1>1. /\ q \in Seq(S) /\ Len(q) = Len(s) - 1
      /\ \A i \in 1 .. Len(s) - 1 : q[i] = IF i < c THEN s[i] ELSE s[i + 1]
  BY RemoveAtItems
<1>len. Len(s) \in Nat /\ c \in Nat
  OBVIOUS
<1> HIDE DEF q
<1>2. /\ l \in Seq(E) /\ Len(l) = Len(q) /\ \A i \in 1 .. Len(q) : l[i] = F[q[i]]
      /\ m \in Seq(E) /\ Len(m) = Len(s) /\ \A i \in 1 .. Len(s) : m[i] = F[s[i]]
  <2>1. l \in Seq(E) /\ Len(l) = Len(q) /\ \A i \in 1 .. Len(q) : l[i] = F[q[i]]
    BY <1>1, MappedItems
  <2>2. m \in Seq(E) /\ Len(m) = Len(s) /\ \A i \in 1 .. Len(s) : m[i] = F[s[i]]
    BY MappedItems
  <2> QED BY <2>1, <2>2
<1> HIDE DEF E, l, m
<1>3. /\ r \in Seq(E) /\ Len(r) = Len(m) - 1
      /\ \A i \in 1 .. Len(m) - 1 : r[i] = IF i < c THEN m[i] ELSE m[i + 1]
  <2>1. c \in 1 .. Len(m)
    BY <1>2
  <2> QED BY <1>2, <2>1, RemoveAtItems
<1> HIDE DEF r
<1>4. Len(l) = Len(r) /\ \A i \in 1 .. Len(l) : l[i] = r[i]
  <2>1. Len(l) = Len(s) - 1 /\ Len(r) = Len(s) - 1
    BY <1>1, <1>2, <1>3
  <2>2. ASSUME NEW i \in 1 .. Len(s) - 1 PROVE l[i] = r[i]
    <3>1. i \in 1 .. Len(s) /\ i + 1 \in 1 .. Len(s)
      BY <1>len
    <3>2. l[i] = F[q[i]] /\ q[i] = IF i < c THEN s[i] ELSE s[i + 1]
      BY <1>1, <1>2
    <3>3. r[i] = IF i < c THEN m[i] ELSE m[i + 1]
      BY <1>2, <1>3
    <3>4. m[i] = F[s[i]] /\ m[i + 1] = F[s[i + 1]]
      BY <1>2, <3>1
    <3> QED BY <3>2, <3>3, <3>4
  <2> QED BY <2>1, <2>2
<1>5. l = r
  BY <1>2, <1>3, <1>4, SeqEqual
<1> QED BY <1>5 DEF l, m, r, q

\* ... and is taken at the same end.
LEMMA MappedTail ==
    ASSUME NEW S, NEW s \in Seq(S), NEW F, s # <<>>
    PROVE  Mapped(s, F) # <<>> /\ Mapped(Tail(s), F) = Tail(Mapped(s, F))
<1> DEFINE E == Meanings(S, F)
           q == Tail(s)
           l == Mapped(q, F)
           m == Mapped(s, F)
           r == Tail(m)
<1>1. /\ q \in Seq(S) /\ Len(q) = Len(s) - 1 /\ Len(s) \in Nat \ {0}
      /\ \A i \in 1 .. Len(q) : q[i] = s[i + 1]
  OBVIOUS
<1> HIDE DEF q
<1>2. /\ l \in Seq(E) /\ Len(l) = Len(q) /\ \A i \in 1 .. Len(q) : l[i] = F[q[i]]
      /\ m \in Seq(E) /\ Len(m) = Len(s) /\ \A i \in 1 .. Len(s) : m[i] = F[s[i]]
  <2>1. l \in Seq(E) /\ Len(l) = Len(q) /\ \A i \in 1 .. Len(q) : l[i] = F[q[i]]
    BY <1>1, MappedItems
  <2>2. m \in Seq(E) /\ Len(m) = Len(s) /\ \A i \in 1 .. Len(s) : m[i] = F[s[i]]
    BY MappedItems
  <2> QED BY <2>1, <2>2
<1> HIDE DEF E, l, m
<1>3. m # <<>> /\ r \in Seq(E) /\ Len(r) = Len(m) - 1 /\ \A i \in 1 .. Len(r) : r[i] = m[i + 1]
  BY <1>1, <1>2
<1> HIDE DEF r
<1>4. Len(l) = Len(r) /\ \A i \in 1 .. Len(l) : l[i] = r[i]
  <2>1. Len(l) = Len(s) - 1 /\ Len(r) = Len(s) - 1 /\ Len(q) = Len(s) - 1
    BY <1>1, <1>2, <1>3
  <2>2. ASSUME NEW i \in 1 .. Len(s) - 1 PROVE l[i] = r[i]
    <3>1. i + 1 \in 1 .. Len(s)
      BY <1>1
    <3>2. l[i] = F[s[i + 1]]
      BY <1>1, <1>2, <2>1
    <3>3. r[i] = m[i + 1]
      BY <1>3, <2>1
    <3>4. m[i + 1] = F[s[i + 1]]
      BY <1>2, <3>1
    <3> QED BY <3>2, <3>3, <3>4
  <2> QED BY <2>1, <2>2
<1>5. l = r
  BY <1>2, <1>3, <1>4, SeqEqual
<1> QED BY <1>3, <1>5 DEF l, m, r, q

\* One place of a queue without repeated elements comes to stand for something else.
LEMMA MappedUpdate ==
    ASSUME NEW S, NEW s \in Seq(S), IsInjective(s), NEW c \in 1 .. Len(s),
           NEW F, NEW G, \A e \in S \ {s[c]} : F[e] = G[e]
    PROVE  Mapped(s, G) = [Mapped(s, F) EXCEPT ![c] = G[s[c]]]
<1>1. DOMAIN s = 1 .. Len(s) /\ \A i \in 1 .. Len(s) : s[i] \in S
  OBVIOUS
<1>2. \A i \in 1 .. Len(s) : i # c => s[i] # s[c]
  BY <1>1 DEF IsInjective
<1> QED BY <1>1, <1>2 DEF Mapped

-----------------------------------------------------------------------------
(* The rings of list.c.                                                      *)


\* The nodes of a ring are different: behind the head, and before it.
LEMMA RingNodes ==
    ASSUME NEW h, NEW head, NEW s, IsList(h, head, s)
    PROVE  /\ Len(s) \in Nat /\ h \in Heaps
           /\ \A i \in Int : NodeAt(head, s, i) \in Node
           /\ \A i, j \in 0 .. Len(s) : NodeAt(head, s, i) = NodeAt(head, s, j) => i = j
           /\ \A i, j \in 1 .. Len(s) + 1 : NodeAt(head, s, i) = NodeAt(head, s, j) => i = j
<1>1. s \in Seq(Node \ {head}) /\ head \in Node /\ Len(s) \in Nat /\ h \in Heaps
  BY DEF IsList
<1>2. \A i \in 1 .. Len(s) : s[i] \in Node \ {head}
  BY <1>1
<1>3. \A i, j \in 1 .. Len(s) : s[i] = s[j] => i = j
  BY DEF IsList
<1> QED
  BY <1>1, <1>2, <1>3 DEF NodeAt

\* init_list_head makes an empty list of any node.
THEOREM InitList ==
    ASSUME NEW h \in Heaps, NEW head \in Node
    PROVE  IsList(init_list_head(h, head), head, << >>)
  BY DEF init_list_head, IsList, Heaps, NodeAt

\* list_empty tells an empty list, and the first node is behind the head.
THEOREM EmptyAndFirst ==
    ASSUME NEW h, NEW head, NEW s, IsList(h, head, s)
    PROVE  /\ list_empty(h, head) <=> s = << >>
           /\ s # << >> => h.next[head] = Head(s)
<1>1. s \in Seq(Node \ {head}) /\ Len(s) \in Nat
  BY DEF IsList
<1>2. h.next[NodeAt(head, s, 0)] = NodeAt(head, s, 1) /\ NodeAt(head, s, 0) = head
  BY <1>1 DEF IsList, NodeAt
<1>3. CASE s = << >>
  BY <1>2, <1>3 DEF list_empty, NodeAt
<1>4. CASE s # << >>
  <2>1. NodeAt(head, s, 1) = s[1] /\ s[1] # head /\ Head(s) = s[1]
    BY <1>1, <1>4 DEF NodeAt
  <2> QED
    BY <1>2, <1>4, <2>1 DEF list_empty
<1> QED
  BY <1>3, <1>4

\* list_add_tail appends a node that is not in the list.  (A node that is in it
\* already would cut the ring: the hazard of a buffer recycled twice.)
THEOREM AddTail ==
    ASSUME NEW h, NEW head, NEW s, IsList(h, head, s),
           NEW new \in Node \ {head}, \A i \in 1 .. Len(s) : s[i] # new
    PROVE  IsList(list_add_tail(h, new, head), head, Append(s, new))
<1> DEFINE n == Len(s)
           a(i) == NodeAt(head, s, i)
           q == Append(s, new)
           g == list_add_tail(h, new, head)
<1>1. n \in Nat /\ s \in Seq(Node \ {head}) /\ head \in Node /\ h \in Heaps
  BY DEF IsList
<1>2. /\ q \in Seq(Node \ {head}) /\ Len(q) = n + 1
      /\ \A i \in 1 .. n : q[i] = s[i]
      /\ q[n + 1] = new
  BY <1>1
<1>3. \A i, j \in 1 .. Len(q) : q[i] = q[j] => i = j
  <2>1. \A i, j \in 1 .. n : s[i] = s[j] => i = j
    BY DEF IsList
  <2>2. \A i \in 1 .. n : s[i] # new
    OBVIOUS
  <2> HIDE DEF q, n
  <2> QED
    BY <1>1, <1>2, <2>1, <2>2
<1>4. /\ \A i \in 0 .. n : NodeAt(head, q, i) = a(i) /\ a(i) # new
      /\ NodeAt(head, q, n + 1) = new /\ NodeAt(head, q, n + 2) = head
      /\ a(0) = head /\ a(n + 1) = head
      /\ \A i \in 1 .. n : a(i) # head
  BY <1>1, <1>2 DEF NodeAt
<1>5. /\ \A i \in 0 .. n : a(i) \in Node
      /\ \A i, j \in 0 .. n : a(i) = a(j) => i = j
      /\ \A i \in 0 .. n : h.next[a(i)] = a(i + 1) /\ h.prev[a(i + 1)] = a(i)
  BY RingNodes DEF IsList
<1>6. h.prev[head] = a(n)
  BY <1>1, <1>4, <1>5
<1>7. /\ g \in Heaps
      /\ \A m \in Node : g.next[m] = IF m = a(n) THEN new ELSE IF m = new THEN head ELSE h.next[m]
      /\ \A m \in Node : g.prev[m] = IF m = new THEN a(n) ELSE IF m = head THEN new ELSE h.prev[m]
  <2>1. a(n) \in Node /\ new \in Node
    BY <1>1, <1>5
  <2> DEFINE nx == [[h.next EXCEPT ![new] = head] EXCEPT ![a(n)] = new]
             pv == [[h.prev EXCEPT ![head] = new] EXCEPT ![new] = a(n)]
  <2>2. g = [next |-> nx, prev |-> pv]
    BY <1>6 DEF list_add_tail, _list_add
  <2>3. h.next \in [Node -> Node \cup {Null}] /\ h.prev \in [Node -> Node \cup {Null}] /\ head \in Node
    BY <1>1 DEF Heaps
  <2> HIDE DEF a, g
  <2>4. /\ nx \in [Node -> Node \cup {Null}]
        /\ \A m \in Node : nx[m] = IF m = a(n) THEN new ELSE IF m = new THEN head ELSE h.next[m]
    BY <2>1, <2>3
  <2>5. /\ pv \in [Node -> Node \cup {Null}]
        /\ \A m \in Node : pv[m] = IF m = new THEN a(n) ELSE IF m = head THEN new ELSE h.prev[m]
    BY <2>1, <2>3
  <2> HIDE DEF nx, pv
  <2> QED
    BY <2>2, <2>4, <2>5 DEF Heaps
<1> HIDE DEF n, a, q, g
<1>8. ASSUME NEW i \in 0 .. n + 1
      PROVE  /\ g.next[NodeAt(head, q, i)] = NodeAt(head, q, i + 1)
             /\ g.prev[NodeAt(head, q, i + 1)] = NodeAt(head, q, i)
  <2>1. CASE i < n
    <3>1. i \in 0 .. n /\ i + 1 \in 1 .. n /\ i + 1 \in 0 .. n /\ n \in 0 .. n /\ i # n
      BY <1>1, <2>1
    <3> QED
      BY <1>4, <1>5, <1>7, <3>1
  <2>2. CASE i = n
    BY <1>1, <1>4, <1>5, <1>7, <2>2
  <2>3. CASE i = n + 1
    <3>1. NodeAt(head, q, i) = new /\ NodeAt(head, q, i + 1) = head /\ a(n) # new
      BY <1>1, <1>4, <2>3
    <3> QED
      BY <1>1, <1>7, <3>1
  <2> QED
    BY <1>1, <2>1, <2>2, <2>3
<1> QED
  BY <1>1, <1>2, <1>3, <1>7, <1>8 DEF IsList, n, q, g

\* list_del takes an entry out, wherever it is, and keeps the order of the others.
THEOREM DelAt ==
    ASSUME NEW h, NEW head, NEW s, IsList(h, head, s), NEW k \in 1 .. Len(s)
    PROVE  IsList(list_del(h, s[k]), head, RemoveAt(s, k))
<1> DEFINE n == Len(s)
           a(i) == NodeAt(head, s, i)
           q == RemoveAt(s, k)
           g == list_del(h, s[k])
<1>1. /\ n \in Nat /\ s \in Seq(Node \ {head}) /\ head \in Node /\ h \in Heaps
      /\ k \in 1 .. n
  BY DEF IsList
<1>2. /\ q \in Seq(Node \ {head}) /\ Len(q) = n - 1
      /\ \A i \in 1 .. n - 1 : q[i] = IF i < k THEN s[i] ELSE s[i + 1]
  BY <1>1, RemoveAtItems
<1>3. \A i, j \in 1 .. Len(q) : q[i] = q[j] => i = j
  <2>1. \A i, j \in 1 .. n : s[i] = s[j] => i = j
    BY DEF IsList
  <2> HIDE DEF q, n
  <2> QED
    BY <1>1, <1>2, <2>1
<1>4. \A i \in 0 .. n : NodeAt(head, q, i) = IF i < k THEN a(i) ELSE a(i + 1)
  <2> HIDE DEF q
  <2> QED
    BY <1>1, <1>2 DEF NodeAt
<1>5. /\ \A i \in 0 .. n + 1 : a(i) \in Node
      /\ \A i, j \in 0 .. n : a(i) = a(j) => i = j
      /\ \A i, j \in 1 .. n + 1 : a(i) = a(j) => i = j
      /\ \A i \in 0 .. n : h.next[a(i)] = a(i + 1) /\ h.prev[a(i + 1)] = a(i)
  BY RingNodes DEF IsList
<1>6. a(k) = s[k] /\ h.prev[a(k)] = a(k - 1) /\ h.next[a(k)] = a(k + 1)
  <2>1. a(k) = s[k]
    BY <1>1 DEF NodeAt
  <2> HIDE DEF a, n
  <2>2. k - 1 \in 0 .. n /\ k \in 0 .. n /\ (k - 1) + 1 = k
    BY <1>1
  <2> QED
    BY <1>5, <2>1, <2>2
<1>7. /\ g \in Heaps
      /\ \A m \in Node : g.next[m] = IF m = a(k) THEN Null ELSE IF m = a(k - 1) THEN a(k + 1) ELSE h.next[m]
      /\ \A m \in Node : g.prev[m] = IF m = a(k) THEN Null ELSE IF m = a(k + 1) THEN a(k - 1) ELSE h.prev[m]
  <2>1. a(k) \in Node /\ a(k - 1) \in Node /\ a(k + 1) \in Node
    BY <1>1, <1>5
  <2> DEFINE nx == [[h.next EXCEPT ![a(k - 1)] = a(k + 1)] EXCEPT ![a(k)] = Null]
             pv == [[h.prev EXCEPT ![a(k + 1)] = a(k - 1)] EXCEPT ![a(k)] = Null]
  <2>2. g = [next |-> nx, prev |-> pv]
    BY <1>6 DEF list_del, _list_del
  <2>3. h.next \in [Node -> Node \cup {Null}] /\ h.prev \in [Node -> Node \cup {Null}]
    BY <1>1 DEF Heaps
  <2> HIDE DEF a, g
  <2>4. /\ nx \in [Node -> Node \cup {Null}]
        /\ \A m \in Node : nx[m] = IF m = a(k) THEN Null ELSE IF m = a(k - 1) THEN a(k + 1) ELSE h.next[m]
    BY <2>1, <2>3
  <2>5. /\ pv \in [Node -> Node \cup {Null}]
        /\ \A m \in Node : pv[m] = IF m = a(k) THEN Null ELSE IF m = a(k + 1) THEN a(k - 1) ELSE h.prev[m]
    BY <2>1, <2>3
  <2> HIDE DEF nx, pv
  <2> QED
    BY <2>2, <2>4, <2>5 DEF Heaps
<1> HIDE DEF n, a, q, g
<1>8. ASSUME NEW i \in 0 .. n - 1
      PROVE  /\ g.next[NodeAt(head, q, i)] = NodeAt(head, q, i + 1)
             /\ g.prev[NodeAt(head, q, i + 1)] = NodeAt(head, q, i)
  <2>1. CASE i < k - 1
    <3>1. NodeAt(head, q, i) = a(i) /\ NodeAt(head, q, i + 1) = a(i + 1)
      BY <1>1, <1>4, <2>1
    <3>2. a(i) # a(k) /\ a(i) # a(k - 1) /\ a(i + 1) # a(k) /\ a(i + 1) # a(k + 1)
      BY <1>1, <1>5, <2>1
    <3>3. i \in 0 .. n /\ i \in 0 .. n + 1 /\ i + 1 \in 0 .. n + 1
      BY <1>1, <2>1
    <3>4. a(i) \in Node /\ a(i + 1) \in Node /\ h.next[a(i)] = a(i + 1) /\ h.prev[a(i + 1)] = a(i)
      BY <1>5, <3>3
    <3>5. g.next[a(i)] = h.next[a(i)] /\ g.prev[a(i + 1)] = h.prev[a(i + 1)]
      BY <1>7, <3>2, <3>4
    <3> QED
      BY <3>1, <3>4, <3>5
  <2>2. CASE i = k - 1
    <3>1. NodeAt(head, q, i) = a(k - 1) /\ NodeAt(head, q, i + 1) = a(k + 1)
      BY <1>1, <1>4, <2>2
    <3>2. a(k - 1) # a(k) /\ a(k + 1) # a(k)
      BY <1>1, <1>5
    <3> QED
      BY <1>1, <1>5, <1>7, <3>1, <3>2
  <2>3. CASE i > k - 1
    <3>1. NodeAt(head, q, i) = a(i + 1) /\ NodeAt(head, q, i + 1) = a(i + 2)
      BY <1>1, <1>4, <2>3
    <3>2. a(i + 1) # a(k) /\ a(i + 1) # a(k - 1) /\ a(i + 2) # a(k) /\ a(i + 2) # a(k + 1)
      BY <1>1, <1>5, <2>3
    <3>3. i + 1 \in 0 .. n /\ (i + 1) + 1 = i + 2 /\ i + 2 \in 0 .. n + 1
      BY <1>1, <2>3
    <3>4. a(i + 1) \in Node /\ a(i + 2) \in Node /\ h.next[a(i + 1)] = a(i + 2) /\ h.prev[a(i + 2)] = a(i + 1)
      BY <1>1, <1>5, <3>3
    <3>5. g.next[a(i + 1)] = h.next[a(i + 1)] /\ g.prev[a(i + 2)] = h.prev[a(i + 2)]
      BY <1>7, <3>2, <3>4
    <3> QED
      BY <3>1, <3>4, <3>5
  <2> QED
    BY <1>1, <2>1, <2>2, <2>3
<1> QED
  BY <1>1, <1>2, <1>3, <1>7, <1>8 DEF IsList, n, q, g

\* buf_factory_produce takes the head of the pool, buf_factory_recycle appends a
\* buffer that is outside: the pool is the queue `free' of UartSend.
THEOREM PoolIsQueue ==
    ASSUME NEW h, NEW head, NEW s, IsList(h, head, s)
    PROVE  /\ s # << >> => /\ ProducedNode(h, head) = Head(s)
                          /\ IsList(buf_factory_produce(h, head), head, Tail(s))
           /\ \A node \in Node \ {head} :
                 (\A i \in 1 .. Len(s) : s[i] # node) =>
                    IsList(buf_factory_recycle(h, node, head), head, Append(s, node))
<1>1. ASSUME s # << >>
      PROVE  /\ ProducedNode(h, head) = Head(s)
             /\ IsList(buf_factory_produce(h, head), head, Tail(s))
  <2>1. s \in Seq(Node \ {head}) /\ 1 \in 1 .. Len(s) /\ Head(s) = s[1]
    BY <1>1 DEF IsList
  <2>2. h.next[head] = s[1]
    BY <1>1, <2>1, EmptyAndFirst
  <2>3. RemoveAt(s, 1) = Tail(s)
    <3>1. /\ RemoveAt(s, 1) \in Seq(Node \ {head}) /\ Len(RemoveAt(s, 1)) = Len(s) - 1
          /\ \A i \in 1 .. Len(s) - 1 : RemoveAt(s, 1)[i] = s[i + 1]
      BY <2>1, RemoveAtItems
    <3>2. /\ Tail(s) \in Seq(Node \ {head}) /\ Len(Tail(s)) = Len(s) - 1
          /\ \A i \in 1 .. Len(s) - 1 : Tail(s)[i] = s[i + 1]
      BY <1>1, <2>1
    <3> QED
      BY <3>1, <3>2, SeqEqual
  <2> QED
    BY <2>1, <2>2, <2>3, DelAt DEF ProducedNode, buf_factory_produce
<1> QED
  BY <1>1, AddTail DEF buf_factory_recycle

\* When uart_poll_tsk, at entry k, has gone on to the next one, "p->prev" is the
\* entry it was at: that one is taken out, and p is at position k of what is left
\* (or at the head, after the last).  This is the cursor of UartSend.
THEOREM WalkUnlinks ==
    ASSUME NEW h, NEW head, NEW s, IsList(h, head, s), NEW k \in 1 .. Len(s)
    PROVE  /\ IsList(UnlinkVisited(h, s[k]), head, RemoveAt(s, k))
           /\ h.next[s[k]] = NodeAt(head, RemoveAt(s, k), k)
<1>1. s \in Seq(Node \ {head}) /\ Len(s) \in Nat /\ k \in 0 .. Len(s)
  BY DEF IsList
<1>2. NodeAt(head, s, k) = s[k]
  BY DEF NodeAt
<1>3. h.next[s[k]] = NodeAt(head, s, k + 1) /\ h.prev[NodeAt(head, s, k + 1)] = s[k]
  BY <1>1, <1>2 DEF IsList
<1>4. IsList(UnlinkVisited(h, s[k]), head, RemoveAt(s, k))
  BY <1>3, DelAt DEF UnlinkVisited
<1>5. NodeAt(head, RemoveAt(s, k), k) = NodeAt(head, s, k + 1)
  <2>1. /\ Len(RemoveAt(s, k)) = Len(s) - 1
        /\ \A i \in 1 .. Len(s) - 1 : RemoveAt(s, k)[i] = IF i < k THEN s[i] ELSE s[i + 1]
    BY <1>1, RemoveAtItems
  <2> QED
    BY <1>1, <2>1 DEF NodeAt
<1> QED
  BY <1>3, <1>4, <1>5
=============================================================================
