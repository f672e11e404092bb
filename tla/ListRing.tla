------------------------------ MODULE ListRing ------------------------------
(***************************************************************************)
(* The circular doubly linked lists of list.c, which are the free lists of *)
(* the buffer pools and the list of the frames to be sent.  A heap is a    *)
(* record of the `next' and `prev' pointers of all nodes, list heads       *)
(* included.  IsList says which sequence of nodes a heap holds behind a    *)
(* head; UartSend and Hid speak of these sequences only.                   *)
(***************************************************************************)
EXTENDS Integers, SequencesExt

CONSTANTS Node, Null

Heaps == [next : [Node -> Node \cup {Null}], prev : [Node -> Node \cup {Null}]]

-----------------------------------------------------------------------------
(* list.c: the assignments in their order.                                   *)

init_list_head(h, head) ==
    [next |-> [h.next EXCEPT ![head] = head], prev |-> [h.prev EXCEPT ![head] = head]]

_list_add(h, new, prev, next) ==
    [next |-> [[h.next EXCEPT ![new] = next] EXCEPT ![prev] = new],
     prev |-> [[h.prev EXCEPT ![next] = new] EXCEPT ![new] = prev]]

list_add(h, new, head) == _list_add(h, new, head, h.next[head])

list_add_tail(h, new, head) == _list_add(h, new, h.prev[head], head)

_list_del(h, prev, next) ==
    [next |-> [h.next EXCEPT ![prev] = next], prev |-> [h.prev EXCEPT ![next] = prev]]

list_del(h, entry) ==
    LET d == _list_del(h, h.prev[entry], h.next[entry])
    IN  [next |-> [d.next EXCEPT ![entry] = Null], prev |-> [d.prev EXCEPT ![entry] = Null]]

list_empty(h, head) == h.next[head] = head

-----------------------------------------------------------------------------
(* What its users do with it under a mutex.                                  *)

\* The node that buf_factory_produce takes from a pool that is not empty, and the
\* pool without it.
ProducedNode(h, head) == h.next[head]
buf_factory_produce(h, head) == list_del(h, ProducedNode(h, head))

buf_factory_recycle(h, node, head) == list_add_tail(h, node, head)

\* uart_poll_tsk at entry p: "p = p->next; list_del(p->prev)".
UnlinkVisited(h, p) == list_del(h, h.prev[h.next[p]])

-----------------------------------------------------------------------------
(* The sequence a heap holds.                                                *)

\* The i-th node of the ring that starts and ends with the head.
NodeAt(head, s, i) == IF i \in 1 .. Len(s) THEN s[i] ELSE head

IsList(h, head, s) ==
    /\ h \in Heaps /\ head \in Node
    /\ s \in Seq(Node \ {head})
    /\ \A i, j \in 1 .. Len(s) : s[i] = s[j] => i = j
    /\ \A i \in 0 .. Len(s) :
          /\ h.next[NodeAt(head, s, i)] = NodeAt(head, s, i + 1)
          /\ h.prev[NodeAt(head, s, i + 1)] = NodeAt(head, s, i)
=============================================================================
