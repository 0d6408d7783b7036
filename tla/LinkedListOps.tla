--------------------------- MODULE LinkedListOps ---------------------------
(***************************************************************************)
(* The intrusive double linked list                                        *)
(* (src/rust/collections/intrusive/double_linked_list.rs) as operators on  *)
(* a record of its pointers: head and tail of the list, prev and next of   *)
(* every node.                                                             *)
(***************************************************************************)
EXTENDS Integers, Sequences, FiniteSets

CONSTANTS
    Nodes,      \* the nodes, which their owners embed
    None        \* no node

EmptyList ==
    [head |-> None, tail |-> None, prev |-> [n \in Nodes |-> None], next |-> [n \in Nodes |-> None]]

AddFront(l, n) ==
    [head |-> n,
     tail |-> IF l.tail = None THEN n ELSE l.tail,
     next |-> [l.next EXCEPT ![n] = l.head],
     prev |-> [m \in Nodes |-> IF m = n THEN None ELSE IF m = l.head THEN n ELSE l.prev[m]]]

(***************************************************************************)
(* A removed node's own pointers are cleared.                              *)
(***************************************************************************)
Unlinked(l, n) == [l EXCEPT !.prev[n] = None, !.next[n] = None]

RemoveFirst(l) ==
    IF l.head = None
    THEN l
    ELSE LET n == l.head
             m == l.next[n]
             k == [l EXCEPT !.head = m]
         IN  Unlinked(IF m = None THEN [k EXCEPT !.tail = None] ELSE [k EXCEPT !.prev[m] = None], n)

RemoveLast(l) ==
    IF l.tail = None
    THEN l
    ELSE LET n == l.tail
             m == l.prev[n]
             k == [l EXCEPT !.tail = m]
         IN  Unlinked(IF m = None THEN [k EXCEPT !.head = None] ELSE [k EXCEPT !.next[m] = None], n)

(***************************************************************************)
(* remove(n): whether it was removed, and the list.  A node without a      *)
(* predecessor that is not the head is taken to be in no list.             *)
(***************************************************************************)
NotInList(l, n) == l.prev[n] = None /\ l.head /= n

Remove(l, n) ==
    IF NotInList(l, n)
    THEN [removed |-> FALSE, list |-> l]
    ELSE LET p == l.prev[n]
             m == l.next[n]
             k == IF p = None THEN [l EXCEPT !.head = m] ELSE [l EXCEPT !.next[p] = m]
         IN  [removed |-> TRUE,
              list |-> Unlinked(IF m = None THEN [k EXCEPT !.tail = p] ELSE [k EXCEPT !.prev[m] = p], n)]

(***************************************************************************)
(* The nodes met when one follows `link' from `start', at most once each   *)
(* plus one.                                                               *)
(***************************************************************************)
Walk(start, link) ==
    LET visit[i \in 0 .. Cardinality(Nodes) + 1] ==
            IF i = 0 THEN start
            ELSE IF visit[i - 1] = None THEN None ELSE link[visit[i - 1]]
        len == Cardinality({i \in DOMAIN visit : visit[i] /= None})
    IN  [i \in 1 .. len |-> visit[i - 1]]

Forward(l) == Walk(l.head, l.next)
Backward(l) == Walk(l.tail, l.prev)

(***************************************************************************)
(* drain and reverse_drain: the list is emptied at once, then each node is *)
(* unlinked before the callback gets it; the pointer to the following node *)
(* is read before that.  `seen' is the order of the callbacks.             *)
(***************************************************************************)
UnlinkAll(l, seen) ==
    [head |-> None, tail |-> None,
     prev |-> [n \in Nodes |-> IF \E i \in DOMAIN seen : seen[i] = n THEN None ELSE l.prev[n]],
     next |-> [n \in Nodes |-> IF \E i \in DOMAIN seen : seen[i] = n THEN None ELSE l.next[n]]]

Drain(l) == [seen |-> Forward(l), list |-> UnlinkAll(l, Forward(l))]

ReverseDrain(l) == [seen |-> Backward(l), list |-> UnlinkAll(l, Backward(l))]
=============================================================================
