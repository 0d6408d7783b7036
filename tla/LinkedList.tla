----------------------------- MODULE LinkedList -----------------------------
(***************************************************************************)
(* The linked list as a state machine, with the sequence it stands for     *)
(* beside it.  Its operations implement those of a sequence.               *)
(***************************************************************************)
EXTENDS LinkedListOps

VARIABLES
    list,       \* the pointers
    order,      \* ghost: the sequence of nodes the list should hold
    result      \* what the last operation returned, and what it should have

Seqs == INSTANCE SequencesExt

vars == <<list, order, result>>

Members == {order[i] : i \in DOMAIN order}
Answer(got, due) == result' = [got |-> got, due |-> due]

Init ==
    /\ list = EmptyList
    /\ order = << >>
    /\ result = [got |-> << >>, due |-> << >>]

(***************************************************************************)
(* add_front is unsafe: its caller promises that the node is in no list.   *)
(***************************************************************************)
DoAddFront(n) ==
    /\ n \notin Members
    /\ list' = AddFront(list, n)
    /\ order' = <<n>> \o order
    /\ Answer(<< >>, << >>)

DoRemoveFirst ==
    /\ list' = RemoveFirst(list)
    /\ order' = IF order = << >> THEN order ELSE Tail(order)
    /\ Answer(<<list.head>>, <<IF order = << >> THEN None ELSE Head(order)>>)

DoRemoveLast ==
    /\ list' = RemoveLast(list)
    /\ order' = IF order = << >> THEN order ELSE Seqs!Front(order)
    /\ Answer(<<list.tail>>, <<IF order = << >> THEN None ELSE Seqs!Last(order)>>)

(***************************************************************************)
(* remove(n) may be called for a node that is in no list.                  *)
(***************************************************************************)
DoRemove(n) ==
    /\ list' = Remove(list, n).list
    /\ order' = SelectSeq(order, LAMBDA m : m /= n)
    /\ Answer(<<Remove(list, n).removed>>, <<n \in Members>>)

DoDrain ==
    /\ list' = Drain(list).list
    /\ order' = << >>
    /\ Answer(Drain(list).seen, order)

DoReverseDrain ==
    /\ list' = ReverseDrain(list).list
    /\ order' = << >>
    /\ Answer(ReverseDrain(list).seen, Seqs!Reverse(order))

Next ==
    \/ \E n \in Nodes : DoAddFront(n) \/ DoRemove(n)
    \/ DoRemoveFirst
    \/ DoRemoveLast
    \/ DoDrain
    \/ DoReverseDrain

Spec == Init /\ [][Next]_vars

(***************************************************************************)
(* Both directions of the pointers spell the sequence, after any series of *)
(* operations, and every node outside the list has no pointers left (the   *)
(* precondition of add_front and the debug assertions of remove).          *)
(***************************************************************************)
ListIsSequence ==
    /\ Forward(list) = order
    /\ Backward(list) = Seqs!Reverse(order)
    /\ \A n \in Nodes \ Members : list.prev[n] = None /\ list.next[n] = None

(***************************************************************************)
(* Each operation returns what the same operation on the sequence returns: *)
(* the node taken, whether it was there, the order of the callbacks.       *)
(***************************************************************************)
ReturnsAsSequence == result.got = result.due
=============================================================================
