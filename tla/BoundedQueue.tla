---------------------------- MODULE BoundedQueue ----------------------------
(***************************************************************************)
(* What the ring buffer promises to one writer and one reader: a first in, *)
(* first out queue of bounded length.                                      *)
(***************************************************************************)
EXTENDS Naturals, Sequences

CONSTANT Values

VARIABLES
    capacity,   \* chosen when the queue is made
    queue,
    out         \* the item that was dequeued last

Init == capacity \in Nat /\ queue = << >>

Enqueue ==
    /\ Len(queue) < capacity
    /\ \E v \in Values : queue' = Append(queue, v)
    /\ UNCHANGED <<capacity, out>>

Dequeue ==
    /\ queue /= << >>
    /\ out' = Head(queue)
    /\ queue' = Tail(queue)
    /\ UNCHANGED capacity

Next == Enqueue \/ Dequeue

Spec == Init /\ [][Next]_<<capacity, queue, out>>
=============================================================================
