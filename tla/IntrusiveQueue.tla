--------------------------- MODULE IntrusiveQueue ---------------------------
(***************************************************************************)
(* The intrusive FIFO queue of reference-counted elements                  *)
(* (src/rust/collections/intrusive/intrusive_queue.rs): front and back     *)
(* pointers, a next pointer inside each element, and one reference to each *)
(* queued element that is kept as a raw pointer, outside Rust's counting.  *)
(***************************************************************************)
EXTENDS Integers, Sequences, FiniteSets

CONSTANTS
    Elements,
    None,       \* no element
    MaxRefs     \* bound: references that users hold to an element

VARIABLES
    front, back, len,   \* IntrusiveQueue
    next,               \* per element: its next pointer
    strong,             \* per element: the count in its Rc
    held,               \* per element: the references that users hold
    order,              \* ghost: the queue as a sequence
    popped              \* what the last pop returned, and what it should have

vars == <<front, back, len, next, strong, held, order, popped>>

Init ==
    /\ front = None /\ back = None /\ len = 0
    /\ next = [e \in Elements |-> None]
    /\ strong = [e \in Elements |-> 1]
    /\ held = [e \in Elements |-> 1]
    /\ order = << >>
    /\ popped = [got |-> None, due |-> None]

Queued == {order[i] : i \in DOMAIN order}

(***************************************************************************)
(* Rc::clone and drop of a user's reference; the element is gone when the  *)
(* count is 0.                                                             *)
(***************************************************************************)
Share(e) ==
    /\ held[e] \in 1 .. MaxRefs - 1
    /\ held' = [held EXCEPT ![e] = @ + 1]
    /\ strong' = [strong EXCEPT ![e] = @ + 1]
    /\ UNCHANGED <<front, back, len, next, order, popped>>

Release(e) ==
    /\ held[e] > 0
    /\ held' = [held EXCEPT ![e] = @ - 1]
    /\ strong' = [strong EXCEPT ![e] = @ - 1]
    /\ UNCHANGED <<front, back, len, next, order, popped>>

(***************************************************************************)
(* push_element takes over the caller's reference (into_raw).  The element *)
(* must not be in a queue: its next pointer is the only one it has.        *)
(***************************************************************************)
PushElement(e) ==
    /\ held[e] > 0
    /\ e \notin Queued
    /\ LET cleared == [next EXCEPT ![e] = None]
       IN  IF front = None
           THEN front' = e /\ next' = cleared
           ELSE front' = front /\ next' = [cleared EXCEPT ![back] = e]
    /\ back' = e
    /\ len' = len + 1
    /\ held' = [held EXCEPT ![e] = @ - 1]
    /\ order' = Append(order, e)
    /\ UNCHANGED <<strong, popped>>

(***************************************************************************)
(* pop_element gives the queue's reference to the caller (from_raw).       *)
(***************************************************************************)
MutPopElement ==
    \/ /\ front = None
       /\ popped' = [got |-> None, due |-> IF order = << >> THEN None ELSE Head(order)]
       /\ UNCHANGED <<front, back, len, next, strong, held, order>>
    \/ /\ front /= None
       /\ front' = next[front]
       /\ back' = back
       /\ next' = [next EXCEPT ![front] = None]
       /\ len' = len - 1
       /\ held' = [held EXCEPT ![front] = @ + 1]
       /\ popped' = [got |-> front, due |-> Head(order)]
       /\ order' = Tail(order)
       /\ UNCHANGED strong

PopElement ==
    \/ /\ front = None
       /\ popped' = [got |-> None, due |-> IF order = << >> THEN None ELSE Head(order)]
       /\ UNCHANGED <<front, back, len, next, strong, held, order>>
    \/ /\ front /= None
       /\ front' = next[front]
       /\ back' = IF next[front] = None THEN None ELSE back
       /\ next' = [next EXCEPT ![front] = None]
       /\ len' = len - 1
       /\ held' = [held EXCEPT ![front] = @ + 1]
       /\ popped' = [got |-> front, due |-> Head(order)]
       /\ order' = Tail(order)
       /\ UNCHANGED strong

(***************************************************************************)
(* Drop of the queue: everything is popped and released.  A new queue      *)
(* takes its place.                                                        *)
(***************************************************************************)

DropQueue ==
    /\ front' = None /\ back' = None /\ len' = 0
    /\ next' = [e \in Elements |-> IF e \in Queued THEN None ELSE next[e]]
    /\ strong' = [e \in Elements |-> IF e \in Queued THEN strong[e] - 1 ELSE strong[e]]
    /\ order' = << >>
    /\ popped' = [got |-> None, due |-> None]
    /\ UNCHANGED held

Next ==
    \/ \E e \in Elements : Share(e) \/ Release(e) \/ PushElement(e)
    \/ PopElement
    \/ DropQueue

Spec == Init /\ [][Next]_vars

-----------------------------------------------------------------------------
(***************************************************************************)
(* The queue is first in, first out: following the pointers from front     *)
(* gives the pushed elements in order and ends at back, len counts them,   *)
(* and each pop returned the oldest.                                       *)
(***************************************************************************)
QueueIsFifo ==
    /\ front = IF order = << >> THEN None ELSE Head(order)
    /\ back = IF order = << >> THEN None ELSE order[Len(order)]
    /\ \A i \in DOMAIN order : next[order[i]] = IF i = Len(order) THEN None ELSE order[i + 1]
    /\ len = Len(order)
    /\ popped.got = popped.due

(***************************************************************************)
(* The count of an element is the number of references to it, the queue's  *)
(* raw one included: a queued element is never freed under the queue, and  *)
(* none is leaked when the queue is dropped.                               *)
(***************************************************************************)
CountsReferences ==
    \A e \in Elements : strong[e] = held[e] + (IF e \in Queued THEN 1 ELSE 0)
=============================================================================
