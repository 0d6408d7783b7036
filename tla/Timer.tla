------------------------------- MODULE Timer -------------------------------
(***************************************************************************)
(* The timer (src/rust/runtime/timer.rs): a clock that the main loop       *)
(* advances and a pairing heap of the WaitFutures that have been polled,   *)
(* ordered by expiry.  A WaitFuture owns its heap node, registers at its   *)
(* first poll, and leaves the heap when it is dropped.                     *)
(***************************************************************************)
EXTENDS Integers, FiniteSets

CONSTANTS
    Nodes,      \* the nodes, which their owners embed
    None,       \* no node
    MaxTime     \* bound: the end of the clock

-----------------------------------------------------------------------------
(* The intrusive pairing heap                                              *)
(* (src/rust/collections/intrusive/pairing_heap.rs) as operators on a      *)
(* record of its pointers: the root, and parent, prev, next and            *)
(* first_child of every node.  `key' gives the order of the nodes.         *)

EmptyHeap ==
    LET none == [n \in Nodes |-> None]
    IN  [root |-> None, parent |-> none, prev |-> none, next |-> none, child |-> none]

MutAddChild(h, p, c) ==
    LET old == h.child[p]
    IN  [h EXCEPT !.next[c] = old, !.child[p] = c, !.parent[c] = p]

AddChild(h, p, c) ==
    LET old == h.child[p]
        linked == IF old = None THEN h ELSE [h EXCEPT !.next[c] = old, !.prev[old] = c]
    IN  [linked EXCEPT !.child[p] = c, !.parent[c] = p]

(***************************************************************************)
(* Merging returns the heap and the root of the merged tree.               *)
(***************************************************************************)

Meld(h, key, left, right) ==
    IF key[left] < key[right]
    THEN [heap |-> AddChild(h, left, right), root |-> left]
    ELSE [heap |-> AddChild(h, right, left), root |-> right]

MaybeMeld(h, key, left, right) ==
    IF left = None THEN [heap |-> h, root |-> right] ELSE Meld(h, key, left, right)

RECURSIVE LastChild(_, _)
LastChild(h, n) == IF h.next[n] = None THEN n ELSE LastChild(h, h.next[n])

(***************************************************************************)
(* Unlinks the last node of a child list from the one before it.           *)
(***************************************************************************)
UnlinkPrev(h, n) ==
    IF h.prev[n] = None THEN h ELSE [h EXCEPT !.prev[n] = None, !.next[h.prev[n]] = None]

Orphan(h, n) == [h EXCEPT !.parent[n] = None]

(***************************************************************************)
(* One turn of the loop of merge_children, from the right: `node' is the   *)
(* last unprocessed child, `current' the result so far.                    *)
(***************************************************************************)
RECURSIVE MergeFrom(_, _, _, _)
MergeFrom(h, key, node, current) ==
    LET prev == h.prev[node]
        single == UnlinkPrev(Orphan(h, node), node)
    IN  IF prev = None
        THEN MaybeMeld(single, key, current, node)
        ELSE LET prevPrev == single.prev[prev]
                 pair == Meld(UnlinkPrev(Orphan(single, prev), prev), key, prev, node)
                 merged == MaybeMeld(pair.heap, key, current, pair.root)
             IN  IF prevPrev = None
                 THEN merged
                 ELSE MergeFrom(merged.heap, key, prevPrev, merged.root)

MergeChildren(h, key, first) == MergeFrom(h, key, LastChild(h, first), None)

HeapInsert(h, key, n) ==
    IF h.root = None
    THEN [h EXCEPT !.root = n]
    ELSE LET m == Meld(h, key, h.root, n) IN [m.heap EXCEPT !.root = m.root]

(***************************************************************************)
(* remove: the node leaves its parent's list, its children are merged and  *)
(* take its place under the parent.                                        *)
(***************************************************************************)
Detach(h, n) ==
    LET p == h.parent[n]
        before == h.prev[n]
        after == h.next[n]
        left == IF before = None THEN [h EXCEPT !.child[p] = after] ELSE [h EXCEPT !.next[before] = after]
        right == IF after = None THEN left ELSE [left EXCEPT !.prev[after] = before]
    IN  IF p = None
        THEN [h EXCEPT !.root = None]
        ELSE [right EXCEPT !.parent[n] = None, !.prev[n] = None, !.next[n] = None]

HeapRemove(h, key, n) ==
    LET p == h.parent[n]
        first == h.child[n]
        alone == [Detach(h, n) EXCEPT !.child[n] = None]
        merged == MergeChildren(alone, key, first)
    IN  IF first = None
        THEN alone
        ELSE IF p = None
        THEN [merged.heap EXCEPT !.root = merged.root]
        ELSE AddChild(merged.heap, p, merged.root)

(***************************************************************************)
(* The nodes below and including n.                                        *)
(***************************************************************************)
RECURSIVE Subtree(_, _)
Subtree(h, n) ==
    IF n = None THEN {} ELSE {n} \union Subtree(h, h.child[n]) \union Subtree(h, h.next[n])

Members(h) == Subtree(h, h.root)

-----------------------------------------------------------------------------

VARIABLES
    now, heap,  \* TimerInner
    expiry,     \* per future: TimerQueueEntry.expiry, 0 without a future
    state,      \* per future: PollState, "none" without a future, "Done" after Ready
    task,       \* per future: whether the node holds a waker
    runnable    \* the futures whose coroutine has been woken

vars == <<now, heap, expiry, state, task, runnable>>

Init ==
    /\ now = 0
    /\ heap = EmptyHeap
    /\ expiry = [w \in Nodes |-> 0]
    /\ state = [w \in Nodes |-> "none"]
    /\ task = [w \in Nodes |-> FALSE]
    /\ runnable = {}

(***************************************************************************)
(* wait and wait_until.                                                    *)
(***************************************************************************)
WaitUntil(w, e) ==
    /\ state[w] = "none"
    /\ expiry' = [expiry EXCEPT ![w] = e]
    /\ state' = [state EXCEPT ![w] = "Unregistered"]
    /\ UNCHANGED <<now, heap, task, runnable>>

(***************************************************************************)
(* poll: Ready at once when the deadline has passed, else into the heap;   *)
(* later polls renew the waker until the timer has marked it expired.      *)
(***************************************************************************)
PollWait(w) ==
    /\ state[w] \in {"Unregistered", "Registered", "Expired"}
    /\ runnable' = runnable \ {w}
    /\ CASE state[w] = "Unregistered" /\ now < expiry[w] ->
              /\ task' = [task EXCEPT ![w] = TRUE]
              /\ state' = [state EXCEPT ![w] = "Registered"]
              /\ heap' = HeapInsert(heap, expiry, w)
         [] state[w] = "Registered" ->
              /\ task' = [task EXCEPT ![w] = TRUE]
              /\ UNCHANGED <<state, heap>>
         [] OTHER ->
              /\ state' = [state EXCEPT ![w] = "Done"]
              /\ UNCHANGED <<heap, task>>
    /\ UNCHANGED <<now, expiry>>

(***************************************************************************)
(* The loop of advance_clock: while the root has expired it is removed.    *)
(* Returns the heap and the nodes taken out.                               *)
(***************************************************************************)
RECURSIVE MutExpire(_, _)
MutExpire(h, t) ==
    IF h.root = None \/ t <= expiry[h.root]
    THEN [heap |-> h, out |-> {}]
    ELSE LET rest == MutExpire(HeapRemove(h, expiry, h.root), t)
         IN  [heap |-> rest.heap, out |-> rest.out \union {h.root}]

RECURSIVE Expire(_, _)
Expire(h, t) ==
    IF h.root = None \/ t < expiry[h.root]
    THEN [heap |-> h, out |-> {}]
    ELSE LET rest == Expire(HeapRemove(h, expiry, h.root), t)
         IN  [heap |-> rest.heap, out |-> rest.out \union {h.root}]

AdvanceClock ==
    \E t \in now .. MaxTime :
        LET e == Expire(heap, t)
        IN  /\ now' = t
            /\ heap' = e.heap
            /\ state' = [w \in Nodes |-> IF w \in e.out THEN "Expired" ELSE state[w]]
            /\ runnable' = runnable \union {w \in e.out : task[w]}
            /\ task' = [w \in Nodes |-> task[w] /\ w \notin e.out]
            /\ UNCHANGED expiry

(***************************************************************************)
(* Drop: a registered future leaves the heap.                              *)
(***************************************************************************)
DropWait(w) ==
    /\ state[w] /= "none"
    /\ state' = [state EXCEPT ![w] = "none"]
    /\ task' = [task EXCEPT ![w] = FALSE]
    /\ heap' = IF state[w] = "Registered" THEN HeapRemove(heap, expiry, w) ELSE heap
    /\ expiry' = [expiry EXCEPT ![w] = 0]
    /\ UNCHANGED <<now, runnable>>

Next ==
    \/ \E w \in Nodes :
          \/ \E e \in 0 .. MaxTime : WaitUntil(w, e)
          \/ PollWait(w)
          \/ DropWait(w)
    \/ AdvanceClock

Spec == Init /\ [][Next]_vars

-----------------------------------------------------------------------------
(***************************************************************************)
(* The heap is well formed: exactly the registered futures are in it, the  *)
(* pointers of siblings, parents and children agree, no node is before its *)
(* parent in expiry, and a future outside has no pointers.                 *)
(***************************************************************************)
HeapSound ==
    LET in == {w \in Nodes : state[w] = "Registered"}
    IN  /\ Members(heap) = in
        /\ \A w \in Nodes \ in :
              {heap.parent[w], heap.prev[w], heap.next[w], heap.child[w]} = {None}
        /\ \A w \in in :
              /\ heap.parent[w] = None <=> w = heap.root
              /\ heap.parent[w] /= None => expiry[heap.parent[w]] <= expiry[w]
              /\ heap.child[w] /= None =>
                    heap.parent[heap.child[w]] = w /\ heap.prev[heap.child[w]] = None
              /\ heap.next[w] /= None =>
                    heap.prev[heap.next[w]] = w /\ heap.parent[heap.next[w]] = heap.parent[w]

(***************************************************************************)
(* Once the clock has been advanced no expired future is left waiting, and *)
(* the coroutine of every future that the timer expired has been woken.    *)
(***************************************************************************)
ExpiredAreWoken ==
    \A w \in Nodes :
        /\ state[w] = "Registered" => expiry[w] > now /\ task[w]
        /\ state[w] = "Expired" => expiry[w] <= now /\ w \in runnable

(***************************************************************************)
(* The timer implements Deadlines: the heap, whatever its shape, behaves   *)
(* as the set of the armed waits.                                          *)
(***************************************************************************)
Abstract ==
    INSTANCE Deadlines WITH armed <- Members(heap),
                            fired <- {w \in Nodes : state[w] \in {"Expired", "Done"}}

IsDeadlines == Abstract!Spec
=============================================================================
