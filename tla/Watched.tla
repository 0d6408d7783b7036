------------------------------ MODULE Watched ------------------------------
(***************************************************************************)
(* WatchedValue (src/rust/runtime/watched.rs): a value with a list of the  *)
(* futures that wait for it to change.  The background coroutines of a     *)
(* connection wait for changes of windows, sequence numbers and deadlines  *)
(* with it.  A future registers at its first poll, not when watch()        *)
(* creates it; a change in between is not seen.                            *)
(* The nodes are the watchers, one future at a time each.                  *)
(***************************************************************************)
EXTENDS LinkedListOps

VARIABLES
    waiters,    \* the linked list
    state,      \* per watcher: WatchState, or "none" when there is no future
    task,       \* per watcher: whether the node holds a waker
    runnable,   \* the watchers whose coroutine has been woken
    changed,    \* ghost: the watchers whose value changed while registered
    panicked

vars == <<waiters, state, task, runnable, changed, panicked>>

Watchers == Nodes

Init ==
    /\ waiters = EmptyList
    /\ state = [w \in Watchers |-> "none"]
    /\ task = [w \in Watchers |-> FALSE]
    /\ runnable = {}
    /\ changed = {}
    /\ panicked = FALSE

Watch(w) ==
    /\ state[w] = "none"
    /\ state' = [state EXCEPT ![w] = "Unregistered"]
    /\ task' = [task EXCEPT ![w] = FALSE]
    /\ UNCHANGED <<waiters, runnable, changed, panicked>>

(***************************************************************************)
(* poll: the first one registers, later ones keep the current waker, and   *)
(* after a change it returns Ready.                                        *)
(***************************************************************************)

PollWatch(w) ==
    /\ state[w] \in {"Unregistered", "Registered", "Completed"}
    /\ runnable' = runnable \ {w}
    /\ CASE state[w] = "Unregistered" ->
              /\ task' = [task EXCEPT ![w] = TRUE]
              /\ waiters' = AddFront(waiters, w)
              /\ state' = [state EXCEPT ![w] = "Registered"]
              /\ UNCHANGED changed
         [] state[w] = "Registered" ->
              /\ task' = [task EXCEPT ![w] = TRUE]
              /\ UNCHANGED <<waiters, state, changed>>
         [] state[w] = "Completed" ->
              /\ state' = [state EXCEPT ![w] = "Polled"]
              /\ changed' = changed \ {w}
              /\ UNCHANGED <<waiters, task>>
    /\ UNCHANGED panicked

(***************************************************************************)
(* modify and set: every waiter is woken and completed, and the list is    *)
(* empty afterwards.                                                       *)
(***************************************************************************)

Modify ==
    LET d == ReverseDrain(waiters)
        seen == {d.seen[i] : i \in DOMAIN d.seen}
    IN  /\ waiters' = d.list
        /\ state' = [w \in Watchers |-> IF w \in seen THEN "Completed" ELSE state[w]]
        /\ runnable' = runnable \union {w \in seen : task[w]}
        /\ task' = [w \in Watchers |-> IF w \in seen THEN FALSE ELSE task[w]]
        /\ changed' = changed \union {w \in Watchers : state[w] = "Registered"}
        /\ UNCHANGED panicked

(***************************************************************************)
(* Drop: a registered future leaves the list, and panics when it is not    *)
(* there.                                                                  *)
(***************************************************************************)
MutDropWatch(w) ==
    /\ state[w] /= "none"
    /\ waiters' = waiters
    /\ panicked' = panicked
    /\ state' = [state EXCEPT ![w] = "none"]
    /\ task' = [task EXCEPT ![w] = FALSE]
    /\ changed' = changed \ {w}
    /\ UNCHANGED runnable

DropWatch(w) ==
    LET r == Remove(waiters, w)
    IN  /\ state[w] /= "none"
        /\ IF state[w] = "Registered"
           THEN waiters' = r.list /\ panicked' = ~r.removed
           ELSE UNCHANGED <<waiters, panicked>>
        /\ state' = [state EXCEPT ![w] = "none"]
        /\ task' = [task EXCEPT ![w] = FALSE]
        /\ changed' = changed \ {w}
        /\ UNCHANGED runnable

Next ==
    /\ ~panicked
    /\ \/ \E w \in Watchers : Watch(w) \/ PollWatch(w) \/ DropWatch(w)
       \/ Modify

Spec == Init /\ [][Next]_vars

(***************************************************************************)
(* The scheduler polls a coroutine that was woken (WokenIsPolled of        *)
(* Scheduler).                                                             *)
(***************************************************************************)
FairSpec == Spec /\ \A w \in Watchers : WF_vars(w \in runnable /\ ~panicked /\ PollWatch(w))

-----------------------------------------------------------------------------
(***************************************************************************)
(* The list holds exactly the registered futures, in both directions, so   *)
(* no pointer to a dropped future is left in it.                           *)
(***************************************************************************)
ListHoldsRegistered ==
    LET seq == Forward(waiters)
    IN  /\ {seq[i] : i \in DOMAIN seq} = {w \in Watchers : state[w] = "Registered"}
        /\ \A i \in DOMAIN seq : seq[i] = Backward(waiters)[Len(seq) + 1 - i]

(***************************************************************************)
(* A future that was registered when the value changed is completed and    *)
(* its coroutine has been woken; dropping it never fails to find it (the   *)
(* panic in drop).                                                         *)
(***************************************************************************)
ChangeWakes ==
    /\ ~panicked
    /\ \A w \in changed : state[w] = "Completed" /\ w \in runnable

(***************************************************************************)
(* A coroutine that waits for a change resumes after it.                   *)
(***************************************************************************)
ChangeIsSeen == \A w \in Watchers : (w \in changed) ~> (state[w] \in {"Polled", "none"})
=============================================================================
