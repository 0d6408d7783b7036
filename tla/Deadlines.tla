----------------------------- MODULE Deadlines -----------------------------
(***************************************************************************)
(* What a timer promises its users: the waits that are armed, each with    *)
(* its deadline, and a clock.  When the clock moves on, exactly the waits  *)
(* whose deadline has come fire, and their coroutines are woken; a wait    *)
(* can be given up at any time.                                            *)
(***************************************************************************)
EXTENDS Integers

CONSTANTS
    Nodes,      \* the waiting futures
    MaxTime     \* bound: the end of the clock

VARIABLES
    now,
    expiry,     \* per wait: its deadline, 0 without one
    armed,      \* the waits that have a deadline to wait for
    fired       \* the waits that are over

vars == <<now, expiry, armed, fired>>

Init ==
    /\ now = 0
    /\ expiry \in [Nodes -> {0}]
    /\ armed = {}
    /\ fired = {}

(***************************************************************************)
(* A new wait, for a deadline that may already have passed.                *)
(***************************************************************************)
Create(w) ==
    /\ w \notin armed
    /\ \E e \in 0 .. MaxTime : expiry' = [expiry EXCEPT ![w] = e]
    /\ fired' = fired \ {w}
    /\ UNCHANGED <<now, armed>>

Arm(w) ==
    /\ w \notin armed \union fired
    /\ IF expiry[w] <= now
       THEN fired' = fired \union {w} /\ UNCHANGED armed
       ELSE armed' = armed \union {w} /\ UNCHANGED fired
    /\ UNCHANGED <<now, expiry>>

Tick ==
    /\ now' \in now .. MaxTime
    /\ fired' = fired \union {w \in armed : expiry[w] <= now'}
    /\ armed' = {w \in armed : expiry[w] > now'}
    /\ UNCHANGED expiry

GiveUp(w) ==
    /\ armed' = armed \ {w}
    /\ fired' = fired \ {w}
    /\ expiry' = [expiry EXCEPT ![w] = 0]
    /\ UNCHANGED now

Next ==
    \/ \E w \in Nodes : Create(w) \/ Arm(w) \/ GiveUp(w)
    \/ Tick

Spec == Init /\ [][Next]_vars
=============================================================================
