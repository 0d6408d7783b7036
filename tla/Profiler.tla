------------------------------ MODULE Profiler ------------------------------
(***************************************************************************)
(* The scope tree of the profiler (perftools/profiler): timer! enters a    *)
(* scope, the guard it leaves behind closes it, reset forgets the tree,    *)
(* also from inside a scope.                                               *)
(*                                                                         *)
(* A scope is the sequence of names from its root.  After a reset inside a *)
(* frame, the scopes of that frame are no longer reachable from roots, but *)
(* current still points into them: they are the detached tree.             *)
(*                                                                         *)
(* Guards are dropped in the reverse order of their creation: no scope of  *)
(* the code is open across an await.                                       *)
(***************************************************************************)
EXTENDS Integers, Sequences, SequencesExt, FiniteSetsExt, FiniteSets, TLC

CONSTANTS
    Names,
    MaxDepth,   \* bound: nested scopes
    MaxTime,    \* bound: the cycle counter
    MaxVisits,  \* bound: calls of enter
    MaxResets   \* bound: calls of reset

VARIABLES
    roots,      \* scope reachable from the roots -> its counters
    detached,   \* scope of the frame in which reset was called -> its counters
    current,    \* the current scope, << >> for none
    away,       \* current is in the detached tree
    guards,     \* enter_time of the guards on the stack
    now, visits, resets,
    frames,     \* history: the open scopes, with name and time of entry
    truth       \* history: scope -> its visits in frames begun since the last reset
vars == <<roots, detached, current, away, guards, now, visits, resets, frames, truth>>

NoScopes == [s \in {} |-> [num_calls |-> 0, duration_sum |-> 0]]

NewScope == [num_calls |-> 0, duration_sum |-> 0]

Visited(scope, duration) ==
    [num_calls |-> scope.num_calls + 1, duration_sum |-> scope.duration_sum + duration]

Init ==
    /\ roots = NoScopes /\ detached = NoScopes
    /\ current = << >> /\ away = FALSE
    /\ guards = << >>
    /\ now = 0 /\ visits = 0 /\ resets = 0
    /\ frames = << >> /\ truth = NoScopes

-----------------------------------------------------------------------------
Extended(tree, s) == IF s \in DOMAIN tree THEN tree ELSE tree @@ (s :> NewScope)

Enter(name) ==
    LET s == Append(current, name) IN
    /\ Len(guards) < MaxDepth
    /\ visits < MaxVisits
    /\ visits' = visits + 1
    /\ IF away
       THEN detached' = Extended(detached, s) /\ UNCHANGED roots
       ELSE roots' = Extended(roots, s) /\ UNCHANGED detached
    /\ current' = s
    /\ guards' = Append(guards, now)
    /\ frames' = Append(frames, [name |-> name, since |-> now, kept |-> TRUE])
    /\ UNCHANGED <<away, now, resets, truth>>

(***************************************************************************)
(* The guard is dropped.  With no current scope only an error is logged.   *)
(***************************************************************************)
MutLeaveScope(duration) ==
    LET s == IF current = << >> THEN << >> ELSE Front(current) IN
    /\ current' = s
    /\ roots' = IF s \in DOMAIN roots THEN [roots EXCEPT ![s] = Visited(@, duration)] ELSE roots
    /\ away' = (away /\ s /= << >>)
    /\ UNCHANGED detached

LeaveScope(duration) ==
    /\ roots' = IF away \/ current = << >> THEN roots
                ELSE [roots EXCEPT ![current] = Visited(@, duration)]
    /\ detached' = IF away /\ Len(current) > 1 THEN [detached EXCEPT ![current] = Visited(@, duration)]
                   ELSE NoScopes
    /\ current' = IF current = << >> THEN << >> ELSE Front(current)
    /\ away' = (away /\ Len(current) > 1)

Recorded(record, s, duration) ==
    [Extended(record, s) EXCEPT ![s] = Visited(@, duration)]

Drop ==
    /\ guards /= << >>
    /\ guards' = Front(guards)
    /\ LeaveScope(now - Last(guards))
    /\ frames' = Front(frames)
    /\ truth' = IF frames[1].kept
                THEN Recorded(truth, [i \in DOMAIN frames |-> frames[i].name], now - Last(frames).since)
                ELSE truth
    /\ UNCHANGED <<now, visits, resets>>

Forget ==
    /\ roots' = NoScopes
    /\ detached' = IF away \/ current = << >> THEN detached
                   ELSE [s \in {x \in DOMAIN roots : x[1] = current[1]} |-> roots[s]]
    /\ away' = (current /= << >>)
    /\ UNCHANGED current

Reset ==
    /\ resets < MaxResets
    /\ resets' = resets + 1
    /\ Forget
    /\ frames' = [i \in DOMAIN frames |-> [frames[i] EXCEPT !.kept = FALSE]]
    /\ truth' = NoScopes
    /\ UNCHANGED <<guards, now, visits>>

Tick ==
    /\ now < MaxTime
    /\ now' = now + 1
    /\ UNCHANGED <<roots, detached, current, away, guards, visits, resets, frames, truth>>

Next == (\E name \in Names : Enter(name)) \/ Drop \/ Reset \/ Tick

Spec == Init /\ [][Next]_vars

-----------------------------------------------------------------------------
(***************************************************************************)
(* What write prints is what happened: the visits, and their time, of      *)
(* every frame that began after the last reset, under the scopes they were *)
(* made in, and nothing of a frame in which reset was called               *)
(* (Profiler::reset, and the test test_reset_during_frame).                *)
(***************************************************************************)
CountsMatch ==
    /\ DOMAIN truth \subseteq DOMAIN roots
    /\ \A s \in DOMAIN roots : roots[s] = IF s \in DOMAIN truth THEN truth[s] ELSE NewScope

(***************************************************************************)
(* Outside of all scopes, no quotient that write prints divides by zero    *)
(* calls, and the children of a scope have not taken more than the scope.  *)
(***************************************************************************)
Children(s) == {c \in DOMAIN roots : Len(c) = Len(s) + 1 /\ Front(c) = s}

SharesAddUp ==
    guards = << >> =>
        \A s \in DOMAIN roots :
            /\ roots[s].num_calls > 0
            /\ MapThenSumSet(LAMBDA c : roots[c].duration_sum, Children(s)) <= roots[s].duration_sum
=============================================================================
