------------------------------ MODULE WaitScan ------------------------------
(***************************************************************************)
(* The scan of a list of queue tokens that wait_any2 and its variants make *)
(* after every round of background work.  A token is live while its        *)
(* coroutine is in the scheduler and done once the coroutine has finished; *)
(* taking a result makes the token invalid, so a token that is named twice *)
(* is invalid the second time.                                             *)
(***************************************************************************)
EXTENDS Integers, Sequences, FiniteSets

Earlier(qts, i) == {qts[j] : j \in 1 .. i - 1}

Ready(qts, done, i) == qts[i] \in done /\ qts[i] \notin Earlier(qts, i)

Invalid(qts, live, done, i) == qts[i] \notin live \/ (qts[i] \in done /\ qts[i] \in Earlier(qts, i))

(***************************************************************************)
(* The loop ends when room results have been stored.                       *)
(***************************************************************************)
Reached(qts, done, room, i) == Cardinality({j \in 1 .. i - 1 : Ready(qts, done, j)}) < room

Fails(qts, live, done, room) ==
    \E i \in DOMAIN qts : Reached(qts, done, room, i) /\ Invalid(qts, live, done, i)

(***************************************************************************)
(* The positions whose result is taken out of the scheduler, whether or    *)
(* not the scan then fails.                                                *)
(***************************************************************************)
Taken(qts, live, done, room) ==
    {i \in DOMAIN qts : /\ Ready(qts, done, i)
                        /\ Reached(qts, done, room, i)
                        /\ \A j \in 1 .. i : ~Invalid(qts, live, done, j)}
=============================================================================
