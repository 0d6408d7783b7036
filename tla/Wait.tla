-------------------------------- MODULE Wait --------------------------------
(***************************************************************************)
(* The wait calls of the network stack (src/rust/inetstack/mod.rs) and an  *)
(* application that keeps a list of queue tokens, waits, removes the       *)
(* tokens whose results it got and issues new operations.                  *)
(*                                                                         *)
(* Nothing runs between calls: the coroutines make progress in the rounds  *)
(* of background work that a call starts with.                             *)
(***************************************************************************)
EXTENDS WaitScan

CONSTANTS
    Tokens,     \* places of the scheduler
    MaxOps,     \* bound: operations the application issues
    Room,       \* length of qrs and indices
    Calls,      \* which wait calls the application uses
    None

VARIABLES
    table,      \* token -> the operation in that place, None when vacant
    done,       \* tokens whose coroutine has finished
    list,       \* the application's tokens, each with its operation
    issued,     \* number of operations issued
    got,        \* operation -> how often its result was delivered
    call,       \* the wait call in progress, None outside
    expired,    \* the timeout of the call is over
    outcome     \* what the last call returned
vars == <<table, done, list, issued, got, call, expired, outcome>>

Live == {t \in Tokens : table[t] /= None}
Qts == [i \in DOMAIN list |-> list[i].qt]
Ops == 1 .. MaxOps

Init ==
    /\ table = [t \in Tokens |-> None]
    /\ done = {}
    /\ list = << >>
    /\ issued = 0
    /\ got = [o \in Ops |-> 0]
    /\ call = None
    /\ expired = FALSE
    /\ outcome = [kind |-> "none"]

Issue ==
    /\ call = None /\ issued < MaxOps
    /\ \E t \in Tokens \ Live :
          /\ table' = [table EXCEPT ![t] = issued + 1]
          /\ list' = Append(list, [qt |-> t, op |-> issued + 1])
    /\ issued' = issued + 1
    /\ UNCHANGED <<done, got, call, expired, outcome>>

Enter ==
    /\ call = None /\ list /= << >>
    /\ \E kind \in Calls :
          IF kind \in {"wait2", "timedwait2"}
          THEN \E i \in DOMAIN list : call' = [kind |-> kind, qt |-> list[i].qt]
          ELSE call' = [kind |-> kind, qt |-> None]
    /\ expired' = FALSE
    /\ UNCHANGED <<table, done, list, issued, got, outcome>>

Expire ==
    /\ call /= None /\ ~expired
    /\ expired' = TRUE
    /\ UNCHANGED <<table, done, list, issued, got, call, outcome>>

-----------------------------------------------------------------------------
(***************************************************************************)
(* A call returns: results are delivered for the positions in at, and the  *)
(* operations at the tokens in out leave the scheduler.                    *)
(***************************************************************************)

Return(kind, at, out, finished) ==
    /\ table' = [t \in Tokens |-> IF t \in out THEN None ELSE table[t]]
    /\ done' = finished \ out
    /\ got' = [o \in Ops |-> got[o] + Cardinality({i \in at : table[list[i].qt] = o})]
    /\ list' = LET Kept(e) == e.qt \notin {list[i].qt : i \in at} IN SelectSeq(list, Kept)
    /\ outcome' = [kind |-> kind, finished |-> finished, call |-> call, out |-> out,
                   right |-> \A i \in at : table[list[i].qt] = list[i].op]
    /\ call' = None
    /\ UNCHANGED <<issued, expired>>

(***************************************************************************)
(* The call goes round its loop again.                                     *)
(***************************************************************************)
Continue(finished) ==
    /\ done' = finished
    /\ UNCHANGED <<table, list, issued, got, call, expired, outcome>>

At(qt) == {i \in DOMAIN list : list[i].qt = qt}

Wait2(finished) ==
    /\ call.kind = "wait2"
    /\ \/ call.qt \in finished /\ Return("result", At(call.qt), {call.qt}, finished)
       \/ call.qt \notin finished /\ Continue(finished)


Timedwait2(finished) ==
    /\ call.kind = "timedwait2"
    /\ \/ call.qt \in finished /\ Return("result", At(call.qt), {call.qt}, finished)
       \/ call.qt \notin finished /\ expired /\ Return("timeout", {}, {}, finished)
       \/ call.qt \notin finished /\ ~expired /\ Continue(finished)

TakenNow(finished, room) == Taken(Qts, Live, finished, room)
TokensAt(at) == {list[i].qt : i \in at}

(***************************************************************************)
(* What a scan that took the results at these positions returns: an        *)
(* invalid token further on makes the call fail, and the results are gone. *)
(***************************************************************************)
ReturnTaken(at, finished, room) ==
    LET bad == Fails(Qts, Live, finished, room) IN
    Return(IF bad THEN "EINVAL" ELSE IF at = {} THEN "timeout" ELSE "result",
           IF bad THEN {} ELSE at, TokensAt(at), finished)

WaitAny2(finished) ==
    LET at == TakenNow(finished, Room)
        over == at /= {} \/ expired \/ Fails(Qts, Live, finished, Room) IN
    /\ call.kind = "wait_any2"
    /\ \/ over /\ ReturnTaken(at, finished, Room)
       \/ ~over /\ Continue(finished)

WaitAny(finished) ==
    LET at == TakenNow(finished, Room)
        over == at /= {} \/ expired \/ Fails(Qts, Live, finished, Room) IN
    /\ call.kind = "wait_any"
    /\ \/ over /\ ReturnTaken(at, finished, Room)
       \/ ~over /\ Continue(finished)

(***************************************************************************)
(* wait_any_nonblocking2 does not look at the length of qrs: one result    *)
(* too many is stored out of bounds, after it was taken.                   *)
(***************************************************************************)
WaitAnyNonblocking2(finished) ==
    LET at == TakenNow(finished, Cardinality(Tokens)) IN
    /\ call.kind = "wait_any_nonblocking2"
    /\ IF Cardinality(at) > Room
       THEN Return("panic", {}, TokensAt(at), finished)
       ELSE ReturnTaken(at, finished, Cardinality(Tokens))

WaitAnyNonblockingOne2(finished) ==
    LET at == TakenNow(finished, 1) IN
    /\ call.kind = "wait_any_nonblocking_one2"
    /\ ReturnTaken(at, finished, 1)

(***************************************************************************)
(* One turn of the loop: background work finishes some operations, then    *)
(* the call looks at its tokens.                                           *)
(***************************************************************************)
Turn ==
    /\ call /= None
    /\ \E S \in SUBSET (Live \ done) :
          LET finished == done \cup S IN
          \/ Wait2(finished) \/ Timedwait2(finished)
          \/ WaitAny2(finished) \/ WaitAny(finished)
          \/ WaitAnyNonblocking2(finished) \/ WaitAnyNonblockingOne2(finished)

Next == Issue \/ Enter \/ Expire \/ Turn

Spec == Init /\ [][Next]_vars

(***************************************************************************)
(* The application keeps calling.                                          *)
(***************************************************************************)
FairSpec == Spec /\ WF_vars(Enter) /\ WF_vars(Turn)

-----------------------------------------------------------------------------
(***************************************************************************)
(* An operation that has left the scheduler was delivered exactly once,    *)
(* and one that is in it was not: no wait call loses a result or returns   *)
(* it twice, whatever time it expires and however small qrs is.            *)
(***************************************************************************)
DeliveredOnce ==
    \A o \in 1 .. issued : got[o] = (IF \E t \in Tokens : table[t] = o THEN 0 ELSE 1)

(***************************************************************************)
(* The result at an index is that of the operation whose token the         *)
(* application has at this index, although places are used again.          *)
(***************************************************************************)
RightResult == outcome.kind = "result" => outcome.right

(***************************************************************************)
(* A call fails with a timeout only when no operation it waits for is done *)
(* (demi_timedwait() "never fails with a timeout error" otherwise).        *)
(***************************************************************************)
NoLateTimeout ==
    outcome.kind = "timeout" /\ outcome.call.kind = "timedwait2" => outcome.call.qt \notin outcome.finished

(***************************************************************************)
(* No wait call stores results past the end of qrs.                        *)
(***************************************************************************)
StaysInRoom == outcome.kind /= "panic"

(***************************************************************************)
(* A finished operation is delivered when the application keeps waiting on *)
(* all its tokens.                                                         *)
(***************************************************************************)
FinishedIsDelivered == \A o \in Ops : (\E t \in done : table[t] = o) ~> (got[o] = 1)
=============================================================================
