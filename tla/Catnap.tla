------------------------------- MODULE Catnap -------------------------------
(***************************************************************************)
(* Catnap (src/rust/catnap): queue descriptors over POSIX sockets.  Every  *)
(* operation is a coroutine that makes the system call anew at each poll   *)
(* and notifies itself while the call would block.                         *)
(*                                                                         *)
(* The kernel is environment: it gives out the lowest free file descriptor *)
(* and every open one stands for a socket, here a number that is never     *)
(* used again.  Operations that fail without a change of state are left    *)
(* out; a queue descriptor that the application uses was given to it.      *)
(***************************************************************************)
EXTENDS Integers, FiniteSets

CONSTANTS
    MaxQds,     \* bound: queue descriptors
    MaxFds,     \* bound: file descriptors
    MaxSockets, \* bound: sockets the kernel creates
    Tokens,
    Careful,    \* the application does not use a descriptor that it has closed,
                \* nor close one that an operation is pending on, and binds once
    None

Qds == 0 .. MaxQds - 1
Fds == 0 .. MaxFds - 1

VARIABLES
    kernel,     \* file descriptor -> socket
    role,       \* socket -> fresh, bound or listening
    born,       \* number of sockets created so far
    qtable,     \* descriptors in use, in order of allocation
    sockets,    \* queue descriptor -> file descriptor
    meant,      \* ghost: queue descriptor -> the socket it was created for
    closed,     \* ghost: queue descriptors the application has closed
    tasks,      \* token -> operation
    outcome,    \* ghost: the operation that finished last and the socket it used
    panicked
vars == <<kernel, role, born, qtable, sockets, meant, closed, tasks, outcome, panicked>>

Idle == [there |-> FALSE]
Nothing == [op |-> None, qd |-> None, on |-> None]

Init ==
    /\ kernel = [f \in Fds |-> None]
    /\ role = [s \in 1 .. MaxSockets |-> "fresh"]
    /\ born = 0
    /\ qtable = {}
    /\ sockets = [q \in Qds |-> None]
    /\ meant = [q \in Qds |-> None]
    /\ closed = {}
    /\ tasks = [t \in Tokens |-> Idle]
    /\ outcome = Nothing
    /\ panicked = FALSE

Open(fd) == fd /= None /\ kernel[fd] /= None
CanCreate == born < MaxSockets /\ \E f \in Fds : kernel[f] = None
LowestFd == CHOOSE f \in Fds : kernel[f] = None /\ \A g \in Fds : kernel[g] = None => f <= g

FreeQds == Qds \ qtable
LowestQd == CHOOSE q \in FreeQds : \A r \in FreeQds : q <= r

Given(qd) ==
    /\ sockets[qd] /= None
    /\ Careful => qd \notin closed

-----------------------------------------------------------------------------
Socket ==
    /\ CanCreate /\ FreeQds /= {}
    /\ kernel' = [kernel EXCEPT ![LowestFd] = born + 1]
    /\ born' = born + 1
    /\ qtable' = qtable \cup {LowestQd}
    /\ sockets' = [sockets EXCEPT ![LowestQd] = LowestFd]
    /\ meant' = [meant EXCEPT ![LowestQd] = born + 1]
    /\ panicked' = (sockets[LowestQd] /= None)
    /\ UNCHANGED <<role, closed, tasks, outcome>>

(***************************************************************************)
(* bind() and listen() unwrap the result of the system call.               *)
(***************************************************************************)
Bind(qd) ==
    /\ Given(qd) /\ Open(sockets[qd])
    /\ Careful => role[kernel[sockets[qd]]] = "fresh"
    /\ LET s == kernel[sockets[qd]] IN
       /\ role' = [role EXCEPT ![s] = IF @ = "fresh" THEN "bound" ELSE @]
       /\ panicked' = (role[s] /= "fresh")
    /\ UNCHANGED <<kernel, born, qtable, sockets, meant, closed, tasks, outcome>>

Listen(qd) ==
    /\ Given(qd) /\ Open(sockets[qd])
    /\ role' = [role EXCEPT ![kernel[sockets[qd]]] = "listening"]
    /\ UNCHANGED <<kernel, born, qtable, sockets, meant, closed, tasks, outcome, panicked>>

Schedule(op, qd, new) ==
    \E t \in Tokens :
        /\ ~tasks[t].there
        /\ tasks' = [tasks EXCEPT ![t] = [there |-> TRUE, op |-> op, qd |-> qd, fd |-> sockets[qd], new |-> new,
                                          done |-> FALSE, err |-> FALSE, newFd |-> None]]

Accept(qd) ==
    /\ Given(qd) /\ FreeQds /= {}
    /\ qtable' = qtable \cup {LowestQd}
    /\ Schedule("accept", qd, LowestQd)
    /\ UNCHANGED <<kernel, role, born, sockets, meant, closed, outcome, panicked>>

Connect(qd) == Given(qd) /\ Schedule("connect", qd, None)
               /\ UNCHANGED <<kernel, role, born, qtable, sockets, meant, closed, outcome, panicked>>

(***************************************************************************)
(* A push hands a copy of the data, which is not empty, to a coroutine.    *)
(***************************************************************************)
DoPush(qd) == Given(qd) /\ Schedule("push", qd, None)
              /\ UNCHANGED <<kernel, role, born, qtable, sockets, meant, closed, outcome, panicked>>

DoPushto(qd) == Given(qd) /\ Schedule("pushto", qd, None)
                /\ UNCHANGED <<kernel, role, born, qtable, sockets, meant, closed, outcome, panicked>>

Push(qd) == DoPush(qd)
Push2(qd) == DoPush(qd)
Pushto(qd) == DoPushto(qd)
Pushto2(qd) == DoPushto(qd)

Pop(qd) == Given(qd) /\ Schedule("pop", qd, None)
           /\ UNCHANGED <<kernel, role, born, qtable, sockets, meant, closed, outcome, panicked>>

(***************************************************************************)
(* close() closes the file descriptor; the queue descriptor keeps it.      *)
(***************************************************************************)
Close(qd) ==
    /\ Given(qd) /\ Open(sockets[qd])
    /\ Careful => \A t \in Tokens : tasks[t].there => tasks[t].qd /= qd
    /\ kernel' = [kernel EXCEPT ![sockets[qd]] = None]
    /\ closed' = closed \cup {qd}
    /\ outcome' = [op |-> "close", qd |-> qd, on |-> kernel[sockets[qd]]]
    /\ UNCHANGED <<role, born, qtable, sockets, meant, tasks, panicked>>

-----------------------------------------------------------------------------
(***************************************************************************)
(* A poll that finishes the operation.  While the call would block the     *)
(* coroutine notifies itself and nothing changes.                          *)
(***************************************************************************)
Finish(t, err, newFd) ==
    /\ tasks' = [tasks EXCEPT ![t] = [@ EXCEPT !.done = TRUE, !.err = err, !.newFd = newFd]]
    /\ outcome' = IF err THEN outcome ELSE [op |-> tasks[t].op, qd |-> tasks[t].qd, on |-> kernel[tasks[t].fd]]

Pending(t, ops) == tasks[t].there /\ ~tasks[t].done /\ tasks[t].op \in ops

PollAccept(t) ==
    /\ Pending(t, {"accept"})
    /\ \/ /\ Open(tasks[t].fd) /\ role[kernel[tasks[t].fd]] = "listening" /\ CanCreate
          /\ kernel' = [kernel EXCEPT ![LowestFd] = born + 1]
          /\ born' = born + 1
          /\ Finish(t, FALSE, LowestFd)
       \/ Finish(t, TRUE, None) /\ UNCHANGED <<kernel, born>>
    /\ UNCHANGED <<role, qtable, sockets, meant, closed, panicked>>

PollOther(t, op) ==
    /\ Pending(t, {op})
    /\ \/ Open(tasks[t].fd) /\ Finish(t, FALSE, None)
       \/ Finish(t, TRUE, None)
    /\ UNCHANGED <<kernel, role, born, qtable, sockets, meant, closed, panicked>>

PollConnect(t) == PollOther(t, "connect")
PollPush(t) == PollOther(t, "push")
PollPushto(t) == PollOther(t, "pushto")
PollPop(t) == PollOther(t, "pop")

(***************************************************************************)
(* take_result: the accepted connection enters the tables only when the    *)
(* application takes the result.                                           *)
(***************************************************************************)


TakeResult(t) ==
    /\ tasks' = [tasks EXCEPT ![t] = Idle]
    /\ LET new == tasks[t].new
           fd == tasks[t].newFd IN
       /\ qtable' = IF new /= None /\ fd = None THEN qtable \ {new} ELSE qtable
       /\ sockets' = IF fd /= None THEN [sockets EXCEPT ![new] = fd] ELSE sockets
       /\ meant' = IF fd /= None THEN [meant EXCEPT ![new] = kernel[fd]] ELSE meant
       /\ panicked' = (fd /= None /\ sockets[new] /= None)
    /\ UNCHANGED <<kernel, role, born, closed, outcome>>

(***************************************************************************)
(* The wait calls poll the scheduler until the operation is done.  On a    *)
(* timeout timedwait keeps the operation; wait_any2 takes all the results  *)
(* it finds, here one after the other.                                     *)
(***************************************************************************)
Finished(t) == tasks[t].there /\ tasks[t].done
Wait2(t) == Finished(t) /\ TakeResult(t)
Timedwait(t) == Finished(t) /\ TakeResult(t)
WaitAny2(t) == Finished(t) /\ TakeResult(t)

Poll(t) == PollAccept(t) \/ PollConnect(t) \/ PollPush(t) \/ PollPushto(t) \/ PollPop(t)

Next ==
    /\ ~panicked
    /\ \/ Socket
       \/ \E qd \in Qds :
             \/ Bind(qd) \/ Listen(qd) \/ Accept(qd) \/ Connect(qd)
             \/ Push(qd) \/ Push2(qd) \/ Pushto(qd) \/ Pushto2(qd) \/ Pop(qd) \/ Close(qd)
       \/ \E t \in Tokens : Poll(t) \/ Wait2(t) \/ Timedwait(t) \/ WaitAny2(t)

Spec == Init /\ [][Next]_vars

-----------------------------------------------------------------------------
(***************************************************************************)
(* The asserts on the table of sockets and the unwraps hold.               *)
(***************************************************************************)
NeverPanics == ~panicked

(***************************************************************************)
(* No file descriptor is lost: every open one belongs to a queue           *)
(* descriptor, or to an accept whose result was not taken yet, and to one  *)
(* of them only.                                                           *)
(***************************************************************************)
FdsOwnedOnce ==
    \A f \in Fds : kernel[f] /= None =>
        Cardinality({q \in Qds \ closed : sockets[q] = f})
        + Cardinality({t \in Tokens : tasks[t].there /\ tasks[t].newFd = f}) = 1

(***************************************************************************)
(* A descriptor that an accept has booked is in the table, has no socket   *)
(* and is booked once.                                                     *)
(***************************************************************************)
BookedOnce ==
    \A t \in Tokens : tasks[t].there /\ tasks[t].op = "accept" =>
        /\ tasks[t].new \in qtable /\ sockets[tasks[t].new] = None
        /\ \A s \in Tokens \ {t} : tasks[s].there => tasks[s].new /= tasks[t].new

(***************************************************************************)
(* An operation on a queue descriptor reaches the socket that the          *)
(* descriptor was created for, or fails.                                   *)
(***************************************************************************)
ReachesOwn == outcome.op /= None => outcome.on = meant[outcome.qd]
=============================================================================
