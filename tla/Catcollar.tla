----------------------------- MODULE Catcollar ------------------------------
(***************************************************************************)
(* Catcollar (src/rust/catcollar): as Catnap, but push and pop are         *)
(* requests in an io_uring.  A coroutine polls its request through its own *)
(* clone of the runtime.  The clone shares the ring, but has copies of the *)
(* tables of pending and completed requests, made when the coroutine was.  *)
(*                                                                         *)
(* peek() calls io_uring_wait_cqe, which blocks the only thread until a    *)
(* completion, of whatever request, is there.                              *)
(***************************************************************************)
EXTENDS Catnap, Sequences

CONSTANTS
    MaxRequests,    \* bound: requests submitted
    OneAtATime      \* the application has one push or pop pending at a time

VARIABLES
    submitted,  \* number of requests submitted
    named,      \* requests with an address in msg_name
    inKernel,   \* requests the kernel works on
    cq,         \* completion queue of the ring
    pending,    \* the runtime's own table of pending requests
    clones,     \* token -> request and tables of its clone of the runtime
    blocked     \* the coroutine that waits in io_uring_wait_cqe
ring == <<submitted, named, inKernel, cq, pending, clones, blocked>>
collarVars == <<vars, ring>>

NoClone == [req |-> None, on |-> None, pending |-> {}, completed |-> {}]

RingInit ==
    /\ submitted = 0 /\ named = {} /\ inKernel = {} /\ cq = << >> /\ pending = {}
    /\ clones = [t \in Tokens |-> NoClone]
    /\ blocked = None

CollarInit == Init /\ RingInit

Running == blocked = None /\ ~panicked

CollarSocket == Running /\ Socket /\ UNCHANGED ring
CollarBind(qd) == Running /\ Bind(qd) /\ UNCHANGED ring
CollarListen(qd) == Running /\ Listen(qd) /\ UNCHANGED ring
CollarAccept(qd) == Running /\ Accept(qd) /\ UNCHANGED ring
CollarConnect(qd) == Running /\ Connect(qd) /\ UNCHANGED ring
CollarClose(qd) == Running /\ Close(qd) /\ UNCHANGED ring

-----------------------------------------------------------------------------
(***************************************************************************)
(* IoUring::push, pushto and pop submit a request, which the kernel binds  *)
(* to the socket at once.                                                  *)
(***************************************************************************)
Enqueue(withName) ==
    /\ submitted < MaxRequests
    /\ submitted' = submitted + 1
    /\ inKernel' = inKernel \cup {submitted + 1}
    /\ named' = IF withName THEN named \cup {submitted + 1} ELSE named

IoUringPush == Enqueue(FALSE)
IoUringPushto == Enqueue(TRUE)
IoUringPop == Enqueue(FALSE)

(***************************************************************************)
(* The runtime notes the request; then the coroutine gets its clone.       *)
(***************************************************************************)

Note(t, qd) ==
    /\ pending' = pending \cup {submitted'}
    /\ clones' = [clones EXCEPT ![t] = [req |-> submitted', on |-> kernel[sockets[qd]],
                                        pending |-> pending', completed |-> {}]]

RequestOps == {"push", "pushto", "pop"}

Issue(op, qd) ==
    /\ Running
    /\ OneAtATime => \A t \in Tokens : ~Pending(t, RequestOps)
    /\ Given(qd) /\ Open(sockets[qd])
    /\ Schedule(op, qd, None)
    /\ \E t \in Tokens : ~tasks[t].there /\ tasks'[t].there /\ Note(t, qd)
    /\ UNCHANGED <<kernel, role, born, qtable, sockets, meant, closed, outcome, panicked, cq, blocked>>

CollarDoPush(qd) == IoUringPush /\ Issue("push", qd)
CollarDoPushto(qd) == IoUringPushto /\ Issue("pushto", qd)
CollarPush(qd) == CollarDoPush(qd)
CollarPush2(qd) == CollarDoPush(qd)
CollarPushto(qd) == CollarDoPushto(qd)
CollarPushto2(qd) == CollarDoPushto(qd)
CollarPop(qd) == IoUringPop /\ Issue("pop", qd)

KernelCompletes(r) ==
    /\ r \in inKernel
    /\ inKernel' = inKernel \ {r}
    /\ cq' = Append(cq, r)
    /\ UNCHANGED <<vars, submitted, named, pending, clones, blocked>>

(***************************************************************************)
(* peek(): a completion that this clone has stored, else the next one of   *)
(* the ring.  That of another request goes into the clone's own table.  A  *)
(* signal ends the wait with an error.                                     *)
(***************************************************************************)
Completion(t) ==
    IF clones[t].req \in clones[t].completed THEN clones[t].req
    ELSE IF cq = << >> THEN None
    ELSE Head(cq)

(***************************************************************************)
(* The arms for a failed push expect no address.                           *)
(***************************************************************************)
Unexpected(t) == tasks[t].op \in {"push", "pushto"} /\ clones[t].req \in named

Done(t, err) == tasks' = [tasks EXCEPT ![t] = [@ EXCEPT !.done = TRUE, !.err = err]]

Peek(t) ==
    LET c == clones[t]
        r == Completion(t) IN
    \/ /\ r = c.req
       /\ \E err \in BOOLEAN : Done(t, err) /\ panicked' = (err /\ Unexpected(t))
       /\ cq' = IF r \in c.completed THEN cq ELSE Tail(cq)
       /\ blocked' = None
       /\ UNCHANGED clones
    \/ /\ r \notin {c.req, None}
       /\ clones' = [clones EXCEPT ![t].completed = @ \cup (c.pending \cap {r}),
                                   ![t].pending = @ \ {r}]
       /\ cq' = Tail(cq)
       /\ blocked' = None
       /\ UNCHANGED <<tasks, panicked>>
    \/ /\ r = None /\ blocked = None
       /\ blocked' = t
       /\ UNCHANGED <<tasks, cq, clones, panicked>>
    \/ /\ r = None /\ blocked = t
       /\ Done(t, TRUE)
       /\ blocked' = None
       /\ UNCHANGED <<cq, clones, panicked>>

CollarPollRequest(t, op) ==
    /\ ~panicked /\ blocked \in {None, t}
    /\ Pending(t, {op})
    /\ Peek(t)
    /\ outcome' = IF tasks'[t].done /\ ~tasks'[t].err
                  THEN [op |-> op, qd |-> tasks[t].qd, on |-> clones[t].on] ELSE outcome
    /\ UNCHANGED <<kernel, role, born, qtable, sockets, meant, closed, submitted, named, inKernel, pending>>

CollarPollPush(t) == CollarPollRequest(t, "push")
CollarPollPushto(t) == CollarPollRequest(t, "pushto")
CollarPollPop(t) == CollarPollRequest(t, "pop")
CollarPollAccept(t) == Running /\ PollAccept(t) /\ UNCHANGED ring
CollarPollConnect(t) == Running /\ PollConnect(t) /\ UNCHANGED ring

CollarTakeResult(t) ==
    /\ Running /\ Finished(t)
    /\ TakeResult(t)
    /\ clones' = [clones EXCEPT ![t] = NoClone]
    /\ UNCHANGED <<submitted, named, inKernel, cq, pending, blocked>>

CollarWait2(t) == CollarTakeResult(t)
CollarTimedwait(t) == CollarTakeResult(t)
CollarWaitAny2(t) == CollarTakeResult(t)

CollarPoll(t) ==
    \/ CollarPollPush(t) \/ CollarPollPushto(t) \/ CollarPollPop(t)
    \/ CollarPollAccept(t) \/ CollarPollConnect(t)

CollarNext ==
    \/ CollarSocket
    \/ \E qd \in Qds :
          \/ CollarBind(qd) \/ CollarListen(qd) \/ CollarAccept(qd) \/ CollarConnect(qd) \/ CollarClose(qd)
          \/ CollarPush(qd) \/ CollarPush2(qd) \/ CollarPushto(qd) \/ CollarPushto2(qd) \/ CollarPop(qd)
    \/ \E t \in Tokens : CollarPoll(t) \/ CollarWait2(t) \/ CollarTimedwait(t) \/ CollarWaitAny2(t)
    \/ \E r \in 1 .. MaxRequests : KernelCompletes(r)

CollarSpec == CollarInit /\ [][CollarNext]_collarVars

(***************************************************************************)
(* The wait loop polls every coroutine again and again.  The kernel need   *)
(* not complete a request, nor a signal come: nothing may arrive.          *)
(***************************************************************************)
CanGoOn(t) == blocked /= t \/ cq /= << >>
CollarFairSpec == CollarSpec /\ \A t \in Tokens : WF_collarVars(CanGoOn(t) /\ CollarPoll(t))

-----------------------------------------------------------------------------
(***************************************************************************)
(* The completion of a request is in the ring or was given to the          *)
(* coroutine that waits for it: one that was polled first does not keep    *)
(* it.                                                                     *)
(***************************************************************************)
CompletionNotLost ==
    \A t \in Tokens : Pending(t, RequestOps) =>
        LET r == clones[t].req IN
        r \in inKernel \/ r \in clones[t].completed \/ \E i \in DOMAIN cq : cq[i] = r

(***************************************************************************)
(* A push or pop succeeds only when its own request has completed.         *)
(***************************************************************************)
OwnCompletion ==
    \A t \in Tokens : tasks[t].there /\ tasks[t].op \in RequestOps /\ tasks[t].done /\ ~tasks[t].err =>
        /\ clones[t].req \notin inKernel
        /\ \A i \in DOMAIN cq : cq[i] /= clones[t].req

(***************************************************************************)
(* A push or pop returns once the kernel has completed its request.        *)
(***************************************************************************)
CompletedReturns ==
    \A t \in Tokens : \A r \in 1 .. MaxRequests :
        (Pending(t, RequestOps) /\ clones[t].req = r /\ r \notin inKernel)
            ~> ~(Pending(t, RequestOps) /\ clones[t].req = r)

(***************************************************************************)
(* A pending accept is polled, whatever other operations wait for: here    *)
(* its first poll finds a connection or an error.                          *)
(***************************************************************************)
AcceptIsPolled ==
    \A t \in Tokens : Pending(t, {"accept"}) ~> ~Pending(t, {"accept"})
=============================================================================
