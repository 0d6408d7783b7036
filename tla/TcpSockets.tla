----------------------------- MODULE TcpSockets -----------------------------
(***************************************************************************)
(* The socket interface of one network stack: the descriptor table, the    *)
(* tables of the TCP peer (src/rust/inetstack/protocols/tcp/peer.rs), the  *)
(* ephemeral ports and the operations that run as coroutines (accept,      *)
(* connect, push, pop).  The protocols below are environment: connections  *)
(* arrive in the accept queue of a listener, connect gets its result, data *)
(* arrives, a connection migrates away.                                    *)
(*                                                                         *)
(* Calls that fail without a change of state are left out.                 *)
(***************************************************************************)
EXTENDS Integers, Sequences, FiniteSets

CONSTANTS
    MaxQds,         \* descriptors the model has room for
    Tokens,         \* places of the scheduler
    Addrs,          \* local ports an application may name
    EphemeralPool,  \* the pool EphemeralPorts::new makes, a sequence
    Remotes,        \* addresses of peers
    None,
    Ops,            \* the operations the application uses
    Disciplined     \* one accept or pop at a time per descriptor, none at its close

Qds == 0 .. MaxQds - 1
FirstPrivatePort == 49152
IsPrivate(port) == port >= FirstPrivatePort

Locals == Addrs \cup {EphemeralPool[i] : i \in DOMAIN EphemeralPool}
Keys == Locals \X Remotes

VARIABLES
    files,          \* IoQueueTable: descriptors in use, vacant ones in order, next new one
    sockets,        \* descriptor -> Socket
    passive,        \* local -> accept queue and its waker
    connecting,     \* key -> result and its waker
    established,    \* key -> connection, with unread segments and its waker
    qds,            \* key -> descriptor
    ports,          \* the ephemeral ports that are free
    tasks,          \* token -> coroutine
    runnable,       \* the tokens whose coroutine is notified
    panicked

tables == <<files, sockets, passive, connecting, established, qds, ports>>
vars == <<files, sockets, passive, connecting, established, qds, ports, tasks, runnable, panicked>>

Inactive(local) == [state |-> "Inactive", local |-> local, remote |-> None]
Listening(local) == [state |-> "Listening", local |-> local, remote |-> None]
Connecting(k) == [state |-> "Connecting", local |-> k[1], remote |-> k[2]]
Established(k) == [state |-> "Established", local |-> k[1], remote |-> k[2]]
MigratedOut(k) == [state |-> "MigratedOut", local |-> k[1], remote |-> k[2]]
NoSocket == [state |-> "None", local |-> None, remote |-> None]

KeyOf(qd) == <<sockets[qd].local, sockets[qd].remote>>
InState(qd, state) == sockets[qd].state = state

Absent == [there |-> FALSE]

Init ==
    /\ files = [open |-> {}, vacant |-> << >>, next |-> 0]
    /\ sockets = [q \in Qds |-> NoSocket]
    /\ passive = [l \in Locals |-> Absent]
    /\ connecting = [k \in Keys |-> Absent]
    /\ established = [k \in Keys |-> Absent]
    /\ qds = [k \in Keys |-> None]
    /\ ports = EphemeralPool
    /\ tasks = [t \in Tokens |-> Absent]
    /\ runnable = {}
    /\ panicked = FALSE

-----------------------------------------------------------------------------
(***************************************************************************)
(* The descriptor table is a slab: the entry that was vacated last is used *)
(* first.                                                                  *)
(***************************************************************************)
HasRoom == files.vacant /= << >> \/ files.next < MaxQds
NextQd == IF files.vacant /= << >> THEN Head(files.vacant) ELSE files.next

Alloc ==
    [open |-> files.open \cup {NextQd},
     vacant |-> IF files.vacant /= << >> THEN Tail(files.vacant) ELSE << >>,
     next |-> IF files.vacant /= << >> THEN files.next ELSE files.next + 1]

Free(qd) ==
    IF qd \in files.open
    THEN [files EXCEPT !.open = @ \ {qd}, !.vacant = <<qd>> \o @]
    ELSE files

(***************************************************************************)
(* Ephemeral ports: a stack, from which a given port can also be taken.    *)
(***************************************************************************)
InPool(port) == \E i \in DOMAIN ports : ports[i] = port
LastPort == ports[Len(ports)]
PopPort == SubSeq(ports, 1, Len(ports) - 1)
TakePort(port) == SelectSeq(ports, LAMBDA p : p /= port)

-----------------------------------------------------------------------------
(***************************************************************************)
(* The application uses descriptors that a call or a token has given it.   *)
(***************************************************************************)
Given(qd) == qd \in files.open /\ \A t \in Tokens : tasks[t].there => tasks[t].new /= qd

DoSocket(qd) == sockets[qd] = NoSocket /\ sockets' = [sockets EXCEPT ![qd] = Inactive(None)]

(***************************************************************************)
(* socket(AF_INET, SOCK_STREAM).                                           *)
(***************************************************************************)
SocketCall ==
    /\ HasRoom
    /\ files' = Alloc
    /\ DoSocket(NextQd)
    /\ UNCHANGED <<passive, connecting, established, qds, ports, tasks, runnable, panicked>>

BoundTo(addr) ==
    \E q \in Qds : sockets[q].local = addr
                   /\ sockets[q].state \in {"Inactive", "Listening", "Connecting", "Established"}

(***************************************************************************)
(* bind(qd, addr).  A private port is taken from the pool first, port 0    *)
(* takes any; when the socket then cannot be bound the port goes back.     *)
(***************************************************************************)

Bind(qd, addr) ==
    /\ Given(qd)
    /\ ~BoundTo(addr)
    /\ IsPrivate(addr) => InPool(addr)
    /\ LET pool == IF IsPrivate(addr) THEN TakePort(addr) ELSE ports IN
       \/ /\ sockets[qd] = Inactive(None)
          /\ sockets' = [sockets EXCEPT ![qd] = Inactive(addr)]
          /\ ports' = pool
       \/ /\ sockets[qd] /= Inactive(None)
          /\ ports' = IF IsPrivate(addr) THEN Append(pool, addr) ELSE pool
          /\ UNCHANGED sockets
    /\ UNCHANGED <<files, passive, connecting, established, qds, tasks, runnable, panicked>>

BindAny(qd) ==
    /\ Given(qd)
    /\ ports /= << >>
    /\ sockets[qd] = Inactive(None)
    /\ sockets' = [sockets EXCEPT ![qd] = Inactive(LastPort)]
    /\ ports' = PopPort
    /\ UNCHANGED <<files, passive, connecting, established, qds, tasks, runnable, panicked>>

Listen(qd) ==
    /\ Given(qd)
    /\ InState(qd, "Inactive") /\ sockets[qd].local /= None
    /\ ~passive[sockets[qd].local].there
    /\ passive' = [passive EXCEPT ![sockets[qd].local] = [there |-> TRUE, ready |-> << >>, waker |-> None]]
    /\ sockets' = [sockets EXCEPT ![qd] = Listening(sockets[qd].local)]
    /\ UNCHANGED <<files, connecting, established, qds, ports, tasks, runnable, panicked>>

-----------------------------------------------------------------------------
(***************************************************************************)
(* Operations.  The coroutine keeps the descriptors and not the socket;    *)
(* conn is a ghost: the connection that the descriptor stood for.          *)
(***************************************************************************)
Spawn(op, qd, new, conn, err) ==
    \E t \in Tokens :
        /\ ~tasks[t].there
        /\ tasks' = [tasks EXCEPT ![t] = [there |-> TRUE, op |-> op, qd |-> qd, new |-> new,
                                          conn |-> conn, err |-> err, done |-> FALSE, from |-> None]]
        /\ runnable' = runnable \cup {t}

SchedulerFull == \A t \in Tokens : tasks[t].there

Outstanding(op, qd) == \E t \in Tokens : tasks[t].there /\ tasks[t].op = op /\ tasks[t].qd = qd /\ ~tasks[t].done

(***************************************************************************)
(* accept(qd) books the descriptor of the new connection in advance.       *)
(***************************************************************************)
Accept(qd) ==
    /\ "accept" \in Ops /\ Given(qd)
    /\ Disciplined => ~Outstanding("accept", qd)
    /\ HasRoom
    /\ \/ files' = Alloc /\ Spawn("accept", qd, NextQd, None, FALSE)
       \/ SchedulerFull /\ UNCHANGED <<files, tasks, runnable>>
    /\ UNCHANGED <<sockets, passive, connecting, established, qds, ports, panicked>>

(***************************************************************************)
(* connect(qd, remote).  The socket is Connecting and its SYN coroutine    *)
(* runs before the coroutine that the token stands for is scheduled.  An   *)
(* entry left by a closed socket is replaced and an error returned.        *)
(***************************************************************************)
Connect(qd, remote) ==
    /\ "connect" \in Ops /\ Given(qd)
    /\ InState(qd, "Inactive")
    /\ \/ sockets[qd].local = None /\ ports /= << >> /\ ports' = PopPort
       \/ sockets[qd].local /= None /\ UNCHANGED ports
    /\ LET k == <<IF sockets[qd].local = None THEN LastPort ELSE sockets[qd].local, remote>> IN
       /\ sockets' = [sockets EXCEPT ![qd] = Connecting(k)]
       /\ connecting' = [connecting EXCEPT ![k] = [there |-> TRUE, result |-> None, waker |-> None]]
       /\ \/ connecting[k].there /\ UNCHANGED <<tasks, runnable>>
          \/ ~connecting[k].there /\ Spawn("connect", qd, None, k, FALSE)
          \/ ~connecting[k].there /\ SchedulerFull /\ UNCHANGED <<tasks, runnable>>
    /\ UNCHANGED <<files, passive, established, qds, panicked>>

(***************************************************************************)
(* push(qd, buf) sends at once; the coroutine only carries the error.      *)
(***************************************************************************)
Push(qd) ==
    /\ "push" \in Ops /\ Given(qd)
    /\ Spawn("push", qd, None, None, ~InState(qd, "Established"))
    /\ UNCHANGED <<files, sockets, passive, connecting, established, qds, ports, panicked>>

Pop(qd) ==
    /\ "pop" \in Ops /\ Given(qd)
    /\ Disciplined => ~Outstanding("pop", qd)
    /\ Spawn("pop", qd, None, IF InState(qd, "Established") THEN KeyOf(qd) ELSE None, FALSE)
    /\ UNCHANGED <<files, sockets, passive, connecting, established, qds, ports, panicked>>

DoClose(qd) == sockets[qd] /= NoSocket /\ sockets' = [sockets EXCEPT ![qd] = NoSocket]

(***************************************************************************)
(* close(qd).  do_close removes the socket whatever its state, but only an *)
(* established one is closed and its descriptor freed: for the others the  *)
(* error returns first.                                                    *)
(***************************************************************************)
Close(qd) ==
    /\ Given(qd)
    /\ Disciplined => ~Outstanding("accept", qd) /\ ~Outstanding("pop", qd)
    /\ DoClose(qd)
    /\ IF InState(qd, "Established") THEN files' = Free(qd) ELSE UNCHANGED files
    /\ UNCHANGED <<passive, connecting, established, qds, ports, tasks, runnable, panicked>>

-----------------------------------------------------------------------------
(***************************************************************************)
(* The scheduler polls a notified coroutine.                               *)
(***************************************************************************)
MutRegisterAccept(l, t) == passive
RegisterAccept(l, t) == [passive EXCEPT ![l].waker = t]
RegisterConnect(k, t) == [connecting EXCEPT ![k].waker = t]
RegisterRecv(k, t) == [established EXCEPT ![k].waker = t]

Finish(t, err, from) ==
    tasks' = [tasks EXCEPT ![t] = [@ EXCEPT !.done = TRUE, !.err = err, !.from = from]]

PollAccept(t) ==
    LET qd == tasks[t].qd
        new == tasks[t].new
        l == sockets[qd].local IN
    /\ t \in runnable /\ tasks[t].op = "accept"
    /\ runnable' = runnable \ {t}
    /\ \/ /\ ~InState(qd, "Listening")
          /\ Finish(t, TRUE, None)
          /\ UNCHANGED <<sockets, passive, established, qds, panicked>>
       \/ /\ InState(qd, "Listening") /\ passive[l].ready = << >>
          /\ passive' = RegisterAccept(l, t)
          /\ UNCHANGED <<sockets, established, qds, tasks, panicked>>
       \/ /\ InState(qd, "Listening") /\ passive[l].ready /= << >>
          /\ LET k == <<l, Head(passive[l].ready)>> IN
             /\ passive' = [passive EXCEPT ![l].ready = Tail(@)]
             /\ sockets' = [sockets EXCEPT ![new] = Established(k)]
             /\ qds' = [qds EXCEPT ![k] = new]
             /\ established' = [established EXCEPT ![k] = [there |-> TRUE, unread |-> 0, waker |-> None]]
             /\ panicked' = \/ sockets[new].state \notin {"None", "MigratedOut"}
                            \/ qds[k] /= None
                            \/ established[k].there
             /\ Finish(t, FALSE, k)
    /\ UNCHANGED <<files, connecting, ports>>

(***************************************************************************)
(* poll_connect_finished.  After a failure the socket stays Connecting.    *)
(***************************************************************************)
PollConnect(t) ==
    LET qd == tasks[t].qd
        k == KeyOf(qd) IN
    /\ t \in runnable /\ tasks[t].op = "connect"
    /\ runnable' = runnable \ {t}
    /\ \/ /\ ~InState(qd, "Connecting")
          /\ Finish(t, TRUE, None)
          /\ UNCHANGED <<sockets, connecting, established, panicked>>
       \/ /\ InState(qd, "Connecting") /\ connecting[k].there /\ connecting[k].result = None
          /\ connecting' = RegisterConnect(k, t)
          /\ UNCHANGED <<sockets, established, tasks, panicked>>
       \/ /\ InState(qd, "Connecting") /\ connecting[k].there /\ connecting[k].result = "refused"
          /\ connecting' = [connecting EXCEPT ![k] = Absent]
          /\ Finish(t, TRUE, None)
          /\ UNCHANGED <<sockets, established, panicked>>
       \/ /\ InState(qd, "Connecting") /\ connecting[k].there /\ connecting[k].result = "connected"
          /\ connecting' = [connecting EXCEPT ![k] = Absent]
          /\ established' = [established EXCEPT ![k] = [there |-> TRUE, unread |-> 0, waker |-> None]]
          /\ sockets' = [sockets EXCEPT ![qd] = Established(k)]
          /\ panicked' = established[k].there
          /\ Finish(t, FALSE, k)
    /\ UNCHANGED <<files, passive, qds, ports>>

PollPush(t) ==
    /\ t \in runnable /\ tasks[t].op = "push"
    /\ runnable' = runnable \ {t}
    /\ Finish(t, tasks[t].err, None)
    /\ UNCHANGED <<tables, panicked>>

(***************************************************************************)
(* poll_recv looks the descriptor up again each time.                      *)
(***************************************************************************)
PollPop(t) ==
    LET qd == tasks[t].qd
        k == KeyOf(qd) IN
    /\ t \in runnable /\ tasks[t].op = "pop"
    /\ runnable' = runnable \ {t}
    /\ \/ /\ ~InState(qd, "Established")
          /\ Finish(t, TRUE, None)
          /\ UNCHANGED established
       \/ /\ InState(qd, "Established") /\ established[k].unread = 0
          /\ established' = RegisterRecv(k, t)
          /\ UNCHANGED tasks
       \/ /\ InState(qd, "Established") /\ established[k].unread > 0
          /\ established' = [established EXCEPT ![k].unread = @ - 1]
          /\ Finish(t, FALSE, k)
    /\ UNCHANGED <<files, sockets, passive, connecting, qds, ports, panicked>>

(***************************************************************************)
(* wait(): take_operation gives the descriptor of a failed accept back.    *)
(***************************************************************************)
Take(t) ==
    /\ tasks[t].there /\ tasks[t].done
    /\ tasks' = [tasks EXCEPT ![t] = Absent]
    /\ files' = IF tasks[t].op = "accept" /\ tasks[t].err THEN Free(tasks[t].new) ELSE files
    /\ UNCHANGED <<sockets, passive, connecting, established, qds, ports, runnable, panicked>>

-----------------------------------------------------------------------------
(***************************************************************************)
(* What the protocols below do.                                            *)
(***************************************************************************)
Notify(waker) == runnable' = IF waker = None THEN runnable ELSE runnable \cup {waker}

InReady(k) == \E i \in DOMAIN passive[k[1]].ready : passive[k[1]].ready[i] = k[2]

Arrive(k) ==
    /\ passive[k[1]].there
    /\ ~established[k].there /\ ~connecting[k].there /\ ~InReady(k)
    /\ passive' = [passive EXCEPT ![k[1]].ready = Append(@, k[2]), ![k[1]].waker = None]
    /\ Notify(passive[k[1]].waker)
    /\ UNCHANGED <<files, sockets, connecting, established, qds, ports, tasks, panicked>>

ConnectResult(k) ==
    /\ connecting[k].there /\ connecting[k].result = None
    /\ \E r \in {"refused"} \cup (IF established[k].there THEN {} ELSE {"connected"}) :
          connecting' = [connecting EXCEPT ![k].result = r, ![k].waker = None]
    /\ Notify(connecting[k].waker)
    /\ UNCHANGED <<files, sockets, passive, established, qds, ports, tasks, panicked>>

Receive(k) ==
    /\ established[k].there /\ established[k].unread = 0
    /\ established' = [established EXCEPT ![k].unread = 1, ![k].waker = None]
    /\ Notify(established[k].waker)
    /\ UNCHANGED <<files, sockets, passive, connecting, qds, ports, tasks, panicked>>

MutMigrateOut(k) ==
    /\ qds[k] /= None /\ sockets[qds[k]] = Established(k)
    /\ qds' = [qds EXCEPT ![k] = None]
    /\ established' = [established EXCEPT ![k] = Absent]
    /\ Notify(established[k].waker)
    /\ UNCHANGED <<files, sockets, passive, connecting, ports, tasks, panicked>>

(***************************************************************************)
(* migrate_out_connection, for connections that were accepted here: those  *)
(* made by connect are not in qds.                                         *)
(***************************************************************************)
MigrateOut(k) ==
    /\ qds[k] /= None /\ sockets[qds[k]] = Established(k)
    /\ sockets' = [sockets EXCEPT ![qds[k]] = MigratedOut(k)]
    /\ qds' = [qds EXCEPT ![k] = None]
    /\ established' = [established EXCEPT ![k] = Absent]
    /\ Notify(established[k].waker)
    /\ UNCHANGED <<files, passive, connecting, ports, tasks, panicked>>

Poll(t) == tasks[t].there /\ (PollAccept(t) \/ PollConnect(t) \/ PollPush(t) \/ PollPop(t))

Call ==
    \/ SocketCall
    \/ \E qd \in Qds :
          \/ \E a \in Addrs : Bind(qd, a)
          \/ BindAny(qd) \/ Listen(qd) \/ Accept(qd) \/ Push(qd) \/ Pop(qd) \/ Close(qd)
          \/ \E r \in Remotes : Connect(qd, r)
    \/ \E t \in Tokens : Take(t)

Below == \E k \in Keys : Arrive(k) \/ ConnectResult(k) \/ Receive(k) \/ MigrateOut(k)

Next == ~panicked /\ (Call \/ (\E t \in Tokens : Poll(t)) \/ Below)

Spec == Init /\ [][Next]_vars

FairSpec == Spec /\ \A t \in Tokens : WF_vars(~panicked /\ Poll(t))

-----------------------------------------------------------------------------
TypeOK ==
    /\ files.open \subseteq Qds /\ files.next \in 0 .. MaxQds
    /\ \A q \in Qds : sockets[q].local \in Locals \cup {None} /\ sockets[q].remote \in Remotes \cup {None}
    /\ runnable \subseteq {t \in Tokens : tasks[t].there /\ ~tasks[t].done}
    /\ panicked \in BOOLEAN

(***************************************************************************)
(* No sequence of calls and events reaches one of the panics and asserts   *)
(* of poll_accept and poll_connect_finished.                               *)
(***************************************************************************)
NeverPanics == ~panicked

(***************************************************************************)
(* The tables agree: a listening socket has its accept queue (poll_accept  *)
(* panics on "sockets/local inconsistency"), an established one has its    *)
(* connection, one connection has one descriptor, and the descriptor that  *)
(* an accept returns is the one of its connection.                         *)
(***************************************************************************)
TablesAgree ==
    /\ \A q \in Qds :
          /\ InState(q, "Listening") => passive[sockets[q].local].there
          /\ InState(q, "Established") => established[KeyOf(q)].there
          /\ \A p \in Qds : InState(q, "Established") /\ sockets[p] = sockets[q] => p = q
    /\ \A t \in Tokens : tasks[t].there /\ tasks[t].op = "accept" /\ tasks[t].done /\ ~tasks[t].err =>
          LET k == tasks[t].from IN sockets[tasks[t].new] \in {Established(k), MigratedOut(k), NoSocket}

(***************************************************************************)
(* A descriptor has one user: vacant ones have no socket, are listed once, *)
(* and the one that a pending accept has booked is nobody else's.          *)
(***************************************************************************)
DescriptorsExclusive ==
    /\ \A i, j \in DOMAIN files.vacant : files.vacant[i] = files.vacant[j] => i = j
    /\ \A i \in DOMAIN files.vacant : files.vacant[i] \notin files.open
    /\ \A q \in Qds : sockets[q] /= NoSocket => q \in files.open
    /\ \A t \in Tokens : tasks[t].there /\ tasks[t].op = "accept" /\ ~tasks[t].done =>
          /\ tasks[t].new \in files.open
          /\ sockets[tasks[t].new] = NoSocket
          /\ \A s \in Tokens \ {t} : tasks[s].there /\ tasks[s].op = "accept" /\ ~tasks[s].done
                => tasks[s].new /= tasks[t].new

(***************************************************************************)
(* A port has one owner: one that is in the pool is bound by nobody and is *)
(* there once, whatever binds failed and gave their port back.             *)
(***************************************************************************)
PortsExclusive ==
    /\ \A i, j \in DOMAIN ports : ports[i] = ports[j] => i = j
    /\ \A q \in Qds : sockets[q].local /= None => ~InPool(sockets[q].local)

(***************************************************************************)
(* Two sockets that bind or connect made are not bound to one address.     *)
(***************************************************************************)
AddressesExclusive ==
    \A p, q \in Qds : /\ sockets[p].local /= None /\ sockets[p].local = sockets[q].local
                      /\ {sockets[p].state, sockets[q].state} \subseteq {"Inactive", "Listening", "Connecting"}
                     => p = q

(***************************************************************************)
(* A pop that succeeds returns data of the connection that its descriptor  *)
(* stood for when it was issued, if it stood for one.                      *)
(***************************************************************************)
PopReadsOwn ==
    \A t \in Tokens : tasks[t].there /\ tasks[t].op = "pop" /\ tasks[t].done /\ ~tasks[t].err =>
        tasks[t].conn \in {None, tasks[t].from}

(***************************************************************************)
(* While something is there for an operation, its coroutine is notified.   *)
(***************************************************************************)
NoLostWake ==
    \A t \in Tokens : tasks[t].there /\ ~tasks[t].done =>
        LET qd == tasks[t].qd IN
        /\ (tasks[t].op = "accept" /\ InState(qd, "Listening")
              /\ passive[sockets[qd].local].ready /= << >>) => t \in runnable
        /\ (tasks[t].op = "pop" /\ InState(qd, "Established")
              /\ established[KeyOf(qd)].unread > 0) => t \in runnable
        /\ (tasks[t].op = "pop" /\ InState(qd, "MigratedOut")) => t \in runnable
        /\ (tasks[t].op = "connect" /\ InState(qd, "Connecting")
              /\ connecting[KeyOf(qd)].there /\ connecting[KeyOf(qd)].result /= None) => t \in runnable

(***************************************************************************)
(* A closed descriptor no longer refers to a queue: close releases it.     *)
(***************************************************************************)
CloseReleases ==
    [][\A q \in Qds : sockets[q] /= NoSocket /\ sockets'[q] = NoSocket => q \notin files'.open]_vars

Waits(t, op) == tasks[t].there /\ ~tasks[t].done /\ tasks[t].op = op

(***************************************************************************)
(* A pop returns when its connection has data that nobody has read.        *)
(***************************************************************************)
PopReturns ==
    \A t \in Tokens : (Waits(t, "pop") /\ InState(tasks[t].qd, "Established")
                       /\ established[KeyOf(tasks[t].qd)].unread > 0)
        ~> (~Waits(t, "pop") \/ panicked)

(***************************************************************************)
(* An accept returns when a connection is in its listener's queue.         *)
(***************************************************************************)
AcceptReturns ==
    \A t \in Tokens : (Waits(t, "accept") /\ InState(tasks[t].qd, "Listening")
                       /\ passive[sockets[tasks[t].qd].local].ready /= << >>)
        ~> (~Waits(t, "accept") \/ panicked)
=============================================================================
