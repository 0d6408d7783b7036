--------------------------------- MODULE Udp ---------------------------------
(***************************************************************************)
(* UDP (src/rust/inetstack/protocols/udp): sockets, the shared queues of   *)
(* datagrams, pops, and the coroutine that sends what waits for ARP.       *)
(*                                                                         *)
(* A shared queue is a channel and a counter.  Its asynchronous pop holds  *)
(* the receiving end borrowed while it waits; that of the background       *)
(* sender is the only one.  Datagrams are numbered.                        *)
(***************************************************************************)
EXTENDS Naturals, Sequences, FiniteSets, SequencesExt

CONSTANTS
    Qds, Pops,      \* bound: queue descriptors, pop operations
    Queues,         \* bound: receive queues that exist at a time
    Ports,          \* local ports
    Private,        \* those that is_private holds for
    CorePort,       \* the port that CORE_ID adds to the pool, or None
    Ips,            \* remote addresses
    Capacity,       \* RECV_QUEUE_MAX_SIZE and SEND_QUEUE_MAX_SIZE
    MaxRecv, MaxSend,   \* bound: datagrams received, pushed
    BindsFirst,     \* the application pops and closes only bound sockets
    Patient,        \* the application polls before the send queue is full
    None, Unbound, Wild, Local, InPop, Fresh

Addrs == {Local, Wild} \X Ports

VARIABLES
    table,      \* queue descriptors of the file table
    sockets,    \* queue descriptor -> None, Unbound or local address
    bound,      \* local address -> receive queue or None
    queue,      \* receive queue -> datagrams
    length,     \* receive queue -> its counter
    pool,       \* free ephemeral ports
    pops,       \* pop operations
    sendq, sendlen, \* the send queue and its counter
    bg,         \* background sender: Fresh, InPop (waits, holds the borrow), or the datagram it resolves
    known,      \* addresses in the ARP cache
    sent, lost, \* ghosts: pushed datagrams on the wire, and dropped
    recvs, sends,   \* numbers given out
    panicked
vars == <<table, sockets, bound, queue, length, pool, pops, sendq, sendlen, bg, known, sent, lost, recvs, sends, panicked>>

socketVars == <<table, sockets, bound, queue, length, pool, pops, recvs>>
sendVars == <<sendq, sendlen, bg, sent, lost, sends>>

NoPop == [st |-> "idle", qd |-> None, addr |-> None, q |-> None, msg |-> None]

Init ==
    /\ table = {} /\ sockets = [d \in Qds |-> None]
    /\ bound = [a \in Addrs |-> None]
    /\ queue = [q \in Queues |-> <<>>] /\ length = [q \in Queues |-> 0]
    /\ pool = Private \cup ({CorePort} \ {None})
    /\ pops = [p \in Pops |-> NoPop]
    /\ sendq = <<>> /\ sendlen = 0 /\ bg = Fresh
    /\ known = {} /\ sent = {} /\ lost = {} /\ recvs = 0 /\ sends = 0
    /\ panicked = FALSE

-----------------------------------------------------------------------------
(***************************************************************************)
(* push on a full queue first takes out the oldest datagrams, until less   *)
(* than half of the capacity is used.                                      *)
(***************************************************************************)
Kept(s, len) == IF len = Capacity THEN SubSeq(s, Len(s) - (Capacity \div 2) + 2, Len(s)) ELSE s

MutEnqueue(s, len, m) == <<Append(s, m), len + 1>>
Enqueue(s, len, m) == <<Append(Kept(s, len), m), len - (Len(s) - Len(Kept(s, len))) + 1>>

(***************************************************************************)
(* Sockets.                                                                *)
(***************************************************************************)
DoSocket(d) ==
    /\ ~panicked /\ d \notin table /\ sockets[d] = None
    /\ table' = table \cup {d}
    /\ sockets' = [sockets EXCEPT ![d] = Unbound]
    /\ UNCHANGED <<bound, queue, length, pool, pops, recvs, known, panicked, sendVars>>

InUse == {bound[a] : a \in Addrs} \cup {pops[p].q : p \in {x \in Pops : pops[x].st = "pending"}}
Register(d, a, ports) ==
    IF sockets[d] = Unbound
    THEN /\ \E q \in Queues \ InUse :
                /\ bound' = [bound EXCEPT ![a] = q]
                /\ queue' = [queue EXCEPT ![q] = <<>>] /\ length' = [length EXCEPT ![q] = 0]
         /\ sockets' = [sockets EXCEPT ![d] = a]
         /\ pool' = ports \cup (IF bound[a] /= None THEN {a[2]} \cap Private ELSE {})
    ELSE /\ pool' = ports \cup ({a[2]} \cap Private)
         /\ UNCHANGED <<sockets, bound, queue, length>>

DoBind(d, a) ==
    /\ ~panicked /\ d \in table
    /\ bound[a] = None
    /\ a[2] \in Private => a[2] \in pool
    /\ Register(d, a, IF a[2] \in Private THEN pool \ {a[2]} ELSE pool)
    /\ UNCHANGED <<table, pops, recvs, known, panicked, sendVars>>

DoBindAny(d, ip) ==
    /\ ~panicked /\ d \in table
    /\ \E port \in pool : Register(d, <<ip, port>>, pool \ {port})
    /\ UNCHANGED <<table, pops, recvs, known, panicked, sendVars>>

(***************************************************************************)
(* A socket that is not bound is removed, and the descriptor stays.        *)
(***************************************************************************)

DoClose(d) ==
    /\ ~panicked /\ d \in table /\ sockets[d] /= None
    /\ BindsFirst => sockets[d] /= Unbound
    /\ sockets' = [sockets EXCEPT ![d] = None]
    /\ IF sockets[d] /= Unbound /\ bound[sockets[d]] /= None
       THEN bound' = [bound EXCEPT ![sockets[d]] = None] /\ table' = table \ {d}
       ELSE UNCHANGED <<bound, table>>
    /\ UNCHANGED <<queue, length, pool, pops, recvs, known, panicked, sendVars>>

DoPop(d, p) ==
    /\ ~panicked /\ d \in table /\ pops[p].st /= "pending"
    /\ BindsFirst => sockets[d] \notin {None, Unbound}
    /\ panicked' = (sockets[d] \in {None, Unbound})
    /\ pops' = IF panicked' THEN pops
               ELSE [pops EXCEPT ![p] = [NoPop EXCEPT !.st = "pending", !.qd = d, !.addr = sockets[d], !.q = bound[sockets[d]]]]
    /\ UNCHANGED <<table, sockets, bound, queue, length, pool, recvs, known, sendVars>>

PollPop(p) ==
    LET q == pops[p].q IN
    /\ ~panicked /\ pops[p].st = "pending" /\ queue[q] /= <<>>
    /\ pops' = [pops EXCEPT ![p].st = "done", ![p].msg = Head(queue[q])]
    /\ queue' = [queue EXCEPT ![q] = Tail(@)]
    /\ length' = [length EXCEPT ![q] = @ - 1]
    /\ UNCHANGED <<table, sockets, bound, pool, recvs, known, panicked, sendVars>>

(***************************************************************************)
(* do_receive: the queue of the address, or else that of the wildcard.     *)
(***************************************************************************)
Lookup(port) == IF bound[<<Local, port>>] /= None THEN bound[<<Local, port>>] ELSE bound[<<Wild, port>>]

DoReceive(port) ==
    LET q == Lookup(port)
        m == [n |-> recvs + 1, port |-> port, exact |-> bound[<<Local, port>>] /= None] IN
    /\ ~panicked /\ recvs < MaxRecv /\ q /= None
    /\ recvs' = recvs + 1
    /\ queue' = [queue EXCEPT ![q] = Enqueue(@, length[q], m)[1]]
    /\ length' = [length EXCEPT ![q] = Enqueue(queue[q], @, m)[2]]
    /\ UNCHANGED <<table, sockets, bound, pool, pops, known, panicked, sendVars>>

-----------------------------------------------------------------------------
(***************************************************************************)
(* do_pushto sends at once if the address is known, or else queues the     *)
(* datagram.  A full queue is popped, which needs the borrow.              *)
(***************************************************************************)
DoPushto(d, ip) ==
    LET m == [n |-> sends + 1, ip |-> ip]
        full == sendlen = Capacity IN
    /\ ~panicked /\ sends < MaxSend /\ sockets[d] \notin {None, Unbound}
    /\ Patient => ~(full /\ bg = InPop)
    /\ sends' = sends + 1
    /\ IF ip \in known
       THEN sent' = sent \cup {m.n} /\ UNCHANGED <<sendq, sendlen, lost, panicked>>
       ELSE /\ panicked' = (full /\ bg = InPop)
            /\ sendq' = IF panicked' THEN sendq ELSE Enqueue(sendq, sendlen, m)[1]
            /\ sendlen' = IF panicked' THEN sendlen ELSE Enqueue(sendq, sendlen, m)[2]
            /\ lost' = IF panicked' THEN lost
                       ELSE lost \cup ({x.n : x \in ToSet(sendq)} \ {x.n : x \in ToSet(sendq')})
            /\ UNCHANGED sent
    /\ UNCHANGED <<socketVars, known, bg>>

(***************************************************************************)
(* The background sender goes on until the queue is empty or an address is *)
(* not known.                                                              *)
(***************************************************************************)
Sendable == CHOOSE k \in 0 .. Len(sendq) :
    /\ \A i \in 1 .. k : sendq[i].ip \in known
    /\ k < Len(sendq) => sendq[k + 1].ip \notin known

GoOn(done, gone) ==
    LET k == Sendable
        more == k < Len(sendq) IN
    /\ sent' = sent \cup done \cup {sendq[i].n : i \in 1 .. k}
    /\ lost' = lost \cup gone
    /\ bg' = IF more THEN sendq[k + 1] ELSE InPop
    /\ sendq' = SubSeq(sendq, k + 2, Len(sendq))
    /\ sendlen' = sendlen - (Len(sendq) - Len(sendq'))
    /\ UNCHANGED <<socketVars, known, sends, panicked>>

BackgroundPop ==
    /\ ~panicked /\ (bg = Fresh \/ (bg = InPop /\ sendq /= <<>>))
    /\ GoOn({}, {})

Resolving == bg \notin {Fresh, InPop}

BackgroundAnswer ==
    /\ ~panicked /\ Resolving /\ bg.ip \in known
    /\ GoOn({bg.n}, {})

BackgroundFails ==
    /\ ~panicked /\ Resolving /\ bg.ip \notin known
    /\ GoOn({}, {bg.n})

Learn(ip) == ~panicked /\ ip \notin known /\ known' = known \cup {ip} /\ UNCHANGED <<socketVars, sendVars, panicked>>
Forget(ip) == ~panicked /\ ip \in known /\ known' = known \ {ip} /\ UNCHANGED <<socketVars, sendVars, panicked>>

Next ==
    \/ BackgroundPop \/ BackgroundAnswer \/ BackgroundFails
    \/ \E d \in Qds : DoSocket(d) \/ DoClose(d)
    \/ \E d \in Qds, a \in Addrs : DoBind(d, a)
    \/ \E d \in Qds, ip \in {Local, Wild} : DoBindAny(d, ip)
    \/ \E d \in Qds, p \in Pops : DoPop(d, p)
    \/ \E d \in Qds, ip \in Ips : DoPushto(d, ip)
    \/ \E p \in Pops : PollPop(p)
    \/ \E port \in Ports : DoReceive(port)
    \/ \E ip \in Ips : Learn(ip) \/ Forget(ip)

Spec == Init /\ [][Next]_vars

(***************************************************************************)
(* Coroutines that are ready are polled; a query of ARP ends.              *)
(***************************************************************************)
Fairness ==
    /\ WF_vars(BackgroundPop) /\ WF_vars(BackgroundAnswer \/ BackgroundFails)
    /\ \A p \in Pops : WF_vars(PollPop(p))
LiveSpec == Spec /\ Fairness

-----------------------------------------------------------------------------
(***************************************************************************)
(* The counter of a queue, which push trusts, is what is in the channel.   *)
(***************************************************************************)
LengthMatches ==
    /\ \A q \in Queues : length[q] = Len(queue[q]) /\ length[q] <= Capacity
    /\ sendlen = Len(sendq) /\ sendlen <= Capacity

(***************************************************************************)
(* A pop gets a datagram of its own address, and the wildcard gets one     *)
(* only if nobody had the address itself.                                  *)
(***************************************************************************)
PopsOwn == \A p \in Pops : pops[p].st = "done" =>
    /\ pops[p].msg.port = pops[p].addr[2]
    /\ pops[p].msg.exact <=> pops[p].addr[1] = Local

(***************************************************************************)
(* What a queue has is newer than all that was popped from it: datagrams   *)
(* come in order and once, and overflow drops the oldest.                  *)
(***************************************************************************)
InOrder == \A q \in Queues :
    /\ \A i, j \in 1 .. Len(queue[q]) : i < j => queue[q][i].n < queue[q][j].n
    /\ queue[q] /= <<>> => \A p \in Pops : pops[p].st = "done" /\ pops[p].q = q => pops[p].msg.n < queue[q][1].n

(***************************************************************************)
(* No two sockets have one address.                                        *)
(***************************************************************************)
OneSocketPerAddress == \A c, d \in Qds :
    c /= d /\ sockets[c] \notin {None, Unbound} => sockets[c] /= sockets[d]

(***************************************************************************)
(* A bound socket has its receive queue, a closed one has none, and the    *)
(* port of neither is in the pool.                                         *)
(***************************************************************************)
BoundMatches ==
    /\ \A a \in Addrs : bound[a] /= None <=> \E d \in Qds : sockets[d] = a
    /\ \A a \in Addrs : bound[a] /= None => a[2] \notin pool

(***************************************************************************)
(* Each datagram that was pushed is on the wire, dropped, in the queue or  *)
(* being resolved: one of them, and once.                                  *)
(***************************************************************************)
Waiting == {sendq[i].n : i \in 1 .. Len(sendq)} \cup (IF Resolving THEN {bg.n} ELSE {})
Accounted == ~panicked =>
    /\ 1 .. sends = sent \cup lost \cup Waiting
    /\ Cardinality(sent) + Cardinality(lost) + Cardinality(Waiting) = sends

(***************************************************************************)
(* No call ends the process.                                               *)
(***************************************************************************)
NeverPanics == ~panicked

(***************************************************************************)
(* A descriptor of the table has a socket: what close refuses it keeps.    *)
(***************************************************************************)
TableMatches == table = {d \in Qds : sockets[d] /= None}

(***************************************************************************)
(* A datagram that waits is sent or dropped.                               *)
(***************************************************************************)
WaitingEnds == \A n \in 1 .. MaxSend : n \in Waiting ~> n \notin Waiting

(***************************************************************************)
(* A pop that is pending when its socket is closed ends.                   *)
(***************************************************************************)
PopOfClosedEnds == \A p \in Pops :
    (pops[p].st = "pending" /\ sockets[pops[p].qd] = None) ~> pops[p].st /= "pending"
=============================================================================
