------------------------------- MODULE TcpMig -------------------------------
(***************************************************************************)
(* Live migration of established TCP connections between servers.          *)
(*                                                                         *)
(* A server is one libOS process: its TcpPeer (tables `sockets', `qds',    *)
(* `established', the accept queue of its listening socket), its           *)
(* TcpMigPeer (table `active_migrations') and the application on top.  A   *)
(* connection is named by its client, the remote address under which both  *)
(* tables of the code look it up.  All packets go through the switch,      *)
(* which knows the owner of every connection: it sends the segments of a   *)
(* client to the owner, and takes the sender of a PREPARE_MIG_ACK as the   *)
(* new owner.                                                              *)
(*                                                                         *)
(*   origin            switch              target                          *)
(*     | PREPARE_MIG     | picks the target   |                            *)
(*     |---------------->|------------------->| starts to buffer segments  *)
(*     | PREPARE_MIG_ACK | owner := target    |                            *)
(*     |<----------------|<-------------------|                            *)
(*     | CONN_STATE (the control block)       |                            *)
(*     |------------------------------------->| accept queue               *)
(*     | CONN_STATE_ACK                       |                            *)
(*     |<-------------------------------------| accept: replay the buffer  *)
(*                                                                         *)
(* Segments are numbered 1, 2, ... and stand for the bytes they carry.     *)
(***************************************************************************)
EXTENDS Naturals, Sequences

CONSTANTS
    Server,   \* the backend processes
    Client,   \* the remote ends, one connection each
    Qd,       \* queue descriptors of accepted connections (bounds the table)
    P0, P1,   \* the servers on UDP ports 10000 and 10001
    None,     \* Option::None and vacant table entries
    MaxSeg,   \* bound: segments a client sends
    Budget,   \* bound: how often the environment takes each optional step
    Fifo      \* does a link keep the order of its packets?

BudgetKind == {"init", "close", "lose", "retx", "app"}

ASSUME ConstantAssumption ==
    /\ P0 \in Server /\ P1 \in Server
    /\ MaxSeg \in Nat
    /\ Budget \in [BudgetKind -> Nat]
    /\ Fifo \in BOOLEAN
    /\ None \notin Server \cup Qd

VARIABLES
    owner,        \* switch: the owner registers
    net,          \* packets in flight, a queue per link
    ready,        \* PassiveSocket: control blocks waiting for accept
    established,  \* TcpPeer: control blocks of accepted connections
    sockets,      \* TcpPeer: state of each queue descriptor
    qds,          \* TcpPeer: queue descriptor of each connection
    files,        \* InetStack: allocated queue descriptors
    active,       \* TcpMigPeer: active migrations
    appState,     \* TcpMigPeer: application state
    pops,         \* the pop coroutine of each queue descriptor
    panicked,     \* why a server has panicked, "no" while it runs
    sent,         \* client: last segment sent
    acked,        \* client: last segment acknowledged to it
    delivered,    \* segments the applications have read, in order
    used          \* steps taken from the budget

tcpVars  == <<ready, established, sockets, qds, files>>
migVars  == <<active, appState>>
userVars == <<pops, delivered>>
peerVars == <<sent, acked>>
vars == <<owner, net, tcpVars, migVars, userVars, panicked, peerVars, used>>

-----------------------------------------------------------------------------
(* Data. *)

Link == {"up", "down"} \X Server
Up(s) == <<"up", s>>        \* from s to the switch
Down(s) == <<"down", s>>    \* from the switch to s

(* What migration carries of a ControlBlock's receive side: receive_next,  *)
(* the unread recv_queue and the out-of-order store.                       *)
ControlBlock == [next : Nat, queue : Seq(Nat), outOfOrder : SUBSET (1 .. MaxSeg)]

NewControlBlock == [next |-> 0, queue |-> <<>>, outOfOrder |-> {}]

Stage == {"PREPARE_MIG", "PREPARE_MIG_ACK", "CONN_STATE", "CONN_STATE_ACK"}

ActiveMigration == [stage : Stage, qd : Qd \cup {None}, dest : Server, buffer : Seq(1 .. MaxSeg)]

Socket == [state : {"Established", "MigratedOut"}, conn : Client]

Packet ==
    [type : {"PREPARE_MIG"}, client : Client, src : Server]
    \cup [type : {"PREPARE_MIG_ACK", "CONN_STATE_ACK"}, client : Client, src : Server, dst : Server]
    \cup [type : {"CONN_STATE"}, client : Client, src : Server, dst : Server,
          cb : ControlBlock, app : BOOLEAN]
    \cup [type : {"SEGMENT"}, client : Client, seq : 1 .. MaxSeg]

ASSUME NoneAssumption ==
    None \notin ControlBlock /\ None \notin ActiveMigration /\ None \notin Socket

PanicReason == {"duplicate initiate migration", "no such active migration",
                "no QD found for connection", "invalid QD for migrating out",
                "no migration for state", "already in accept queue",
                "duplicate entry in qds table"}

TypeOK ==
    /\ owner \in [Client -> Server]
    /\ net \in [Link -> Seq(Packet)]
    /\ ready \in [Server -> [Client -> ControlBlock \cup {None}]]
    /\ established \in [Server -> [Client -> ControlBlock \cup {None}]]
    /\ sockets \in [Server -> [Qd -> Socket \cup {None}]]
    /\ qds \in [Server -> [Client -> Qd \cup {None}]]
    /\ files \in [Server -> SUBSET Qd]
    /\ active \in [Server -> [Client -> ActiveMigration \cup {None}]]
    /\ appState \in [Server -> [Client -> {"None", "Registered", "MigratedIn"}]]
    /\ pops \in [Server -> [Qd -> {"idle", "notified", "waiting"}]]
    /\ panicked \in [Server -> PanicReason \cup {"no"}]
    /\ sent \in [Client -> 0 .. MaxSeg]
    /\ acked \in [Client -> Nat]
    /\ delivered \in [Client -> Seq(Nat)]
    /\ used \in [BudgetKind -> Nat]

(* Handshakes are over: every control block is new and waits for accept    *)
(* at the server the switch chose for the SYN.                             *)
Init ==
    /\ owner \in [Client -> Server]
    /\ net = [l \in Link |-> <<>>]
    /\ ready = [s \in Server |-> [c \in Client |-> IF owner[c] = s THEN NewControlBlock ELSE None]]
    /\ established = [s \in Server |-> [c \in Client |-> None]]
    /\ sockets = [s \in Server |-> [q \in Qd |-> None]]
    /\ qds = [s \in Server |-> [c \in Client |-> None]]
    /\ files = [s \in Server |-> {}]
    /\ active = [s \in Server |-> [c \in Client |-> None]]
    /\ appState = [s \in Server |-> [c \in Client |-> "None"]]
    /\ pops = [s \in Server |-> [q \in Qd |-> "idle"]]
    /\ panicked = [s \in Server |-> "no"]
    /\ sent = [c \in Client |-> 0]
    /\ acked = [c \in Client |-> 0]
    /\ delivered = [c \in Client |-> <<>>]
    /\ used = [k \in BudgetKind |-> 0]

-----------------------------------------------------------------------------
(* Helpers. *)

Spend(k) ==
    /\ used[k] < Budget[k]
    /\ used' = [used EXCEPT ![k] = @ + 1]

(* The positions of a link that may be received next. *)
Arrivals(l) == {i \in 1 .. Len(net[l]) : Fifo => i = 1}

Without(q, i) == [j \in 1 .. Len(q) - 1 |-> IF j < i THEN q[j] ELSE q[j + 1]]

(* s takes the packet at position i of its link and sends nothing. *)
Take(s, i) == net' = [net EXCEPT ![Down(s)] = Without(@, i)]

(* s takes the packet at position i and sends m. *)
TakeAndSend(s, i, m) ==
    net' = [net EXCEPT ![Down(s)] = Without(@, i), ![Up(s)] = Append(@, m)]

(* A packet of this type is at position i of the link to the running s. *)
IsNext(s, i, type) ==
    /\ panicked[s] = "no"
    /\ i \in Arrivals(Down(s))
    /\ net[Down(s)][i].type = type

(* A panic ends the process: s takes no further step, and its tables stay  *)
(* as they were when it received the packet.                               *)
Panic(s, why) == panicked' = [panicked EXCEPT ![s] = why]

AssertOrPanic(s, condition, why) == IF condition THEN UNCHANGED panicked ELSE Panic(s, why)

IsEstablished(s, q) == sockets[s][q] # None /\ sockets[s][q].state = "Established"

(* ControlBlock::receive on whole segments: what is in order, up to the    *)
(* first gap, goes to the receive queue, the rest is stored.  There is one *)
(* first gap, so this is a set of one control block.                       *)
Receive(cb, segs) ==
    LET all == {n \in cb.outOfOrder \cup segs : n > cb.next}
        inOrder == {k \in 0 .. MaxSeg : (cb.next + 1) .. (cb.next + k) \subseteq all /\ cb.next + k + 1 \notin all}
    IN  {[next |-> cb.next + k,
          queue |-> cb.queue \o [j \in 1 .. k |-> cb.next + j],
          outOfOrder |-> all \ 1 .. (cb.next + k)] : k \in inOrder}

(* The client may or may not learn the acknowledgement number of cb now. *)
MayAcknowledge(c, cb) ==
    \/ acked' = acked
    \/ acked' = [acked EXCEPT ![c] = IF @ < cb.next THEN cb.next ELSE @]

(* The waker stored in a control block is taken and woken. *)
Wake(s, q) == pops' = [pops EXCEPT ![s][q] = IF @ = "waiting" THEN "notified" ELSE @]

(* The UDP port a migration is first addressed to. *)
DefaultDest(s) == IF s = P1 THEN P0 ELSE P1

-----------------------------------------------------------------------------
(* Client and switch. *)

ToOwner(c, n) ==
    net' = [net EXCEPT ![Down(owner[c])] =
                Append(@, [type |-> "SEGMENT", client |-> c, seq |-> n])]

(* A client sends its next segment; the switch reads the owner register. *)
ClientSend(c) ==
    /\ sent[c] < MaxSeg
    /\ sent' = [sent EXCEPT ![c] = @ + 1]
    /\ ToOwner(c, sent[c] + 1)
    /\ UNCHANGED <<owner, tcpVars, migVars, userVars, panicked, acked, used>>

(* A client sends an unacknowledged segment once more. *)
ClientRetransmit(c) ==
    /\ Spend("retx")
    /\ \E n \in (acked[c] + 1) .. sent[c] : ToOwner(c, n)
    /\ UNCHANGED <<owner, tcpVars, migVars, userVars, panicked, peerVars>>

(* Mutants: the owner moves with PREPARE_MIG, or not before CONN_STATE. *)
MutOwnerEarly(m, t) == IF m.type = "PREPARE_MIG" THEN [owner EXCEPT ![m.client] = t] ELSE owner
MutOwnerLate(m, t) == IF m.type = "CONN_STATE" THEN [owner EXCEPT ![m.client] = t] ELSE owner

(* The owner registers after m has been forwarded to t. *)
OwnerAfter(m, t) ==
    IF m.type = "PREPARE_MIG_ACK" THEN [owner EXCEPT ![m.client] = m.src] ELSE owner

(* The switch forwards a TCPMig packet.  It chooses the server with the    *)
(* lowest load for a PREPARE_MIG, which may be the origin itself, and      *)
(* writes the owner registers on a PREPARE_MIG_ACK.                        *)
SwitchForward(s) ==
    \E i \in Arrivals(Up(s)) :
        LET m == net[Up(s)][i] IN
        \E t \in IF m.type = "PREPARE_MIG" THEN Server ELSE {m.dst} :
            /\ net' = [net EXCEPT ![Up(s)] = Without(@, i), ![Down(t)] = Append(@, m)]
            /\ owner' = OwnerAfter(m, t)
            /\ UNCHANGED <<tcpVars, migVars, userVars, panicked, peerVars, used>>

(* The network loses a packet. *)
Lose(l) ==
    /\ Spend("lose")
    /\ \E i \in 1 .. Len(net[l]) : net' = [net EXCEPT ![l] = Without(@, i)]
    /\ UNCHANGED <<owner, tcpVars, migVars, userVars, panicked, peerVars>>

-----------------------------------------------------------------------------
(* Migration: TcpPeer, TcpMigPeer and ActiveMigration of server s. *)

OriginMigration(s, q) == [stage |-> "PREPARE_MIG", qd |-> q, dest |-> DefaultDest(s), buffer |-> <<>>]

TargetMigration(o) == [stage |-> "PREPARE_MIG_ACK", qd |-> None, dest |-> o, buffer |-> <<>>]

PrepareMig(s, c) == [type |-> "PREPARE_MIG", client |-> c, src |-> s]

PrepareMigAck(s, c, o) == [type |-> "PREPARE_MIG_ACK", client |-> c, src |-> s, dst |-> o]

(* TcpMigPeer::initiate_migration of a connection that is not migrating. *)
Initiate(s, c, q) ==
    /\ active' = [active EXCEPT ![s][c] = OriginMigration(s, q)]
    /\ net' = [net EXCEPT ![Up(s)] = Append(@, PrepareMig(s, c))]

(* The application asks to migrate the connection of descriptor q. *)
InitiateMigration(s, q) ==
    /\ panicked[s] = "no"
    /\ IsEstablished(s, q)
    /\ Spend("init")
    /\ LET c == sockets[s][q].conn IN
       \/ /\ active[s][c] = None
          /\ Initiate(s, c, q)
          /\ UNCHANGED panicked
       \/ /\ active[s][c] # None
          /\ Panic(s, "duplicate initiate migration")
          /\ UNCHANGED <<active, net>>
    /\ UNCHANGED <<owner, tcpVars, appState, userVars, peerVars>>

(* The load policy picks a connection whose request rate it counts: one    *)
(* that was accepted, closed by its application or not, and is not         *)
(* migrating (initiate_migration_by_addr disables its statistics).         *)
InitiateMigrationByAddr(s, c) ==
    /\ panicked[s] = "no"
    /\ qds[s][c] # None
    /\ established[s][c] # None
    /\ active[s][c] = None
    /\ Spend("init")
    /\ Initiate(s, c, qds[s][c])
    /\ UNCHANGED <<owner, tcpVars, appState, userVars, panicked, peerVars>>

(* PREPARE_MIG where no migration of the connection is active: s becomes   *)
(* the target.                                                             *)
ReceivePrepareMig(s) ==
    \E i \in 1 .. Len(net[Down(s)]) :
        LET m == net[Down(s)][i] IN
        /\ IsNext(s, i, "PREPARE_MIG")
        /\ active[s][m.client] = None
        /\ active' = [active EXCEPT ![s][m.client] = TargetMigration(m.src)]
        /\ TakeAndSend(s, i, PrepareMigAck(s, m.client, m.src))
        /\ UNCHANGED <<owner, tcpVars, appState, userVars, panicked, peerVars, used>>

(* PREPARE_MIG where a migration of the connection is active, taken as     *)
(* returned by the switch: it is dropped and a new one initiated for the   *)
(* connection at the origin's address, which only the origin has.          *)
ReceiveReturned(s) ==
    \E i \in 1 .. Len(net[Down(s)]) :
        LET m == net[Down(s)][i]
            c == m.client
            hasConn == m.src = s /\ qds[s][c] # None /\ established[s][c] # None
        IN
        /\ IsNext(s, i, "PREPARE_MIG")
        /\ active[s][c] # None
        /\ \/ /\ hasConn
              /\ active' = [active EXCEPT ![s][c] = OriginMigration(s, qds[s][c])]
              /\ TakeAndSend(s, i, PrepareMig(s, c))
              /\ UNCHANGED panicked
           \/ /\ ~hasConn
              /\ Panic(s, "no QD found for connection")
              /\ Take(s, i)
              /\ UNCHANGED active
        /\ UNCHANGED <<owner, tcpVars, appState, userVars, peerVars, used>>

(* Mutants: the receive queue is left behind; receive_next is taken from   *)
(* where the application reads.                                            *)
MutStateLosesQueue(cb) == [cb EXCEPT !.queue = <<>>]
MutStateFromReader(cb) == [cb EXCEPT !.queue = <<>>, !.next = @ - Len(cb.queue)]

(* The control block as the target rebuilds it from CONN_STATE. *)
ControlBlockState(cb) == [next |-> cb.next, queue |-> cb.queue, outOfOrder |-> cb.outOfOrder]

(* Mutants: the connection is copied, its descriptor kept, its pop not     *)
(* woken.                                                                  *)
MutMigrateOutCopies(s, q, c) ==
    /\ sockets' = [sockets EXCEPT ![s][q].state = "MigratedOut"]
    /\ Wake(s, q)
    /\ UNCHANGED <<qds, established>>
MutMigrateOutKeepsQd(s, q, c) ==
    /\ sockets' = [sockets EXCEPT ![s][q].state = "MigratedOut"]
    /\ established' = [established EXCEPT ![s][c] = None]
    /\ Wake(s, q)
    /\ UNCHANGED qds
MutMigrateOutNoWake(s, q, c) ==
    /\ sockets' = [sockets EXCEPT ![s][q].state = "MigratedOut"]
    /\ qds' = [qds EXCEPT ![s][c] = None]
    /\ established' = [established EXCEPT ![s][c] = None]
    /\ UNCHANGED pops

(* migrate_out_connection takes the connection c of descriptor q out of    *)
(* the tables and wakes its pop coroutine.                                 *)
MigrateOut(s, q, c) ==
    /\ sockets' = [sockets EXCEPT ![s][q].state = "MigratedOut"]
    /\ qds' = [qds EXCEPT ![s][c] = None]
    /\ established' = [established EXCEPT ![s][c] = None]
    /\ Wake(s, q)

(* Mutant: the destination stays the default one. *)
MutAcknowledged(s, m) == active

(* The migrations of s after it learnt their destination from m. *)
Acknowledged(s, m) == [active EXCEPT ![s][m.client].dest = m.src]

(* Mutant: the application state stays in the table. *)
MutAppStateAfter(s, c) == appState

(* The application state after send_tcp_state has taken that of c along. *)
AppStateAfter(s, c) == [appState EXCEPT ![s][c] = "None"]

(* PREPARE_MIG_ACK at the origin.  The connection found under the          *)
(* descriptor stored when the migration began migrates out, and its        *)
(* control block is sent, with the application state registered for it, to *)
(* the destination of its own migration.                                   *)
ReceivePrepareMigAck(s) ==
    \E i \in 1 .. Len(net[Down(s)]) :
        LET m == net[Down(s)][i]
            mig == active[s][m.client]
            q == mig.qd
            c == sockets[s][q].conn
            migrating == active[s][c] # None /\ active[s][c].stage = "PREPARE_MIG"
            acknowledged == Acknowledged(s, m)
        IN
        /\ IsNext(s, i, "PREPARE_MIG_ACK")
        /\ mig # None
        /\ mig.stage = "PREPARE_MIG"
        /\ \/ /\ ~IsEstablished(s, q)
              /\ Panic(s, "invalid QD for migrating out")
              /\ Take(s, i)
              /\ UNCHANGED <<sockets, qds, established, active, appState, pops>>
           \/ /\ IsEstablished(s, q)
              /\ ~migrating
              /\ Panic(s, "no migration for state")
              /\ Take(s, i)
              /\ UNCHANGED <<sockets, qds, established, active, appState, pops>>
           \/ /\ IsEstablished(s, q)
              /\ migrating
              /\ MigrateOut(s, q, c)
              /\ appState' = AppStateAfter(s, c)
              /\ active' = [acknowledged EXCEPT ![s][c].stage = "CONN_STATE"]
              /\ TakeAndSend(s, i, [type |-> "CONN_STATE", client |-> c, src |-> s,
                                    dst |-> acknowledged[s][c].dest,
                                    cb |-> ControlBlockState(established[s][c]),
                                    app |-> appState[s][c] = "Registered"])
              /\ UNCHANGED panicked
        /\ UNCHANGED <<owner, ready, files, delivered, peerVars, used>>

(* Mutant: nobody listens, the control block is dropped. *)
MutMigrateIn(s, c, cb) == UNCHANGED ready

(* migrate_in_connection queues the control block for accept. *)
MigrateIn(s, c, cb) == ready' = [ready EXCEPT ![s][c] = cb]

(* CONN_STATE at the target: acknowledge it and queue the control block    *)
(* for accept.  The migration stays active, so segments are still buffered.*)
ReceiveConnState(s) ==
    \E i \in 1 .. Len(net[Down(s)]) :
        LET m == net[Down(s)][i]
            c == m.client
        IN
        /\ IsNext(s, i, "CONN_STATE")
        /\ active[s][c] # None
        /\ active[s][c].stage = "PREPARE_MIG_ACK"
        /\ MigrateIn(s, c, m.cb)
        /\ active' = [active EXCEPT ![s][c].stage = "CONN_STATE_ACK"]
        /\ appState' = [appState EXCEPT ![s][c] = IF m.app THEN "MigratedIn" ELSE @]
        /\ TakeAndSend(s, i, [type |-> "CONN_STATE_ACK", client |-> c, src |-> s, dst |-> m.src])
        /\ AssertOrPanic(s, ready[s][c] = None, "already in accept queue")
        /\ UNCHANGED <<owner, established, sockets, qds, files, userVars, peerVars, used>>

(* The entry of the completed migration is removed, with its buffer. *)
Complete(s, c) == active' = [active EXCEPT ![s][c] = None]

(* CONN_STATE_ACK at the origin: the migration is complete. *)
ReceiveConnStateAck(s) ==
    \E i \in 1 .. Len(net[Down(s)]) :
        LET c == net[Down(s)][i].client IN
        /\ IsNext(s, i, "CONN_STATE_ACK")
        /\ active[s][c] # None
        /\ active[s][c].stage = "CONN_STATE"
        /\ Complete(s, c)
        /\ Take(s, i)
        /\ UNCHANGED <<owner, tcpVars, appState, userVars, panicked, peerVars, used>>

(* What each stage expects; anything else is refused with EBADMSG, or      *)
(* ignored after CONN_STATE_ACK.                                           *)
Expected == [PREPARE_MIG |-> "PREPARE_MIG_ACK", PREPARE_MIG_ACK |-> "CONN_STATE",
             CONN_STATE |-> "CONN_STATE_ACK", CONN_STATE_ACK |-> "nothing"]

ReceiveUnexpected(s) ==
    \E i \in 1 .. Len(net[Down(s)]) :
        LET m == net[Down(s)][i] IN
        /\ m.type \in {"PREPARE_MIG_ACK", "CONN_STATE", "CONN_STATE_ACK"}
        /\ IsNext(s, i, m.type)
        /\ active[s][m.client] # None
        /\ m.type # Expected[active[s][m.client].stage]
        /\ Take(s, i)
        /\ UNCHANGED <<owner, tcpVars, migVars, userVars, panicked, peerVars, used>>

(* A later packet of a migration that is not active. *)
ReceiveUnknown(s) ==
    \E i \in 1 .. Len(net[Down(s)]) :
        LET m == net[Down(s)][i] IN
        /\ m.type \in {"PREPARE_MIG_ACK", "CONN_STATE", "CONN_STATE_ACK"}
        /\ IsNext(s, i, m.type)
        /\ active[s][m.client] = None
        /\ Panic(s, "no such active migration")
        /\ Take(s, i)
        /\ UNCHANGED <<owner, tcpVars, migVars, userVars, peerVars, used>>

-----------------------------------------------------------------------------
(* Segments, accept, and the application. *)

(* A segment of an established connection wakes the pop coroutine when it  *)
(* makes data readable.                                                    *)
ReceiveSegment(s) ==
    \E i \in 1 .. Len(net[Down(s)]) :
        LET m == net[Down(s)][i]
            c == m.client
            q == qds[s][c]
            reaches == q # None /\ IsEstablished(s, q) /\ sockets[s][q].conn = c
        IN
        /\ IsNext(s, i, "SEGMENT")
        /\ established[s][c] # None
        /\ \E cb \in Receive(established[s][c], {m.seq}) :
              /\ established' = [established EXCEPT ![s][c] = cb]
              /\ IF reaches /\ cb.next # established[s][c].next THEN Wake(s, q) ELSE UNCHANGED pops
              /\ MayAcknowledge(c, cb)
        /\ Take(s, i)
        /\ UNCHANGED <<owner, ready, sockets, qds, files, migVars, delivered, panicked, sent, used>>

(* A segment of a connection in migration is buffered, at the origin too. *)
BufferSegment(s) ==
    \E i \in 1 .. Len(net[Down(s)]) :
        LET m == net[Down(s)][i]
            c == m.client
        IN
        /\ IsNext(s, i, "SEGMENT")
        /\ established[s][c] = None
        /\ active[s][c] # None
        /\ active' = [active EXCEPT ![s][c].buffer = Append(@, m.seq)]
        /\ Take(s, i)
        /\ UNCHANGED <<owner, tcpVars, appState, userVars, panicked, peerVars, used>>

(* The listening socket drops the segment of a connection that waits for   *)
(* accept, and of one it does not know.                                    *)
DropSegment(s) ==
    \E i \in 1 .. Len(net[Down(s)]) :
        LET c == net[Down(s)][i].client IN
        /\ IsNext(s, i, "SEGMENT")
        /\ established[s][c] = None
        /\ active[s][c] = None
        /\ Take(s, i)
        /\ UNCHANGED <<owner, tcpVars, migVars, userVars, panicked, peerVars, used>>

Buffered(s, c) ==
    IF active[s][c] = None THEN {}
    ELSE {active[s][c].buffer[i] : i \in 1 .. Len(active[s][c].buffer)}

(* accept returns a control block under a fresh descriptor, after closing  *)
(* its active migration and replaying the buffered segments.               *)
Accept(s, c, q) ==
    /\ panicked[s] = "no"
    /\ ready[s][c] # None
    /\ q \notin files[s]
    /\ \E cb \in Receive(ready[s][c], Buffered(s, c)) :
          /\ established' = [established EXCEPT ![s][c] = cb]
          /\ MayAcknowledge(c, cb)
    /\ ready' = [ready EXCEPT ![s][c] = None]
    /\ active' = [active EXCEPT ![s][c] = None]
    /\ sockets' = [sockets EXCEPT ![s][q] = [state |-> "Established", conn |-> c]]
    /\ qds' = [qds EXCEPT ![s][c] = q]
    /\ files' = [files EXCEPT ![s] = @ \cup {q}]
    /\ AssertOrPanic(s, qds[s][c] = None, "duplicate entry in qds table")
    /\ UNCHANGED <<owner, net, appState, userVars, sent, used>>

(* The application issues a pop. *)
Pop(s, q) ==
    /\ panicked[s] = "no"
    /\ sockets[s][q] # None
    /\ pops[s][q] = "idle"
    /\ pops' = [pops EXCEPT ![s][q] = "notified"]
    /\ UNCHANGED <<owner, net, tcpVars, migVars, delivered, panicked, peerVars, used>>

(* The scheduler polls a notified pop coroutine: it fails with ETCPMIG on  *)
(* a connection that has migrated out, completes with the next unread      *)
(* segment, or stores its waker.                                           *)
PollPop(s, q) ==
    /\ panicked[s] = "no"
    /\ pops[s][q] = "notified"
    /\ LET c == sockets[s][q].conn
           cb == established[s][c]
       IN
       \/ /\ sockets[s][q].state = "MigratedOut"
          /\ pops' = [pops EXCEPT ![s][q] = "idle"]
          /\ UNCHANGED <<established, delivered>>
       \/ /\ IsEstablished(s, q)
          /\ cb.queue # <<>>
          /\ pops' = [pops EXCEPT ![s][q] = "idle"]
          /\ established' = [established EXCEPT ![s][c].queue = Tail(@)]
          /\ delivered' = [delivered EXCEPT ![c] = Append(@, Head(cb.queue))]
       \/ /\ IsEstablished(s, q)
          /\ cb.queue = <<>>
          /\ pops' = [pops EXCEPT ![s][q] = "waiting"]
          /\ UNCHANGED <<established, delivered>>
    /\ UNCHANGED <<owner, net, ready, sockets, qds, files, migVars, panicked, peerVars, used>>

(* close: the entry of the descriptor goes away, and the descriptor itself *)
(* when the connection was established; the connection's other tables keep *)
(* it.  The application has no pop outstanding.                            *)
Close(s, q) ==
    /\ panicked[s] = "no"
    /\ sockets[s][q] # None
    /\ pops[s][q] = "idle"
    /\ Spend("close")
    /\ sockets' = [sockets EXCEPT ![s][q] = None]
    /\ files' = IF IsEstablished(s, q) THEN [files EXCEPT ![s] = @ \ {q}] ELSE files
    /\ UNCHANGED <<owner, net, ready, established, qds, migVars, userVars, panicked, peerVars>>

(* register_application_state *)
RegisterApplicationState(s, q) ==
    /\ panicked[s] = "no"
    /\ IsEstablished(s, q)
    /\ Spend("app")
    /\ appState' = [appState EXCEPT ![s][sockets[s][q].conn] = "Registered"]
    /\ UNCHANGED <<owner, net, tcpVars, active, userVars, panicked, peerVars>>

(* get_migrated_application_state: what has migrated in becomes            *)
(* registered; anything else is removed.                                   *)
GetMigratedApplicationState(s, q) ==
    /\ panicked[s] = "no"
    /\ IsEstablished(s, q)
    /\ Spend("app")
    /\ appState' = [appState EXCEPT ![s][sockets[s][q].conn] =
                        IF @ = "MigratedIn" THEN "Registered" ELSE "None"]
    /\ UNCHANGED <<owner, net, tcpVars, active, userVars, panicked, peerVars>>

-----------------------------------------------------------------------------

Migrate(s) ==
    \/ ReceivePrepareMig(s)
    \/ ReceiveReturned(s)
    \/ ReceivePrepareMigAck(s)
    \/ ReceiveConnState(s)
    \/ ReceiveConnStateAck(s)
    \/ ReceiveUnexpected(s)
    \/ ReceiveUnknown(s)

Data(s) == ReceiveSegment(s) \/ BufferSegment(s) \/ DropSegment(s)

User(s) ==
    \E q \in Qd :
        \/ InitiateMigration(s, q)
        \/ Pop(s, q)
        \/ PollPop(s, q)
        \/ Close(s, q)
        \/ RegisterApplicationState(s, q)
        \/ GetMigratedApplicationState(s, q)
        \/ \E c \in Client : Accept(s, c, q)

Policy(s) == \E c \in Client : InitiateMigrationByAddr(s, c)

Next ==
    \/ \E c \in Client : ClientSend(c) \/ ClientRetransmit(c)
    \/ \E s \in Server : SwitchForward(s) \/ Migrate(s) \/ Data(s) \/ User(s) \/ Policy(s)
    \/ \E l \in Link : Lose(l)

Spec == Init /\ [][Next]_vars

-----------------------------------------------------------------------------
(* Safety. *)

Held(s, c) == ready[s][c] # None \/ established[s][c] # None

IsStateOf(m, c) == m.type = "CONN_STATE" /\ m.client = c

StateInFlight(n, c) == \E l \in Link : \E i \in 1 .. Len(n[l]) : IsStateOf(n[l][i], c)

UniqueState(n, c) ==
    \A k, l \in Link : \A i \in 1 .. Len(n[k]), j \in 1 .. Len(n[l]) :
        IsStateOf(n[k][i], c) /\ IsStateOf(n[l][j], c) => k = l /\ i = j

(* The control block of a connection exists at most once: in the accept    *)
(* queue of one server, in the established table of one server, or in one  *)
(* CONN_STATE in flight (migrate_out_connection takes it out of the tables *)
(* before send_tcp_state, migrate_in_connection puts it into one queue).   *)
SingleOwner ==
    \A c \in Client :
        /\ \A s, t \in Server : Held(s, c) /\ Held(t, c) => s = t
        /\ \A s \in Server : ready[s][c] = None \/ established[s][c] = None
        /\ UniqueState(net, c)
        /\ StateInFlight(net, c) => \A s \in Server : ~Held(s, c)

(* The control blocks of c, wherever they are. *)
ControlBlocks(c) ==
    {ready[s][c] : s \in {s \in Server : ready[s][c] # None}}
    \cup {established[s][c] : s \in {s \in Server : established[s][c] # None}}
    \cup UNION {{net[l][i].cb : i \in {i \in 1 .. Len(net[l]) : IsStateOf(net[l][i], c)}} : l \in Link}

(* The applications read the segments of a client in order, each once,     *)
(* whichever servers they read them at; and a control block continues      *)
(* where they stopped (reader_next, receive_next and recv_queue migrate    *)
(* together).                                                              *)
ReadInOrder ==
    \A c \in Client :
        /\ \A i \in 1 .. Len(delivered[c]) : delivered[c][i] = i
        /\ \A cb \in ControlBlocks(c) :
              /\ cb.next = Len(delivered[c]) + Len(cb.queue)
              /\ \A i \in 1 .. Len(cb.queue) : cb.queue[i] = Len(delivered[c]) + i

(* No control block has forgotten a segment that was acknowledged to the   *)
(* client, which will never send it again.                                 *)
AcknowledgedIsKept ==
    \A c \in Client : \A cb \in ControlBlocks(c) : acked[c] <= cb.next

(* The three tables of TcpPeer agree: an established descriptor names a    *)
(* connection in `established' that `qds' maps back to it, so neither      *)
(* unwrap nor panic of migrate_out_connection on them can be reached.      *)
TablesAgree ==
    /\ \A s \in Server, q \in Qd : IsEstablished(s, q) =>
          /\ q \in files[s]
          /\ qds[s][sockets[s][q].conn] = q
          /\ established[s][sockets[s][q].conn] # None
    /\ \A s \in Server, c \in Client : qds[s][c] # None <=> established[s][c] # None

NoSegmentGoesUp(n) == \A s \in Server : \A i \in 1 .. Len(n[Up(s)]) : n[Up(s)][i].type # "SEGMENT"

OriginHasDescriptor ==
    \A s \in Server, c \in Client :
        active[s][c] # None /\ active[s][c].stage = "PREPARE_MIG" => active[s][c].qd \in Qd

PopsHaveSocket == \A s \in Server, q \in Qd : pops[s][q] # "idle" => sockets[s][q] # None

(* The inductive strengthening of TypeOK, SingleOwner and TablesAgree:     *)
(* clients are behind the switch, the origin of a migration has a          *)
(* descriptor for migrate_out_connection until it sends the state, and a   *)
(* pop coroutine belongs to a descriptor of the table.                     *)
Inductive ==
    /\ TypeOK
    /\ SingleOwner
    /\ TablesAgree
    /\ NoSegmentGoesUp(net)
    /\ OriginHasDescriptor
    /\ PopsHaveSocket

(* Application state stays with its connection: a server keeps it only for *)
(* connections it holds (send_tcp_state removes it from application_state).*)
AppStateWithConnection ==
    \A s \in Server, c \in Client : appState[s][c] # "None" => Held(s, c)

(* No pop coroutine sleeps on a connection that has migrated out           *)
(* (migrate_out_connection wakes it, so that it fails with ETCPMIG).       *)
NoPopLeftBehind ==
    \A s \in Server, q \in Qd :
        sockets[s][q] # None /\ sockets[s][q].state = "MigratedOut" => pops[s][q] # "waiting"

-----------------------------------------------------------------------------
(* Safety when links keep the order of their packets and lose none         *)
(* (Fifo, Budget.lose = 0).                                                *)

(* The switch and the servers agree on the owner: a running server that    *)
(* holds a connection the switch routes elsewhere is the origin of its     *)
(* migration, and the PREPARE_MIG_ACK of the server the switch routes to   *)
(* is on its way to it.                                                    *)
OwnerIsKnown ==
    \A s \in Server, c \in Client :
        panicked[s] = "no" /\ Held(s, c) /\ owner[c] # s =>
            /\ active[s][c] # None /\ active[s][c].stage = "PREPARE_MIG"
            /\ active[owner[c]][c] # None /\ active[owner[c]][c].stage = "PREPARE_MIG_ACK"
            /\ \E i \in 1 .. Len(net[Down(s)]) : net[Down(s)][i] = PrepareMigAck(owner[c], c, s)

(* A migration loses no segment: one that arrives finds the connection, or *)
(* the migration that buffers it for accept; the origin buffers none,      *)
(* which it would drop on CONN_STATE_ACK.                                  *)
SegmentsFindTheConnection ==
    /\ \A s \in Server :
          net[Down(s)] # <<>> /\ Head(net[Down(s)]).type = "SEGMENT" /\ panicked[s] = "no" =>
              LET c == Head(net[Down(s)]).client IN Held(s, c) \/ active[s][c] # None
    /\ \A s \in Server, c \in Client :
          active[s][c] # None /\ active[s][c].stage \in {"PREPARE_MIG", "CONN_STATE"} =>
              active[s][c].buffer = <<>>

(* A connection leaves its server only for the server that the switch      *)
(* already routes its segments to: the CONN_STATE of a connection goes to  *)
(* the sender of the PREPARE_MIG_ACK for that connection.                  *)
StateFollowsOwner ==
    \A l \in Link, c \in Client : \A i \in 1 .. Len(net[l]) :
        IsStateOf(net[l][i], c) => net[l][i].dst = owner[c]

(* The switch and the servers agree where a connection is, at every step   *)
(* of a migration: while a server holds it, and while its state travels.   *)
RoutingAgrees == OwnerIsKnown /\ StateFollowsOwner

(* A PREPARE_MIG that finds an active migration is one that the switch has *)
(* returned to its origin, as TcpMigPeer::receive takes it.                *)
ReturnedIsOwn ==
    \A s \in Server : \A i \in Arrivals(Down(s)) :
        LET m == net[Down(s)][i] IN
        m.type = "PREPARE_MIG" /\ panicked[s] = "no" /\ active[s][m.client] # None => m.src = s

(* As long as no application closes a connection, the messages of the      *)
(* protocol never make a server panic: only a user who asks twice for the  *)
(* migration of one connection does.                                       *)
OnlyUsersPanic ==
    \A s \in Server : panicked[s] \in {"no", "duplicate initiate migration"}

-----------------------------------------------------------------------------
(***************************************************************************)
(* TcpMig implements ConnHandoff: wherever the control block of a          *)
(* connection is, its connection is, with its unread segments.             *)
(***************************************************************************)

Transit == "transit"
Lost == "lost"

HolderOf(c) ==
    IF \E s \in Server : Held(s, c) THEN CHOOSE s \in Server : Held(s, c)
    ELSE IF StateInFlight(net, c) THEN Transit ELSE Lost

UnreadOf(c) ==
    IF ControlBlocks(c) = {} THEN 0 ELSE Len((CHOOSE cb \in ControlBlocks(c) : TRUE).queue)

Handoff == INSTANCE ConnHandoff WITH
    holder <- [c \in Client |-> HolderOf(c)],
    unread <- [c \in Client |-> UnreadOf(c)],
    read <- delivered

(* Every step of the protocol, with packets lost and reordered, is one of  *)
(* the hand-off or none: segments are received and read only by the server *)
(* that has the connection, in order and once, and a connection that       *)
(* leaves a server (migrate_out_connection) takes every unread segment     *)
(* along to the one it arrives at (migrate_in_connection).                 *)
RefinesHandoff == Handoff!Spec

-----------------------------------------------------------------------------
(* Liveness.  A server polls its devices and its coroutines forever        *)
(* (poll_bg_work), and the switch forwards what it receives.  Nothing is   *)
(* assumed of clients and of what applications ask for, except that they   *)
(* keep accepting.                                                         *)

Fairness ==
    \A s \in Server :
        /\ WF_vars(SwitchForward(s))
        /\ WF_vars(Migrate(s) \/ Data(s))
        /\ \A c \in Client : WF_vars(\E q \in Qd : Accept(s, c, q))
        /\ \A q \in Qd : WF_vars(PollPop(s, q))

FairSpec == Spec /\ Fairness

SomePanic == \E s \in Server : panicked[s] # "no"

(* Once a target has acknowledged PREPARE_MIG, the connection is           *)
(* established there, unless a server panics (needs Budget.lose = 0: no    *)
(* message of the protocol is sent twice).                                 *)
MigrationArrives ==
    \A t \in Server, c \in Client :
        active[t][c] # None /\ active[t][c].stage = "PREPARE_MIG_ACK"
            ~> established[t][c] # None \/ SomePanic

(* A pop on a connection that has migrated out completes (with ETCPMIG):   *)
(* the deadlock that wake_scheduler_task in migrate_out_connection avoids. *)
MigratedPopReturns ==
    \A s \in Server, q \in Qd :
        pops[s][q] # "idle" /\ sockets[s][q] # None /\ sockets[s][q].state = "MigratedOut"
            ~> pops[s][q] = "idle" \/ SomePanic
=============================================================================
