---------------------------- MODULE TcpHandshake ----------------------------
(***************************************************************************)
(* Opening a connection: ActiveOpenSocket at the clients, PassiveSocket at *)
(* a server, and the routing of segments between connecting, ready and     *)
(* established connections at both ends.  The network keeps every segment  *)
(* ever sent and may deliver any of them at any time, or never, so it      *)
(* loses, repeats and reorders.  A client may try again from the same      *)
(* port.  Peers are in the ARP cache when a segment arrives from them.     *)
(***************************************************************************)
EXTENDS SeqNumber, Sequences, FiniteSets

CONSTANTS
    Clients,            \* remote addresses, each on a stack of its own
    Ports,              \* what the port may be: "listening", "closed", or "foreign" (closed, on another stack)
    MaxBacklog, HandshakeRetries,
    MaxAttempts,        \* bound: connects of each client
    ClientIsn, ServerIsn,   \* the digest of the addresses in the ISN: client -> number
    WindowSize, WindowScale,    \* of TcpConfig, at both ends
    U16,                \* 2^16 in the code: the width of the window field
    None

VARIABLES
    port,           \* which of Ports it is, throughout
    net,            \* segments sent so far
    inflight,       \* client -> InflightAccept or None
    ready,          \* ReadySockets.ready
    endpoints,      \* ReadySockets.endpoints
    acceptor,       \* the accept coroutine: "running" or "waiting"
    accepted,       \* client -> control block in the server's established table, or None
    isnCount,       \* counter of the listening socket's IsnGenerator
    cstate,         \* client -> "idle" | "connecting" | "established" | "failed"
    attempt,        \* client -> connects so far
    cisn,           \* client -> local_isn
    cleft,          \* client -> SYNs its background coroutine may still send, None when it has ended
    result,         \* client -> ConnectResult: None, or [err, cb]
    connector,      \* client -> the connect coroutine: "running" or "waiting"
    ccb,            \* client -> its control block, or None
    heardRst        \* history: client -> a RST arrived during this attempt

server == <<inflight, ready, endpoints, acceptor, accepted, isnCount>>
client == <<cstate, attempt, cisn, cleft, result, connector, ccb, heardRst>>
vars == <<port, net, server, client>>

-----------------------------------------------------------------------------
(* Segments and control blocks. *)

Segment(from, to, flags, seq, ack) ==
    [from |-> from, to |-> to, syn |-> "syn" \in flags, ack |-> "ack" \in flags, rst |-> "rst" \in flags,
     seq |-> seq, acknum |-> ack]

(* checked_shl on the u16 of the header: bits above the width are lost. *)
Shl16(w, scale) == (w * 2^scale) % U16

ControlBlock(snd, rcv, rx, tx) ==
    [open |-> TRUE, sendNext |-> snd, receiveNext |-> rcv, rxWindow |-> rx, txWindow |-> tx]

Err(e) == [err |-> e, cb |-> None]

SynOf(c) == Segment(c, "server", {"syn"}, cisn[c], 0)

SynAckOf(c, a) == Segment("server", c, {"syn", "ack"}, a.localIsn, SeqAdd(a.remoteIsn, 1))

AckOf(from, to, cb) == Segment(from, to, {"ack"}, cb.sendNext, cb.receiveNext)

(* send_rst: no acknowledgement number. *)
RstOf(from, to) == Segment(from, to, {"rst"}, 0, 0)

(* The RST of a stack that follows RFC 793. *)
ForeignRst(m) == Segment(m.to, m.from, {"rst", "ack"}, 0, SeqAdd(m.seq, 1))

-----------------------------------------------------------------------------
(* ControlBlock::receive, for the segments of a handshake: an old segment  *)
(* or one beyond the window is answered by an ACK, an in-window RST or SYN *)
(* closes the connection.                                                  *)

IsUnacceptable(cb, m) ==
    /\ m.seq # cb.receiveNext
    /\ SeqLt(m.seq, cb.receiveNext) \/ SeqGe(m.seq, SeqAdd(cb.receiveNext, cb.rxWindow))

Closes(cb, m) == ~IsUnacceptable(cb, m) /\ (m.rst \/ m.syn)

Answers(cb, m) ==
    \/ IsUnacceptable(cb, m) /\ ~m.rst
    \/ ~IsUnacceptable(cb, m) /\ ~Closes(cb, m) /\ m.ack /\ SeqGt(m.acknum, cb.sendNext)

AfterReceive(cb, m) == IF Closes(cb, m) THEN [cb EXCEPT !.open = FALSE] ELSE cb

-----------------------------------------------------------------------------
(* The listening socket. *)

(* An ACK of the SYN+ACK: the connection moves to the ready queue and its  *)
(* background coroutine is dropped.  The scheduler polls no dropped task   *)
(* again but one in the first place of a page, which repeats at most the   *)
(* SYN+ACK that net already holds.                                         *)
CompleteAccept(c, m) ==
    LET a == inflight[c]
        cb == ControlBlock(SeqAdd(a.localIsn, 1), SeqAdd(a.remoteIsn, 1),
                           WindowSize * 2^WindowScale, Shl16(WindowSize, WindowScale)) IN
    /\ m.ack /\ m.acknum = SeqAdd(a.localIsn, 1)
    /\ inflight' = [inflight EXCEPT ![c] = None]
    /\ endpoints' = endpoints \cup {c}
    /\ ready' = Append(ready, [remote |-> c, cb |-> cb])
    /\ acceptor' = "running"
    /\ UNCHANGED <<net, accepted, isnCount>>

BacklogFull == Cardinality({c \in Clients : inflight[c] # None}) + Len(ready) >= MaxBacklog

StartAccept(c, m) ==
    /\ m.syn /\ ~m.ack /\ ~m.rst
    /\ ~BacklogFull
    /\ inflight' = [inflight EXCEPT ![c] = [localIsn |-> SeqAdd(ServerIsn[c], isnCount), remoteIsn |-> m.seq,
                                            left |-> HandshakeRetries]]
    /\ isnCount' = isnCount + 1
    /\ UNCHANGED <<net, ready, endpoints, acceptor, accepted>>

(* PassiveSocket::receive.  What it refuses or ignores changes nothing. *)
PassiveReceive(c, m) ==
    /\ c \notin endpoints
    /\ \/ inflight[c] # None /\ CompleteAccept(c, m)
       \/ inflight[c] = None /\ StartAccept(c, m)

ServerReceive(m) ==
    LET c == m.from IN
    /\ m.to = "server"
    /\ \/ /\ accepted[c] # None
          /\ accepted' = [accepted EXCEPT ![c] = AfterReceive(accepted[c], m)]
          /\ net' = net \cup (IF Answers(accepted[c], m) THEN {AckOf("server", c, accepted[c])} ELSE {})
          /\ UNCHANGED <<inflight, ready, endpoints, acceptor, isnCount>>
       \/ accepted[c] = None /\ port = "listening" /\ PassiveReceive(c, m)
       \/ port = "closed" /\ net' = net \cup {RstOf("server", c)} /\ UNCHANGED server
       \/ port = "foreign" /\ m.syn /\ net' = net \cup {ForeignRst(m)} /\ UNCHANGED server
    /\ UNCHANGED <<port, client>>

(* One round of PassiveSocket::background: the SYN+ACK is sent unless the  *)
(* ARP query fails.  When the rounds are used up the coroutine ends and    *)
(* the entry stays.                                                        *)
ServerBackground(c) ==
    /\ inflight[c] # None /\ inflight[c].left > 0
    /\ inflight' = [inflight EXCEPT ![c].left = @ - 1]
    /\ \/ net' = net \cup {SynAckOf(c, inflight[c])}
       \/ UNCHANGED net
    /\ UNCHANGED <<ready, endpoints, acceptor, accepted, isnCount, port, client>>

(* poll_accept: the first ready connection is established; the application *)
(* accepts again.                                                          *)
AcceptPolled ==
    /\ acceptor = "running"
    /\ IF ready = <<>>
       THEN acceptor' = "waiting" /\ UNCHANGED <<ready, endpoints, accepted>>
       ELSE /\ ready' = Tail(ready) /\ UNCHANGED acceptor
            /\ endpoints' = endpoints \ {Head(ready).remote}
            /\ accepted' = [accepted EXCEPT ![Head(ready).remote] = Head(ready).cb]
    /\ UNCHANGED <<net, inflight, isnCount, port, client>>

-----------------------------------------------------------------------------
(* The connecting sockets. *)

Connect(c) ==
    /\ cstate[c] \in {"idle", "failed"} /\ attempt[c] < MaxAttempts[c]
    /\ cstate' = [cstate EXCEPT ![c] = "connecting"]
    /\ attempt' = [attempt EXCEPT ![c] = @ + 1]
    /\ cisn' = [cisn EXCEPT ![c] = SeqAdd(ClientIsn[c], attempt[c])]
    /\ cleft' = [cleft EXCEPT ![c] = HandshakeRetries]
    /\ result' = [result EXCEPT ![c] = None]
    /\ connector' = [connector EXCEPT ![c] = "running"]
    /\ heardRst' = [heardRst EXCEPT ![c] = FALSE]
    /\ UNCHANGED <<port, net, server, ccb>>

(* Mutant: the background coroutine ends without a result. *)
MutSetResult(c, r) == UNCHANGED result /\ connector' = [connector EXCEPT ![c] = "running"]

SetResult(c, r) ==
    /\ result' = [result EXCEPT ![c] = r]
    /\ connector' = [connector EXCEPT ![c] = "running"]

(* ActiveOpenSocket::background: a round, or the timeout after the last,   *)
(* which replaces any result not yet taken.                                *)
ClientBackground(c) ==
    /\ cstate[c] = "connecting" /\ cleft[c] # None
    /\ \/ /\ cleft[c] > 0
          /\ cleft' = [cleft EXCEPT ![c] = @ - 1]
          /\ net' = net \cup {SynOf(c)} \/ UNCHANGED net
          /\ UNCHANGED <<result, connector>>
       \/ /\ cleft[c] = 0
          /\ cleft' = [cleft EXCEPT ![c] = None]
          /\ SetResult(c, Err("ETIMEDOUT"))
          /\ UNCHANGED net
    /\ UNCHANGED <<port, server, cstate, attempt, cisn, ccb, heardRst>>

(* Mutant: any SYN+ACK is taken for the answer. *)
MutIsAnswer(c, m) == m.ack

IsAnswer(c, m) == m.ack /\ m.acknum = SeqAdd(cisn[c], 1)

ActiveReceive(c, m) ==
    /\ \/ ~IsAnswer(c, m) /\ UNCHANGED <<result, connector, net>>
       \/ IsAnswer(c, m) /\ m.rst /\ SetResult(c, Err("ECONNREFUSED")) /\ UNCHANGED net
       \/ /\ IsAnswer(c, m) /\ ~m.rst /\ m.syn
          /\ LET cb == ControlBlock(SeqAdd(cisn[c], 1), SeqAdd(m.seq, 1),
                                    Shl16(WindowSize, WindowScale), Shl16(WindowSize, WindowScale)) IN
             SetResult(c, [err |-> None, cb |-> cb]) /\ net' = net \cup {AckOf(c, "server", cb)}
    /\ heardRst' = [heardRst EXCEPT ![c] = @ \/ m.rst]
    /\ UNCHANGED <<cstate, attempt, cisn, cleft, ccb>>

ClientReceive(m) ==
    LET c == m.to IN
    /\ c \in Clients
    /\ \/ /\ cstate[c] = "established"
          /\ ccb' = [ccb EXCEPT ![c] = AfterReceive(ccb[c], m)]
          /\ net' = net \cup (IF Answers(ccb[c], m) THEN {AckOf(c, "server", ccb[c])} ELSE {})
          /\ UNCHANGED <<cstate, attempt, cisn, cleft, result, connector, heardRst>>
       \/ cstate[c] = "connecting" /\ ActiveReceive(c, m)
       \/ cstate[c] = "failed" /\ net' = net \cup {RstOf(c, "server")} /\ UNCHANGED client
    /\ UNCHANGED <<port, server>>

(* poll_connect_finished *)
ConnectPolled(c) ==
    /\ cstate[c] = "connecting" /\ connector[c] = "running"
    /\ IF result[c] = None
       THEN connector' = [connector EXCEPT ![c] = "waiting"] /\ UNCHANGED <<cstate, cleft, result, ccb>>
       ELSE /\ cleft' = [cleft EXCEPT ![c] = None]
            /\ result' = [result EXCEPT ![c] = None]
            /\ UNCHANGED connector
            /\ IF result[c].err # None
               THEN cstate' = [cstate EXCEPT ![c] = "failed"] /\ UNCHANGED ccb
               ELSE cstate' = [cstate EXCEPT ![c] = "established"] /\ ccb' = [ccb EXCEPT ![c] = result[c].cb]
    /\ UNCHANGED <<port, net, server, attempt, cisn, heardRst>>

-----------------------------------------------------------------------------

Init ==
    /\ port \in Ports /\ heardRst = [c \in Clients |-> FALSE]
    /\ net = {} /\ ready = <<>> /\ endpoints = {} /\ acceptor = "running" /\ isnCount = 0
    /\ inflight = [c \in Clients |-> None] /\ accepted = [c \in Clients |-> None]
    /\ cstate = [c \in Clients |-> "idle"] /\ attempt = [c \in Clients |-> 0] /\ cisn = [c \in Clients |-> 0]
    /\ cleft = [c \in Clients |-> None] /\ result = [c \in Clients |-> None]
    /\ connector = [c \in Clients |-> "running"] /\ ccb = [c \in Clients |-> None]

Deliver == \E m \in net : ServerReceive(m) \/ ClientReceive(m)

Next ==
    \/ Deliver \/ AcceptPolled
    \/ \E c \in Clients : Connect(c) \/ ClientBackground(c) \/ ConnectPolled(c) \/ ServerBackground(c)

Spec == Init /\ [][Next]_vars

(* The scheduler polls every notified coroutine, timers expire, and a      *)
(* segment that stays deliverable and would be acted on is delivered.      *)
FairSpec ==
    /\ Spec /\ WF_vars(Deliver) /\ WF_vars(AcceptPolled)
    /\ \A c \in Clients : WF_vars(ClientBackground(c)) /\ WF_vars(ConnectPolled(c)) /\ WF_vars(ServerBackground(c))

-----------------------------------------------------------------------------
(* Every entry of the tables is of the kind its table holds. *)
TypeOK ==
    /\ endpoints \subseteq Clients /\ acceptor \in {"running", "waiting"}
    /\ \A c \in Clients :
        /\ inflight[c] = None \/ inflight[c].left \in 0..HandshakeRetries
        /\ cleft[c] \in {None} \cup 0..HandshakeRetries
        /\ cstate[c] = "established" => ccb[c] # None

(* What the server knows of a connection: half open, ready or accepted. *)
ServerNumbers(c) ==
    {<<SeqAdd(a.remoteIsn, 1), SeqAdd(a.localIsn, 1)>> : a \in {inflight[c]} \ {None}}
    \cup {<<ready[i].cb.receiveNext, ready[i].cb.sendNext>> : i \in {j \in DOMAIN ready : ready[j].remote = c}}
    \cup {<<cb.receiveNext, cb.sendNext>> : cb \in {accepted[c]} \ {None}}

(* A client that holds a connection (ActiveOpenSocket::receive) has a      *)
(* counterpart at the server with the same sequence numbers, whatever old  *)
(* or repeated segments of this and earlier attempts arrive.               *)
ClientHasPeer ==
    \A c \in Clients :
        cstate[c] = "established" => <<ccb[c].sendNext, ccb[c].receiveNext>> \in ServerNumbers(c)

(* The server holds at most one connection per client, half open, ready or *)
(* accepted: push_ok and the tables of TcpPeer assert it.                  *)
OneEntryPerClient ==
    /\ \A i, j \in DOMAIN ready : ready[i].remote = ready[j].remote => i = j
    /\ endpoints = {ready[i].remote : i \in DOMAIN ready}
    /\ \A c \in Clients : Cardinality(ServerNumbers(c)) <= 1

(* demi_listen: the queue of pending connections never exceeds backlog. *)
BacklogBounded == Cardinality({c \in Clients : inflight[c] # None}) + Len(ready) <= MaxBacklog

(* A ready connection is never left while the accept coroutine sleeps. *)
AcceptorWoken == ready # <<>> => acceptor = "running"

(* A SYN or a RST that closes the server's connection (ControlBlock::      *)
(* receive) comes from a client that has given the connection up: no open  *)
(* connection of a client has a closed counterpart.                        *)
OnlyAbandonedClosed ==
    \A c \in Clients :
        cstate[c] = "established" /\ ccb[c].open /\ accepted[c] # None => accepted[c].open

(* Every connect returns: with a connection, a refusal or the timeout. *)
ConnectEnds == \A c \in Clients : cstate[c] = "connecting" ~> cstate[c] # "connecting"

(* A connection that the client has opened is accepted by the server. *)
OpenedIsAccepted == \A c \in Clients : cstate[c] = "established" ~> accepted[c] # None

(* A connect whose peer has answered with a RST is refused                 *)
(* (ActiveOpenSocket::receive), it does not time out.                      *)
RefusedNotTimedOut ==
    \A c \in Clients : result[c] # None /\ result[c].err = "ETIMEDOUT" => ~heardRst[c]

(* The window a side may send into is the one its peer announced, scaled   *)
(* (the shift must not lose bits silently).                                *)
WindowAsAnnounced ==
    \A c \in Clients : accepted[c] # None => accepted[c].txWindow = WindowSize * 2^WindowScale
=============================================================================
