------------------------------- MODULE MCTcp --------------------------------
(***************************************************************************)
(* Instances of the TCP modules for TLC.  A behaviour is one of the        *)
(* component in focus; the others stay in their initial states.            *)
(***************************************************************************)
EXTENDS SeqNumber, Sequences, FiniteSets, SequencesExt, TLC

CONSTANTS
    None,
    r1,             \* a reader
    e1, e2,         \* ends of a connection, clients
    t1, t2, p1, p2  \* tokens, peers

VARIABLES
    focus,
    \* TcpMoved
    sendUnacked, sendNext, unsentSeqNo, unackedQueue, unsentQueue, sendWindow, windowSeq, windowAck,
    userIsDoneSending, retransmitDeadline, bg, probe, windowChanged, wire, pushed, failure,
    readerNext, receiveNext, recvQueue, outOfOrder, outOfOrderFin, rxState, ackDeadline,
    acked, acksOut, waker, reader, pos, asserted,
    calls, lost, dups, app, moves, overrun,
    \* TcpClose
    conn, segments, segmentsLost, segmentsRepeated, gone, failed,
    \* TcpHandshake
    port, net, inflight, ready, endpoints, acceptor, accepted, isnCount,
    cstate, attempt, cisn, cleft, result, connector, ccb, heardRst,
    \* TcpSockets
    files, sockets, passive, connecting, established, qds, ports, tasks, runnable, panicked

sendvars == <<sendUnacked, sendNext, unsentSeqNo, unackedQueue, unsentQueue, sendWindow, windowSeq, windowAck,
              userIsDoneSending, retransmitDeadline, bg, probe, windowChanged, wire, pushed, failure>>
recvvars == <<readerNext, receiveNext, recvQueue, outOfOrder, outOfOrderFin, rxState, ackDeadline,
              acked, acksOut, waker, reader, pos, asserted>>
netvars == <<calls, lost, dups>>
movevars == <<app, moves, overrun>>
closevars == <<conn, segments, segmentsLost, segmentsRepeated, gone, failed>>
openvars == <<port, net, inflight, ready, endpoints, acceptor, accepted, isnCount,
              cstate, attempt, cisn, cleft, result, connector, ccb, heardRst>>
sockvars == <<files, sockets, passive, connecting, established, qds, ports, tasks, runnable, panicked>>
vars == <<focus, sendvars, recvvars, netvars, movevars, closevars, openvars, sockvars>>

FirstSeq == SeqSpace - 4   \* the numbers wrap within the stream

-----------------------------------------------------------------------------
(* A receiver with a peer that sends any segment of its stream, again and  *)
(* in any order: old ones, overlapping ones, ones beyond the window.       *)

StreamLen == 5
MaxSegment == 3
Buffer == 4

Receiver == INSTANCE TcpReceiver WITH
    InitialSeq <- FirstSeq, ReceiveBufferSize <- Buffer, MaxOutOfOrder <- 2, AcksInFlight <- 1, Readers <- {r1}

Segment(at, n, fin) ==
    [seq |-> (FirstSeq + at) % SeqSpace, data |-> [i \in 1 .. n |-> at + i], fin |-> fin]

PeerSends ==
    \E at \in 0 .. StreamLen, n \in 0 .. MaxSegment, fin \in BOOLEAN :
        /\ at + n <= StreamLen
        /\ fin => at + n = StreamLen
        /\ at + MaxSegment >= pos
        /\ at <= pos + Buffer
        /\ Receiver!ReceiveSegment(Segment(at, n, fin))

ReceiverNext == PeerSends \/ Receiver!Acknowledge \/ Receiver!PollRecv(r1)

-----------------------------------------------------------------------------
(* A transfer through a small window, either end of which migrates. *)

Transfer == INSTANCE TcpMoved WITH
    InitialSeq <- FirstSeq, SenderSeq <- FirstSeq, PeerSeq <- FirstSeq + 1,
    ReceiveBufferSize <- 3, InitialWindow <- 3, MaxOutOfOrder <- 2, AcksInFlight <- 2, Readers <- {r1},
    Mss <- 2, UnsentQueueCutoff <- 3, Pushes <- <<2, 2>>, MaxLose <- 1, MaxDup <- 0,
    AppState <- <<1, 0, 255>>, MaxMoves <- 1

(* One whose users close, over a network that delivers everything. *)
Delivery == INSTANCE TcpMoved WITH
    InitialSeq <- FirstSeq, SenderSeq <- FirstSeq, PeerSeq <- FirstSeq + 1,
    ReceiveBufferSize <- 6, InitialWindow <- 6, MaxOutOfOrder <- 2, AcksInFlight <- 1, Readers <- {r1},
    Mss <- 2, UnsentQueueCutoff <- 3, Pushes <- <<1, 2>>, MaxLose <- 0, MaxDup <- 0,
    AppState <- <<>>, MaxMoves <- 1

-----------------------------------------------------------------------------
(* Two ends that close, two of which one aborts, two of which one migrates. *)

Closing == INSTANCE TcpClose WITH
    Ends <- {e1, e2}, Data <- 1, Aborts <- {}, Migrates <- {}, Patient <- TRUE, MaxLose <- 1, MaxDup <- 0,
    wire <- segments, lost <- segmentsLost, dups <- segmentsRepeated

Aborting == INSTANCE TcpClose WITH
    Ends <- {e1, e2}, Data <- 1, Aborts <- {"rst", "syn"}, Migrates <- {}, Patient <- TRUE, MaxLose <- 0, MaxDup <- 0,
    wire <- segments, lost <- segmentsLost, dups <- segmentsRepeated

Moving == INSTANCE TcpClose WITH
    Ends <- {e1, e2}, Data <- 1, Aborts <- {}, Migrates <- {e1}, Patient <- TRUE, MaxLose <- 0, MaxDup <- 0,
    wire <- segments, lost <- segmentsLost, dups <- segmentsRepeated

-----------------------------------------------------------------------------
(* Two clients, one of which may connect again, and a backlog of one; and  *)
(* one client on its own, at a port that listens or not.  The clients'     *)
(* numbers start where they wrap.                                          *)

Opening == INSTANCE TcpHandshake WITH
    Clients <- {e1, e2}, Ports <- {"listening"}, MaxBacklog <- 1, HandshakeRetries <- 1,
    MaxAttempts <- [c \in {e1, e2} |-> IF c = e1 THEN 2 ELSE 1],
    ClientIsn <- [c \in {e1, e2} |-> IF c = e1 THEN SeqSpace - 1 ELSE 3],
    ServerIsn <- [c \in {e1, e2} |-> IF c = e1 THEN 5 ELSE 9],
    WindowSize <- 4, WindowScale <- 0, U16 <- 16

Connecting == INSTANCE TcpHandshake WITH
    Clients <- {e1}, Ports <- {"listening", "closed", "foreign"}, MaxBacklog <- 1,
    HandshakeRetries <- 2, MaxAttempts <- [c \in {e1} |-> 2],
    ClientIsn <- [c \in {e1} |-> SeqSpace - 1], ServerIsn <- [c \in {e1} |-> SeqSpace - 2],
    WindowSize <- 4, WindowScale <- 0, U16 <- 16

-----------------------------------------------------------------------------
(* A stack that accepts and pops, and one that connects and pushes. *)

Serving == INSTANCE TcpSockets WITH
    MaxQds <- 3, Tokens <- {t1, t2}, Addrs <- {80}, EphemeralPool <- <<>>, Remotes <- {p1, p2},
    Ops <- {"accept", "pop"}, Disciplined <- TRUE

Calling == INSTANCE TcpSockets WITH
    MaxQds <- 2, Tokens <- {t1}, Addrs <- {80, 49152}, EphemeralPool <- <<49153, 49152>>, Remotes <- {p1},
    Ops <- {"connect", "push"}, Disciplined <- TRUE

Symmetry == Permutations({t1, t2}) \cup Permutations({p1, p2})

-----------------------------------------------------------------------------
(* Safety. *)

Init ==
    /\ focus \in {"receiver", "transfer", "opening", "serving", "calling"}
    /\ Transfer!MovedInit /\ Closing!Init /\ Opening!Init
    /\ IF focus = "calling" THEN Calling!Init ELSE Serving!Init

Next ==
    \/ focus = "receiver" /\ ReceiverNext /\ UNCHANGED <<focus, sendvars, netvars, movevars, closevars, openvars, sockvars>>
    \/ focus = "transfer" /\ Transfer!MovedNext /\ UNCHANGED <<focus, closevars, openvars, sockvars>>
    \/ focus = "opening" /\ Opening!Next /\ UNCHANGED <<focus, sendvars, recvvars, netvars, movevars, closevars, sockvars>>
    \/ focus = "serving" /\ Serving!Next /\ UNCHANGED <<focus, sendvars, recvvars, netvars, movevars, closevars, openvars>>
    \/ focus = "calling" /\ Calling!Next /\ UNCHANGED <<focus, sendvars, recvvars, netvars, movevars, closevars, openvars>>

Spec == Init /\ [][Next]_vars

(* What the application reads is the peer's stream, in order and once,     *)
(* however segments overlap and in whatever order they come; the FIN is    *)
(* taken only behind all data; what was received and not acknowledged has  *)
(* a delayed ACK scheduled; and a reader that sleeps has nothing to read   *)
(* (ControlBlock::receive, receive_data, poll_recv, the acknowledger).     *)
ReceivedInOrder ==
    focus = "receiver" =>
        /\ Receiver!InOrder
        /\ rxState = "CloseWait" => pos = StreamLen
        /\ Receiver!AckOwed
        /\ Receiver!ReaderWoken

(* A migration of either end in the middle of a transfer neither loses nor *)
(* repeats a byte, and the target has exactly the state the source wrote   *)
(* (TcpState::serialize and deserialize, ControlBlock::from_state).        *)
StreamSurvivesMoves ==
    /\ [](focus = "transfer" => Transfer!StreamPreserved /\ Transfer!FinOnlyAfterClose /\ Transfer!ReaderKeepsPlace)
    /\ Transfer!StateCarried

(* The sender accounts for what it has sent: the retransmission queue is   *)
(* exactly what is between SND.UNA and SND.NXT, and no more is in flight   *)
(* than the peer has room for, but for a probe and the FIN (Sender::send,  *)
(* the background sender and the retransmitter).                           *)
SenderAccounts ==
    focus = "transfer" => Transfer!UnackedMatchesFlight /\ Transfer!SendsWithinWindow

(* Both ends of an opened connection hold the same numbers, whatever old   *)
(* or repeated segments of this and earlier attempts arrive; a connection  *)
(* that its client has not given up stays open; the backlog is kept; and   *)
(* the accept coroutine does not sleep on a ready connection               *)
(* (PassiveSocket::receive, ActiveOpenSocket::receive).                    *)
OpenedAlike ==
    focus = "opening" =>
        Opening!ClientHasPeer /\ Opening!OnlyAbandonedClosed /\ Opening!BacklogBounded /\ Opening!AcceptorWoken

(* Descriptors, sockets, connections and ports agree after every sequence  *)
(* of calls, completions and migrations: nothing has two owners, and no    *)
(* panic of poll_accept or poll_connect_finished on an inconsistent table  *)
(* is reached (TcpPeer, IoQueueTable, EphemeralPorts).                     *)
SocketTablesAgree ==
    /\ focus = "serving" => Serving!TablesAgree /\ Serving!DescriptorsExclusive /\ Serving!NeverPanics
    /\ focus = "calling" => Calling!PortsExclusive /\ Calling!NeverPanics

(* While there is something for an accept, a connect or a pop, or its      *)
(* connection has migrated away, its coroutine is notified (the wakers of  *)
(* poll_accept, poll_result and poll_recv).                                *)
NoLostWake ==
    /\ focus = "serving" => Serving!NoLostWake
    /\ focus = "calling" => Calling!NoLostWake

-----------------------------------------------------------------------------
(* Liveness. *)

LiveInit ==
    /\ focus \in {"delivery", "closing", "aborting", "moving", "connecting"}
    /\ focus # "connecting" => port = "listening"
    /\ Delivery!MovedInit /\ Closing!Init /\ Connecting!Init /\ Serving!Init

LiveNext ==
    \/ focus = "delivery" /\ Delivery!MovedNext /\ UNCHANGED <<focus, closevars, openvars, sockvars>>
    \/ focus = "closing" /\ Closing!Next /\ UNCHANGED <<focus, sendvars, recvvars, netvars, movevars, openvars, sockvars>>
    \/ focus = "aborting" /\ Aborting!Next /\ UNCHANGED <<focus, sendvars, recvvars, netvars, movevars, openvars, sockvars>>
    \/ focus = "moving" /\ Moving!Next /\ UNCHANGED <<focus, sendvars, recvvars, netvars, movevars, openvars, sockvars>>
    \/ focus = "connecting" /\ Connecting!Next /\ UNCHANGED <<focus, sendvars, recvvars, netvars, movevars, closevars, sockvars>>

(* Coroutines are polled, timers expire, the network delivers what it does *)
(* not lose, and the users go on: the fairness of TcpMoved, TcpClose       *)
(* and TcpHandshake, for the component in focus.                           *)
Sending(A) == focus = "delivery" /\ A /\ UNCHANGED <<recvvars, netvars>>
Receiving(A) == focus = "delivery" /\ A /\ UNCHANGED <<sendvars, netvars>>
transfervars == <<sendvars, recvvars, netvars>>

DeliveryFair ==
    /\ WF_transfervars(focus = "delivery" /\ Delivery!UserPushes)
    /\ WF_transfervars(focus = "delivery" /\ Delivery!UserCloses)
    /\ WF_transfervars(Sending(Delivery!ProbeZeroWindow))
    /\ WF_transfervars(Sending(Delivery!ProbeAgain))
    /\ WF_transfervars(Sending(Delivery!StopProbing))
    /\ WF_transfervars(Sending(Delivery!SendUnsent))
    /\ WF_transfervars(Sending(Delivery!Retransmit))
    /\ WF_transfervars(focus = "delivery" /\ Delivery!DeliverSegment)
    /\ WF_transfervars(focus = "delivery" /\ Delivery!DeliverAck)
    /\ WF_transfervars(Receiving(Delivery!Acknowledge))
    /\ WF_transfervars(Receiving(Delivery!PollRecv(r1)))

ClosingFair ==
    \A e \in {e1, e2} :
        /\ WF_closevars(focus = "closing" /\ Closing!Close(e))
        /\ WF_closevars(focus = "closing" /\ Closing!Retransmit(e))
        /\ WF_closevars(focus = "closing" /\ Closing!Acknowledge(e))
        /\ WF_closevars(focus = "closing" /\ Closing!Receive(e))

ConnectingFair ==
    /\ WF_openvars(focus = "connecting" /\ Connecting!Deliver)
    /\ WF_openvars(focus = "connecting" /\ Connecting!AcceptPolled)
    /\ WF_openvars(focus = "connecting" /\ Connecting!ClientBackground(e1))
    /\ WF_openvars(focus = "connecting" /\ Connecting!ConnectPolled(e1))
    /\ WF_openvars(focus = "connecting" /\ Connecting!ServerBackground(e1))

LiveSpec == LiveInit /\ [][LiveNext]_vars /\ DeliveryFair /\ ClosingFair /\ ConnectingFair



(* Every connect returns, with a connection, a refusal or the timeout; and *)
(* a connection that the client has opened is accepted by the server.      *)
OpeningEnds == Connecting!ConnectEnds /\ Connecting!OpenedIsAccepted
=============================================================================
