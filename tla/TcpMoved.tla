------------------------------ MODULE TcpMoved ------------------------------
(***************************************************************************)
(* TcpSender and TcpReceiver joined by a network that loses, duplicates    *)
(* and reorders: one direction of a connection between two stacks of this  *)
(* code.  The user at one end pushes buffers and closes, the user at the   *)
(* other end pops.                                                         *)
(*                                                                         *)
(* Either end migrates to another host while data is queued, in flight or  *)
(* out of order: migrate_out_connection takes the state out of the control *)
(* block, serialize and deserialize carry it, and migrate_in_connection    *)
(* builds a control block from it with fresh timers and a fresh background *)
(* coroutine.  The other direction of the connection is idle.              *)
(***************************************************************************)
EXTENDS Integers, Sequences, SequencesExt, TcpSender, TcpReceiver

CONSTANTS
    Pushes,        \* sizes of the buffers the user pushes, in order
    PeerSeq,       \* sequence number in the segments of the receiving side
    MaxLose, MaxDup   \* bounds: packets the network loses, duplicates

VARIABLES calls, lost, dups

netvars == <<calls, lost, dups>>

vars == <<svars, rvars, netvars>>

NotWire == <<sendUnacked, sendNext, unsentSeqNo, unackedQueue, unsentQueue, sendWindow, windowSeq, windowAck,
             userIsDoneSending, retransmitDeadline, bg, probe, windowChanged, pushed, failure>>

NotAcks == <<readerNext, receiveNext, recvQueue, outOfOrder, outOfOrderFin, rxState, ackDeadline, acked, waker,
             reader, pos, asserted>>

-----------------------------------------------------------------------------

UserPushes ==
    /\ calls < Len(Pushes)
    /\ Push(Pushes[calls + 1])
    /\ calls' = calls + 1
    /\ UNCHANGED <<rvars, lost, dups>>

UserCloses ==
    /\ calls = Len(Pushes)
    /\ Close
    /\ UNCHANGED <<rvars, netvars>>

Background ==
    /\ ProbeZeroWindow \/ ProbeAgain \/ StopProbing \/ SendUnsent \/ SenderPanics \/ Retransmit
    /\ UNCHANGED <<rvars, netvars>>

DeliverSegment ==
    \E s \in wire :
        /\ ReceiveSegment(s)
        /\ \/ wire' = wire \ {s} /\ UNCHANGED dups
           \/ dups < MaxDup /\ dups' = dups + 1 /\ UNCHANGED wire
        /\ UNCHANGED <<NotWire, calls, lost>>

DeliverAck ==
    \E a \in acksOut :
        /\ ReceiveAck([seq |-> PeerSeq, ack |-> a.ack, window |-> a.window])
        /\ acksOut' = acksOut \ {a}
        /\ UNCHANGED <<NotAcks, netvars>>

LosePacket ==
    /\ lost < MaxLose
    /\ lost' = lost + 1
    /\ \/ \E s \in wire : wire' = wire \ {s} /\ UNCHANGED acksOut
       \/ \E a \in acksOut : acksOut' = acksOut \ {a} /\ UNCHANGED wire
    /\ UNCHANGED <<NotWire, NotAcks, calls, dups>>

ReceiverRuns ==
    /\ Acknowledge \/ \E r \in Readers : PollRecv(r)
    /\ UNCHANGED <<svars, netvars>>

Init == SenderInit /\ ReceiverInit /\ calls = 0 /\ lost = 0 /\ dups = 0

Next ==
    \/ UserPushes \/ UserCloses \/ Background
    \/ DeliverSegment \/ DeliverAck \/ LosePacket \/ ReceiverRuns

Spec == Init /\ [][Next]_vars

(* The coroutines are polled, timers expire, the network delivers what it  *)
(* does not lose (and it does not lose for ever), and both users go on.    *)
OpenFairness ==
    /\ WF_vars(UserPushes)
    /\ WF_vars(ProbeZeroWindow /\ UNCHANGED <<rvars, netvars>>)
    /\ WF_vars(ProbeAgain /\ UNCHANGED <<rvars, netvars>>)
    /\ WF_vars(StopProbing /\ UNCHANGED <<rvars, netvars>>)
    /\ WF_vars(SendUnsent /\ UNCHANGED <<rvars, netvars>>)
    /\ WF_vars(Retransmit /\ UNCHANGED <<rvars, netvars>>)
    /\ WF_vars(DeliverSegment) /\ WF_vars(DeliverAck)
    /\ WF_vars(Acknowledge /\ UNCHANGED <<svars, netvars>>)
    /\ WF_vars((\E r \in Readers : PollRecv(r)) /\ UNCHANGED <<svars, netvars>>)

Fairness == OpenFairness /\ WF_vars(UserCloses)

FairSpec == Spec /\ Fairness

-----------------------------------------------------------------------------
Total == FoldLeft(LAMBDA a, b : a + b, 0, Pushes)

Lengths(queue) == FoldLeft(LAMBDA n, buf : n + (IF buf = <<>> THEN 1 ELSE Len(buf)), 0, queue)

(* What the application at the receiving end reads is what the other one   *)
(* pushed, in order, once, whatever the network did and however send,      *)
(* the background sender and the retransmitter cut it up.                  *)
StreamPreserved ==
    LET unread == FlattenSeq(recvQueue) IN
    /\ unread = [i \in 1 .. Len(unread) |-> pos - Len(unread) + i]
    /\ pos <= pushed

(* The retransmission queue is exactly what is between SND.UNA and         *)
(* SND.NXT: what retransmit sends with the number send_unacked is the      *)
(* segment that belongs there, after partial acknowledgements, probes and  *)
(* the FIN too.                                                            *)
UnackedMatchesFlight ==
    /\ Lengths(unackedQueue) = InFlight
    /\ \A s \in wire : s.data # <<>> => s.seq = (SenderSeq + s.data[1] - 1) % SeqSpace

(* "Available window to send into, as advertised by our peer"              *)
(* (Sender::send_window): the sender stays within the peer's buffer, but   *)
(* for one probe byte and the FIN.                                         *)
SendsWithinWindow == SeqSub(sendNext, readerNext) <= ReceiveBufferSize + 2

(* The receiving end takes the connection as half closed only when the     *)
(* sending user has closed and all its data is there ("We only change      *)
(* state ... after we've actually been able to send the FIN").             *)
FinOnlyAfterClose == rxState = "CloseWait" => userIsDoneSending /\ pos = pushed


(* What the user has pushed arrives ("Slow path: Delegating sending the    *)
(* data to background processing"). *)
PushedArrives == <>(pos = Total)

(* "Queue up a FIN to be sent": after close the FIN is sent. *)
FinIsSent == userIsDoneSending ~> (rxState = "CloseWait")

(* debug_assert!(cb.user_is_done_sending.get()) in the background sender. *)
EmptyBufferIsFin == "sender: FIN before close" \notin failure

(* self.send(fin_buf).expect("send failed") in close. *)
CloseCanSend == "close: send failed" \notin failure

-----------------------------------------------------------------------------
(***************************************************************************)
(* The state of a connection as it travels in TCPMig fragments: TcpState   *)
(* (tcp/peer.rs), ControlBlockState and ReceiverState (ctrlblk.rs),        *)
(* SenderState (sender.rs), written into a buffer of serialized_size bytes *)
(* and read back.  Numbers are big-endian.  A reader gives what it read    *)
(* and the rest of the buffer.                                             *)
(***************************************************************************)
U16(n) == <<n \div 256, n % 256>>
U32(n) == U16(n \div 65536) \o U16(n % 65536)
ReadU16(b, at) == b[at + 1] * 256 + b[at + 2]
ReadU32(b, at) == ReadU16(b, at) * 65536 + ReadU16(b, at + 2)
Skip(b, n) == SubSeq(b, n + 1, Len(b))
TotalOf(q, Size(_)) == FoldLeft(LAMBDA n, e : n + Size(e), 0, q)

-----------------------------------------------------------------------------
(* Writers. *)

PutBuffer(buf) == U32(Len(buf)) \o buf
PutSeqBuffer(e) == U32(e.start) \o PutBuffer(e.buf)
PutDeque(q, Put(_)) == U32(Len(q)) \o FlattenSeq([i \in DOMAIN q |-> Put(q[i])])
PutFin(fin) == IF fin = None THEN <<0>> ELSE <<1>> \o U32(fin)

PutReceiver(r) == U32(r.readerNext) \o U32(r.receiveNext) \o PutDeque(r.recvQueue, PutBuffer)

PutSender(s) ==
    U32(s.unsentSeqNo) \o U32(s.sendUnacked) \o U32(s.sendNext) \o U32(s.sendWindow)
    \o U32(s.windowSeq) \o U32(s.windowAck) \o U32(s.mss) \o <<s.windowScale>>
    \o PutDeque(s.unackedQueue, PutBuffer) \o PutDeque(s.unsentQueue, PutBuffer)

PutCb(c) ==
    c.local.ip \o U16(c.local.port) \o c.remote.ip \o U16(c.remote.port)
    \o U32(c.receiveBufferSize) \o U32(c.windowScale)
    \o PutFin(c.outOfOrderFin) \o PutDeque(c.outOfOrder, PutSeqBuffer) \o PutReceiver(c.receiver) \o PutSender(c.sender)

-----------------------------------------------------------------------------
(* The sizes, computed apart from the writers. *)

BufferSize(buf) == 4 + Len(buf)

ReceiverSize(r) == 8 + 4 + TotalOf(r.recvQueue, BufferSize)

SenderSize(s) == 29 + 4 + TotalOf(s.unackedQueue, BufferSize) + 4 + TotalOf(s.unsentQueue, BufferSize)

CbSize(c) ==
    20 + 1 + (IF c.outOfOrderFin # None THEN 4 ELSE 0)
    + 4 + TotalOf(c.outOfOrder, LAMBDA e : 4 + BufferSize(e.buf)) + ReceiverSize(c.receiver) + SenderSize(c.sender)

(* app: the bytes of the registered application state, or <<>>. *)
SerializedSize(st) == CbSize(st.cb) + 1 + Len(st.app)

Written(st) == PutCb(st.cb) \o (IF st.app = <<>> THEN <<0>> ELSE <<1>> \o st.app)

(* Writing past the buffer panics; what is not written stays 0. *)
Overruns(st) == Len(Written(st)) > SerializedSize(st)
Serialize(st) == Written(st) \o [i \in 1 .. SerializedSize(st) - Len(Written(st)) |-> 0]

-----------------------------------------------------------------------------
(* Readers. *)

Read(val, rest) == [val |-> val, rest |-> rest]

GetBuffer(b) == LET n == ReadU32(b, 0) IN Read(SubSeq(b, 5, 4 + n), Skip(b, 4 + n))
GetSeqBuffer(b) == LET r == GetBuffer(Skip(b, 4)) IN Read([start |-> ReadU32(b, 0), buf |-> r.val], r.rest)
GetDeque(b, Get(_)) ==
    FoldLeft(LAMBDA acc, i : LET e == Get(acc.rest) IN Read(Append(acc.val, e.val), e.rest),
             Read(<<>>, Skip(b, 4)), [i \in 1 .. ReadU32(b, 0) |-> i])
GetFin(b) == IF b[1] = 0 THEN Read(None, Skip(b, 1)) ELSE Read(ReadU32(b, 1), Skip(b, 5))

GetReceiver(b) ==
    LET q == GetDeque(Skip(b, 8), GetBuffer)
    IN Read([readerNext |-> ReadU32(b, 0), receiveNext |-> ReadU32(b, 4), recvQueue |-> q.val], q.rest)

GetSender(b) ==
    LET unacked == GetDeque(Skip(b, 29), GetBuffer)
        unsent == GetDeque(unacked.rest, GetBuffer)
    IN Read([unsentSeqNo |-> ReadU32(b, 0), sendUnacked |-> ReadU32(b, 4), sendNext |-> ReadU32(b, 8),
             sendWindow |-> ReadU32(b, 12), windowSeq |-> ReadU32(b, 16), windowAck |-> ReadU32(b, 20),
             mss |-> ReadU32(b, 24), windowScale |-> b[29], unackedQueue |-> unacked.val, unsentQueue |-> unsent.val],
            unsent.rest)

GetCb(b) ==
    LET fin == GetFin(Skip(b, 20))
        ooo == GetDeque(fin.rest, GetSeqBuffer)
        receiver == GetReceiver(ooo.rest)
        sender == GetSender(receiver.rest)
    IN Read([local |-> [ip |-> SubSeq(b, 1, 4), port |-> ReadU16(b, 4)],
             remote |-> [ip |-> SubSeq(b, 7, 10), port |-> ReadU16(b, 10)],
             receiveBufferSize |-> ReadU32(b, 12), windowScale |-> ReadU32(b, 16),
             outOfOrderFin |-> fin.val, outOfOrder |-> ooo.val, receiver |-> receiver.val, sender |-> sender.val],
            sender.rest)

Deserialize(b) == LET cb == GetCb(b) IN [cb |-> cb.val, app |-> IF cb.rest[1] = 0 THEN <<>> ELSE Skip(cb.rest, 1)]

-----------------------------------------------------------------------------

CONSTANTS
    AppState,      \* bytes of the application state registered for the connection
    MaxMoves       \* bound: migrations

VARIABLES
    app,           \* application state at the end that migrates
    moves,
    overrun        \* TRUE: serialize wrote past its buffer

movedvars == <<vars, app, moves, overrun>>

Local == [ip |-> <<10, 0, 1, 8>>, port |-> 10000]
Target == [ip |-> <<10, 0, 1, 9>>, port |-> 10001]
Remote == [ip |-> <<10, 0, 1, 7>>, port |-> 201]

IdleReceiver == [readerNext |-> PeerSeq, receiveNext |-> PeerSeq, recvQueue |-> <<>>]
IdleSender ==
    [unsentSeqNo |-> PeerSeq, sendUnacked |-> PeerSeq, sendNext |-> PeerSeq, sendWindow |-> InitialWindow,
     windowSeq |-> 0, windowAck |-> 0, mss |-> Mss, windowScale |-> 0, unackedQueue |-> <<>>, unsentQueue |-> <<>>]

ReceiverState == [readerNext |-> readerNext, receiveNext |-> receiveNext, recvQueue |-> recvQueue]
SenderState ==
    [unsentSeqNo |-> unsentSeqNo, sendUnacked |-> sendUnacked, sendNext |-> sendNext, sendWindow |-> sendWindow,
     windowSeq |-> windowSeq, windowAck |-> windowAck, mss |-> Mss, windowScale |-> 0,
     unackedQueue |-> unackedQueue, unsentQueue |-> unsentQueue]

ControlBlockState(fin, ooo, receiver, sender) ==
    [local |-> Local, remote |-> Remote, receiveBufferSize |-> ReceiveBufferSize, windowScale |-> 0,
     outOfOrderFin |-> fin, outOfOrder |-> ooo, receiver |-> receiver, sender |-> sender]

SendingEnd == [cb |-> ControlBlockState(None, <<>>, IdleReceiver, SenderState), app |-> app]
ReceivingEnd == [cb |-> ControlBlockState(outOfOrderFin, outOfOrder, ReceiverState, IdleSender), app |-> app]

(* serialize at the source, deserialize and set_local at the target. *)
Carried(end) == [Deserialize(Serialize(end)) EXCEPT !.cb.local = Target]

(* Mutant: what was not sent yet stays behind. *)
MutSenderFromState(s) ==
    /\ sendUnacked' = s.sendUnacked /\ sendNext' = s.sendNext /\ unsentSeqNo' = s.sendNext
    /\ unackedQueue' = s.unackedQueue /\ unsentQueue' = <<>>
    /\ sendWindow' = s.sendWindow /\ windowSeq' = s.windowSeq /\ windowAck' = s.windowAck
    /\ userIsDoneSending' = FALSE
    /\ retransmitDeadline' = FALSE
    /\ bg' = "top" /\ probe' = NoProbe /\ windowChanged' = FALSE
    /\ UNCHANGED <<wire, pushed, failure>>
SenderFromState(s) ==
    /\ sendUnacked' = s.sendUnacked /\ sendNext' = s.sendNext /\ unsentSeqNo' = s.unsentSeqNo
    /\ unackedQueue' = s.unackedQueue /\ unsentQueue' = s.unsentQueue
    /\ sendWindow' = s.sendWindow /\ windowSeq' = s.windowSeq /\ windowAck' = s.windowAck
    /\ userIsDoneSending' = FALSE
    /\ retransmitDeadline' = FALSE
    /\ bg' = "top" /\ probe' = NoProbe /\ windowChanged' = FALSE
    /\ UNCHANGED <<wire, pushed, failure>>

MigrateSender ==
    LET st == Carried(SendingEnd) IN
    /\ moves < MaxMoves /\ ~userIsDoneSending
    /\ SenderFromState(st.cb.sender)
    /\ app' = st.app
    /\ overrun' = (overrun \/ Overruns(SendingEnd))
    /\ moves' = moves + 1
    /\ UNCHANGED <<rvars, netvars>>

ReceiverFromState(c) ==
    /\ readerNext' = c.receiver.readerNext /\ receiveNext' = c.receiver.receiveNext
    /\ recvQueue' = c.receiver.recvQueue
    /\ outOfOrder' = c.outOfOrder /\ outOfOrderFin' = c.outOfOrderFin
    /\ rxState' = "Established" /\ ackDeadline' = FALSE
    /\ waker' = None /\ reader' = [r \in Readers |-> "running"]
    /\ UNCHANGED <<acked, acksOut, pos, asserted>>

MigrateReceiver ==
    LET st == Carried(ReceivingEnd) IN
    /\ moves < MaxMoves
    /\ ReceiverFromState(st.cb)
    /\ app' = st.app
    /\ overrun' = (overrun \/ Overruns(ReceivingEnd))
    /\ moves' = moves + 1
    /\ UNCHANGED <<svars, netvars>>

MovedInit == Init /\ app = AppState /\ moves = 0 /\ overrun = FALSE

MovedNext == MigrateSender \/ MigrateReceiver \/ (Next /\ UNCHANGED <<app, moves, overrun>>)

MovedSpec == MovedInit /\ [][MovedNext]_movedvars
MovedFair == MovedSpec /\ Fairness

(* The connection stays open. *)
MovedOpen == MovedSpec /\ OpenFairness

-----------------------------------------------------------------------------
(***************************************************************************)
(* The target has the very state the source had, whatever is queued,       *)
(* unacknowledged or out of order, the application state with it; and      *)
(* serialized_size is what serialize writes.                               *)
(***************************************************************************)
StateCarried ==
    [][moves' # moves =>
          /\ SenderState' = SenderState /\ ReceiverState' = ReceiverState
          /\ outOfOrder' = outOfOrder /\ outOfOrderFin' = outOfOrderFin
          /\ app' = app /\ ~overrun']_movedvars

(***************************************************************************)
(* The reader's place and receive_next are as far apart as the receive     *)
(* queue is long (the FIN apart): no migration of the receiving end makes  *)
(* it read twice or skip.                                                  *)
(***************************************************************************)
ReaderKeepsPlace == SeqSub(receiveNext, readerNext) - Len(FlattenSeq(recvQueue)) \in {0, 1}
=============================================================================
