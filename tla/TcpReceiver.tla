---------------------------- MODULE TcpReceiver ----------------------------
(***************************************************************************)
(* The receiving half of an established TCP connection (ControlBlock):     *)
(* the acceptance test and the trimming of a segment, the out-of-order     *)
(* store, the receive queue, the delayed ACK and the readers that wait in  *)
(* poll_recv.  Every byte of the peer's stream is known by its position    *)
(* 1, 2, ..., its sequence number by that position modulo SeqSpace.  The   *)
(* peer is a correct one that may cut its stream into segments as it       *)
(* likes, repeat them and send them in any order.                          *)
(***************************************************************************)
EXTENDS SeqNumber, Sequences, FiniteSets, SequencesExt

CONSTANTS
    InitialSeq,         \* sequence number of the first byte of the stream
    ReceiveBufferSize,
    MaxOutOfOrder,      \* MAX_OUT_OF_ORDER
    AcksInFlight,       \* bound: one more ACK drops those in flight
    Readers,            \* coroutines that pop from the connection
    None

VARIABLES
    readerNext, receiveNext,
    recvQueue,          \* buffers: sequences of stream positions
    outOfOrder,         \* sequence of [start, buf]
    outOfOrderFin,
    rxState,            \* "Established" or "CloseWait"
    ackDeadline,        \* TRUE: a delayed ACK is scheduled
    acked,              \* history: acknowledgement number last sent
    acksOut,            \* ACKs in flight: [ack, window]
    waker,              \* the reader whose waker is registered, or None
    reader,             \* reader -> "running" | "waiting" (not to be polled)
    pos,                \* history: bytes pushed onto the receive queue
    asserted            \* TRUE: the debug_assert of receive failed

rvars == <<readerNext, receiveNext, recvQueue, outOfOrder, outOfOrderFin, rxState, ackDeadline,
           acked, acksOut, waker, reader, pos, asserted>>

-----------------------------------------------------------------------------
(* Segments and the window. *)

ReceiveWindowOf(next, rdr) == ReceiveBufferSize - SeqSub(next, rdr)

ReceiveWindow == ReceiveWindowOf(receiveNext, readerNext)

SegLen(s) == Len(s.data) + (IF s.fin THEN 1 ELSE 0)

SegEnd(s) == IF SegLen(s) > 0 THEN SeqAdd(s.seq, SegLen(s) - 1) ELSE s.seq

AfterWindow == SeqAdd(receiveNext, ReceiveWindow)

IsDuplicate(s) == s.seq # receiveNext /\ SeqLt(s.seq, receiveNext) /\ SeqLt(SegEnd(s), receiveNext)

IsBeyondWindow(s) == s.seq # receiveNext /\ ~SeqLt(s.seq, receiveNext) /\ SeqGe(s.seq, AfterWindow)

(* Mutant: the segment is moved to receive_next but keeps its old bytes. *)
MutCutDuplicate(s) == IF SeqLt(s.seq, receiveNext) THEN [s EXCEPT !.seq = receiveNext] ELSE s

(* The old bytes at the front are cut off. *)
CutDuplicate(s) ==
    IF SeqLt(s.seq, receiveNext)
    THEN LET duplicate == SeqSub(receiveNext, s.seq) IN
         [s EXCEPT !.seq = receiveNext, !.data = SubSeq(@, duplicate + 1, Len(@))]
    ELSE s

(* What lies beyond the window, the FIN first, is trimmed. *)
TrimExcess(s) ==
    IF SegLen(s) > 0 /\ SeqGe(SegEnd(s), AfterWindow)
    THEN LET excess == SeqSub(SegEnd(s), AfterWindow) + 1 IN
         [s EXCEPT !.fin = FALSE, !.data = SubSeq(@, 1, Len(@) - (excess - (IF s.fin THEN 1 ELSE 0)))]
    ELSE s

(* seg_end of the trimmed segment, as the code has it. *)
EndAfterTrim(s) ==
    IF SegLen(s) > 0 /\ SeqGe(SegEnd(s), AfterWindow) THEN SeqSub(AfterWindow, 1) ELSE SegEnd(s)

-----------------------------------------------------------------------------
(* The out-of-order store. *)

StoredEnd(e) == SeqAdd(e.start, Len(e.buf) - 1)

NewEnd(new) == SeqAdd(new.start, Len(new.buf) - 1)

(* One pass of the loop in store_out_of_order_segment, from index i: where *)
(* the new segment goes, which entry it encompasses, or that it is a       *)
(* duplicate.                                                              *)
RECURSIVE Place(_, _, _)
Place(store, i, new) ==
    IF i > Len(store)
    THEN [do |-> "insert", at |-> Len(store) + 1, new |-> new]
    ELSE LET e == store[i] IN
         CASE SeqLt(new.start, e.start) /\ SeqLt(NewEnd(new), e.start) ->
                [do |-> "insert", at |-> i, new |-> new]
           [] SeqLt(new.start, e.start) /\ ~SeqLt(NewEnd(new), e.start) /\ SeqLt(StoredEnd(e), NewEnd(new)) ->
                [do |-> "remove", at |-> i, new |-> new]
           [] SeqLt(new.start, e.start) /\ ~SeqLt(NewEnd(new), e.start) /\ ~SeqLt(StoredEnd(e), NewEnd(new)) ->
                LET excess == SeqSub(NewEnd(new), e.start) + 1 IN
                [do |-> "insert", at |-> Len(store) + 1,
                 new |-> [new EXCEPT !.buf = SubSeq(@, 1, Len(@) - excess)]]
           [] ~SeqLt(new.start, e.start) /\ SeqLe(NewEnd(new), StoredEnd(e)) ->
                [do |-> "drop"]
           [] ~SeqLt(new.start, e.start) /\ ~SeqLe(NewEnd(new), StoredEnd(e)) /\ SeqLt(StoredEnd(e), new.start) ->
                Place(store, i + 1, new)
           [] OTHER ->
                LET duplicate == SeqSub(StoredEnd(e), new.start) IN
                Place(store, i + 1, [start |-> SeqAdd(new.start, duplicate),
                                     buf |-> SubSeq(new.buf, duplicate + 1, Len(new.buf))])

RECURSIVE StoreOutOfOrder(_, _)
StoreOutOfOrder(store, new) ==
    LET p == Place(store, 1, new) IN
    CASE p.do = "drop" -> store
      [] p.do = "remove" -> StoreOutOfOrder(RemoveAt(store, p.at), p.new)
      [] p.do = "insert" ->
           LET grown == InsertAt(store, p.at, p.new) IN
           IF Len(grown) > MaxOutOfOrder THEN SubSeq(grown, 1, MaxOutOfOrder) ELSE grown

(* Mutant: an entry that starts before receive_next is taken too. *)
RECURSIVE MutDrain(_, _, _)
MutDrain(queue, store, next) ==
    IF store # <<>> /\ SeqLe(Head(store).start, next)
    THEN MutDrain(Append(queue, Head(store).buf), Tail(store), SeqAdd(next, Len(Head(store).buf)))
    ELSE [queue |-> queue, store |-> store, next |-> next]

(* receive_data moves the entries that have become in order. *)
RECURSIVE Drain(_, _, _)
Drain(queue, store, next) ==
    IF store # <<>> /\ Head(store).start = next
    THEN Drain(Append(queue, Head(store).buf), Tail(store), SeqAdd(next, Len(Head(store).buf)))
    ELSE [queue |-> queue, store |-> store, next |-> next]

-----------------------------------------------------------------------------
(* send_ack: the header carries receive_next and the window; emit cancels  *)
(* the delayed ACK.                                                        *)
SendAck(next, rdr) ==
    /\ acked' = next
    /\ acksOut' = LET a == [ack |-> next, window |-> ReceiveWindowOf(next, rdr)] IN
                  IF Cardinality(acksOut) < AcksInFlight THEN acksOut \cup {a} ELSE {a}
    /\ ackDeadline' = FALSE

KeepQueues ==
    UNCHANGED <<readerNext, receiveNext, recvQueue, outOfOrder, outOfOrderFin, rxState, waker, reader, pos>>

NoAck == UNCHANGED <<ackDeadline, acked, acksOut>>

WakeReader ==
    /\ waker' = None
    /\ reader' = IF waker = None THEN reader ELSE [reader EXCEPT ![waker] = "running"]

(* An acceptable segment that starts after receive_next.  The FIN is       *)
(* remembered apart from the data.                                         *)
OutOfOrderSegment(t, end) ==
    IF SegLen(t) = 0 \/ rxState # "Established"
    THEN KeepQueues /\ NoAck
    ELSE /\ outOfOrderFin' = IF t.fin THEN end ELSE outOfOrderFin
         /\ outOfOrder' = IF t.data # <<>> THEN StoreOutOfOrder(outOfOrder, [start |-> t.seq, buf |-> t.data])
                          ELSE outOfOrder
         /\ SendAck(receiveNext, readerNext)
         /\ UNCHANGED <<readerNext, receiveNext, recvQueue, rxState, waker, reader, pos>>

(* receive_data returns whether an out-of-order FIN has been reached. *)
FinReached(store, next) == Len(store) < Len(outOfOrder) /\ outOfOrderFin = next

(* The first unacknowledged segment starts the delayed-ACK timer, the      *)
(* second one is acknowledged at once.                                     *)
ScheduleAck(next) ==
    IF ~ackDeadline THEN ackDeadline' = TRUE /\ UNCHANGED <<acked, acksOut>> ELSE SendAck(next, readerNext)

(* A segment that starts at receive_next. *)
InOrderSegment(t) ==
    LET takes == t.data # <<>> /\ rxState = "Established"
        got   == IF takes THEN Drain(Append(recvQueue, t.data), outOfOrder, SeqAdd(receiveNext, Len(t.data)))
                 ELSE [queue |-> recvQueue, store |-> outOfOrder, next |-> receiveNext]
        fin   == t.fin \/ (takes /\ FinReached(got.store, got.next))
        next  == IF fin THEN SeqAdd(got.next, 1) ELSE got.next
    IN /\ recvQueue' = got.queue
       /\ outOfOrder' = got.store
       /\ receiveNext' = next
       /\ pos' = pos + SeqSub(got.next, receiveNext)
       /\ rxState' = IF fin THEN "CloseWait" ELSE rxState
       /\ IF takes THEN WakeReader ELSE UNCHANGED <<waker, reader>>
       /\ CASE fin -> SendAck(next, readerNext)
            [] ~fin /\ takes -> ScheduleAck(next)
            [] OTHER -> NoAck
       /\ UNCHANGED <<readerNext, outOfOrderFin>>

(* ControlBlock::receive, for a segment that carries an ACK of what the    *)
(* other half has sent and neither SYN nor RST.                            *)
ReceiveSegment(s) ==
    IF IsDuplicate(s) \/ IsBeyondWindow(s)
    THEN SendAck(receiveNext, readerNext) /\ KeepQueues /\ UNCHANGED asserted
    ELSE LET c == CutDuplicate(s)
             t == TrimExcess(c)
             end == EndAfterTrim(c)
         IN /\ asserted' = (asserted \/ ~(SeqLe(receiveNext, t.seq) /\ SeqLt(end, AfterWindow)))
            /\ IF t.seq # receiveNext THEN OutOfOrderSegment(t, end) ELSE InOrderSegment(t)

(* The acknowledger coroutine, when the deadline has passed. *)
Acknowledge ==
    /\ ackDeadline
    /\ SendAck(receiveNext, readerNext)
    /\ KeepQueues
    /\ UNCHANGED asserted

ReaderNextAfter(buf) == SeqAdd(readerNext, Len(buf))

(* poll_recv by reader r. *)
PollRecv(r) ==
    /\ reader[r] = "running"
    /\ IF recvQueue = <<>>
       THEN /\ waker' = r
            /\ reader' = [reader EXCEPT ![r] = "waiting"]
            /\ UNCHANGED <<readerNext, recvQueue>>
       ELSE /\ readerNext' = ReaderNextAfter(Head(recvQueue))
            /\ recvQueue' = Tail(recvQueue)
            /\ UNCHANGED <<waker, reader>>
    /\ UNCHANGED <<receiveNext, outOfOrder, outOfOrderFin, rxState, ackDeadline, acked, acksOut, pos, asserted>>

-----------------------------------------------------------------------------

ReceiverInit ==
    /\ readerNext = InitialSeq
    /\ receiveNext = InitialSeq
    /\ recvQueue = <<>>
    /\ outOfOrder = <<>>
    /\ outOfOrderFin = None
    /\ rxState = "Established"
    /\ ackDeadline = FALSE
    /\ acked = InitialSeq
    /\ acksOut = {}
    /\ waker = None
    /\ reader = [r \in Readers |-> "running"]
    /\ pos = 0
    /\ asserted = FALSE

-----------------------------------------------------------------------------
(* "Contains in-order received (and acknowledged) data ready for the       *)
(* application to read" (Receiver::recv_queue): the queue holds the bytes  *)
(* of the stream in their order, none missing, none twice, whatever        *)
(* segments overlapped and in whatever order they came.                    *)
InOrder ==
    LET unread == FlattenSeq(recvQueue) IN
    unread = [i \in 1 .. Len(unread) |-> pos - Len(unread) + i]

(* Whatever has been received but not acknowledged has a delayed ACK       *)
(* scheduled: no segment is left for the peer to retransmit for want of an *)
(* ACK (receive, send_ack and the acknowledger share ack_deadline).        *)
AckOwed == acked # receiveNext => ackDeadline

(* get_receive_window_size subtracts unread bytes (and a FIN) from the     *)
(* buffer size in u32: the peer is never given more than the buffer, so    *)
(* the difference never wraps.                                             *)
WindowNeverNegative == ReceiveWindow >= 0

(* A reader that waits for data is woken when there is some.  "This        *)
(* appears to be checking if something is waiting on the receive queue,    *)
(* and if so, wakes that thing up" (receive_data).                         *)
ReaderWoken == recvQueue # <<>> => \A r \in Readers : reader[r] = "running"

(* "The out-of-order store is sorted by starting sequence number, and      *)
(* contains no duplicate data" (store_out_of_order_segment): first half.   *)
StoreSorted ==
    \A i, j \in 1 .. Len(outOfOrder) : i < j => SeqLt(outOfOrder[i].start, outOfOrder[j].start)

(* The second half of that comment. *)
StoreHasNoDuplicates ==
    \A i, j \in 1 .. Len(outOfOrder) :
        i # j => ToSet(outOfOrder[i].buf) \cap ToSet(outOfOrder[j].buf) = {}

(* "Returns true if a previously out-of-order segment containing a FIN has *)
(* now been received" (receive_data): a stored FIN is taken when all data  *)
(* before it has been received.                                            *)
StoredFinTaken == outOfOrderFin # None /\ outOfOrderFin = receiveNext => rxState # "Established"

(* debug_assert!(receive_next <= seg_start && seg_end < after_receive_window) *)
AcceptedInWindow == ~asserted
=============================================================================
