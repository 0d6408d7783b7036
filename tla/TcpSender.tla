----------------------------- MODULE TcpSender -----------------------------
(***************************************************************************)
(* The sending half of an established TCP connection: Sender, the          *)
(* background sender and the retransmitter, with the congestion control    *)
(* that connections are created with (congestion_control::None, whose      *)
(* window is unlimited) and the peer's link address in the ARP cache.      *)
(* Bytes of the stream are their positions 1, 2, ...; an empty buffer is   *)
(* the end-of-send marker.                                                 *)
(***************************************************************************)
EXTENDS SeqNumber, Sequences, FiniteSets, SequencesExt

CONSTANTS
    SenderSeq,          \* sequence number of the first byte
    InitialWindow,      \* send window learnt in the handshake
    Mss,
    UnsentQueueCutoff   \* UNSENT_QUEUE_CUTOFF

VARIABLES
    sendUnacked, sendNext, unsentSeqNo,
    unackedQueue, unsentQueue,      \* sequences of buffers
    sendWindow, windowSeq, windowAck,
    userIsDoneSending,
    retransmitDeadline,             \* TRUE: the retransmission timer runs
    bg,                             \* background sender: "top", "probing"
    probe,                          \* the segment it probes with
    windowChanged,                  \* send_window was set since it began to probe
    wire,                           \* segments in flight to the peer
    pushed,                         \* history: bytes accepted from the user
    failure                         \* assertions that have failed

svars == <<sendUnacked, sendNext, unsentSeqNo, unackedQueue, unsentQueue, sendWindow, windowSeq, windowAck,
           userIsDoneSending, retransmitDeadline, bg, probe, windowChanged, wire, pushed, failure>>

-----------------------------------------------------------------------------

NoProbe == [seq |-> SenderSeq, data |-> <<>>, fin |-> FALSE]

(* Mutant: the FIN takes no sequence number. *)
MutSeqLen(buf) == Len(buf)

SeqLen(buf) == IF buf = <<>> THEN 1 ELSE Len(buf)

InFlight == SeqSub(sendNext, sendUnacked)

SegmentOf(seq, buf) == [seq |-> seq, data |-> buf, fin |-> buf = <<>>]

Failed(what) == failure' = failure \cup {what}

CanSendNow(buf) ==
    /\ unsentQueue = <<>>
    /\ sendWindow > 0
    /\ sendWindow >= InFlight + Len(buf)


(* Sender::send: at once if the window allows it and nothing is queued,    *)
(* else through the unsent queue.                                          *)
SendImmediately(buf) ==
    /\ CanSendNow(buf)
    /\ wire' = wire \cup {SegmentOf(sendNext, buf)}
    /\ sendNext' = SeqAdd(sendNext, SeqLen(buf))
    /\ unsentSeqNo' = SeqAdd(unsentSeqNo, SeqLen(buf))
    /\ unackedQueue' = Append(unackedQueue, buf)
    /\ retransmitDeadline' = TRUE
    /\ UNCHANGED unsentQueue

QueueUnsent(buf) ==
    /\ ~CanSendNow(buf)
    /\ Len(unsentQueue) <= UnsentQueueCutoff
    /\ unsentQueue' = Append(unsentQueue, buf)
    /\ unsentSeqNo' = SeqAdd(unsentSeqNo, Len(buf))
    /\ UNCHANGED <<wire, sendNext, unackedQueue, retransmitDeadline>>

(* "too many packets to send" *)
IsBusy(buf) == ~CanSendNow(buf) /\ Len(unsentQueue) > UnsentQueueCutoff

(* The user pushes the next n bytes; an error leaves everything alone. *)
Push(n) ==
    /\ ~userIsDoneSending
    /\ LET buf == [i \in 1 .. n |-> pushed + i] IN SendImmediately(buf) \/ QueueUnsent(buf)
    /\ pushed' = pushed + n
    /\ UNCHANGED <<sendUnacked, sendWindow, windowSeq, windowAck, userIsDoneSending, bg, probe, windowChanged, failure>>

(* ControlBlock::close, which expects send to succeed. *)
Close ==
    /\ ~userIsDoneSending
    /\ \/ SendImmediately(<<>>) /\ UNCHANGED failure
       \/ QueueUnsent(<<>>) /\ UNCHANGED failure
       \/ /\ IsBusy(<<>>)
          /\ Failed("close: send failed")
          /\ UNCHANGED <<wire, sendNext, unsentSeqNo, unackedQueue, unsentQueue, retransmitDeadline>>
    /\ userIsDoneSending' = TRUE
    /\ UNCHANGED <<sendUnacked, sendWindow, windowSeq, windowAck, bg, probe, windowChanged, pushed>>

-----------------------------------------------------------------------------
(* The background sender.  It waits until a watched value changes, so it   *)
(* goes on when its condition holds.                                       *)

HasUnsent == bg = "top" /\ sendNext # unsentSeqNo

(* A zero window: one byte is taken off the first unsent buffer, which     *)
(* stays in the queue, and sent as a probe.                                *)
ProbeZeroWindow ==
    /\ HasUnsent
    /\ sendWindow = 0
    /\ unsentQueue # <<>> /\ Head(unsentQueue) # <<>>
    /\ LET buf == SubSeq(Head(unsentQueue), 1, 1) IN
         /\ unsentQueue' = [unsentQueue EXCEPT ![1] = Tail(@)]
         /\ unackedQueue' = Append(unackedQueue, buf)
         /\ probe' = SegmentOf(sendNext, buf)
         /\ wire' = wire \cup {SegmentOf(sendNext, buf)}
    /\ sendNext' = SeqAdd(sendNext, 1)
    /\ bg' = "probing"
    /\ windowChanged' = FALSE
    /\ UNCHANGED <<sendUnacked, unsentSeqNo, sendWindow, windowSeq, windowAck, userIsDoneSending,
                   retransmitDeadline, pushed, failure>>

(* The probe timer, doubled each time. *)
ProbeAgain ==
    /\ bg = "probing"
    /\ ~windowChanged
    /\ wire' = wire \cup {probe}
    /\ UNCHANGED <<sendUnacked, sendNext, unsentSeqNo, unackedQueue, unsentQueue, sendWindow, windowSeq, windowAck,
                   userIsDoneSending, retransmitDeadline, bg, probe, windowChanged, pushed, failure>>

StopProbing ==
    /\ bg = "probing"
    /\ windowChanged
    /\ bg' = "top"
    /\ probe' = NoProbe
    /\ windowChanged' = FALSE
    /\ UNCHANGED <<sendUnacked, sendNext, unsentSeqNo, unackedQueue, unsentQueue, sendWindow, windowSeq, windowAck,
                   userIsDoneSending, retransmitDeadline, wire, pushed, failure>>

(* No room: wait for a change. *)
NoRoom == sendWindow <= InFlight + Len(Head(unsentQueue))

MinOf(a, b) == IF a < b THEN a ELSE b

(* Room for more than the first unsent buffer: a segment of it is sent.    *)
(* An empty one goes out as FIN; a debug build asserts that the user has   *)
(* closed.                                                                 *)
SendUnsent ==
    /\ HasUnsent
    /\ sendWindow > 0
    /\ unsentQueue # <<>>
    /\ ~NoRoom
    /\ LET first == Head(unsentQueue)
           size  == MinOf(MinOf(sendWindow - InFlight, Mss), Len(first))
           buf   == SubSeq(first, 1, size)
       IN /\ unsentQueue' = IF size < Len(first)
                            THEN [unsentQueue EXCEPT ![1] = SubSeq(@, size + 1, Len(@))]
                            ELSE Tail(unsentQueue)
          /\ wire' = wire \cup {SegmentOf(sendNext, buf)}
          /\ sendNext' = SeqAdd(sendNext, SeqLen(buf))
          /\ unackedQueue' = Append(unackedQueue, buf)
          /\ IF buf = <<>> /\ ~userIsDoneSending THEN Failed("sender: FIN before close") ELSE UNCHANGED failure
    /\ retransmitDeadline' = TRUE
    /\ UNCHANGED <<sendUnacked, unsentSeqNo, sendWindow, windowSeq, windowAck, userIsDoneSending, bg, probe,
                   windowChanged, pushed>>

(* The sequence numbers say that data is unsent, the queue has none: the   *)
(* coroutine panics.                                                       *)
SenderPanics ==
    /\ HasUnsent
    /\ unsentQueue = <<>> \/ (sendWindow = 0 /\ Head(unsentQueue) = <<>>)
    /\ Failed("sender: no unsent data")
    /\ UNCHANGED <<sendUnacked, sendNext, unsentSeqNo, unackedQueue, unsentQueue, sendWindow, windowSeq, windowAck,
                   userIsDoneSending, retransmitDeadline, bg, probe, windowChanged, wire, pushed>>

(* The retransmission timer: the earliest unacknowledged segment again. *)
Retransmit ==
    /\ retransmitDeadline
    /\ unackedQueue # <<>>
    /\ wire' = wire \cup {SegmentOf(sendUnacked, Head(unackedQueue))}
    /\ UNCHANGED <<sendUnacked, sendNext, unsentSeqNo, unackedQueue, unsentQueue, sendWindow, windowSeq, windowAck,
                   userIsDoneSending, retransmitDeadline, bg, probe, windowChanged, pushed, failure>>

-----------------------------------------------------------------------------
(* remove_acknowledged_data *)
RECURSIVE RemoveAcknowledged(_, _)
RemoveAcknowledged(queue, n) ==
    IF n = 0 \/ queue = <<>>
    THEN queue
    ELSE IF Len(Head(queue)) > n
         THEN <<SubSeq(Head(queue), n + 1, Len(Head(queue)))>> \o Tail(queue)
         ELSE RemoveAcknowledged(Tail(queue), IF Head(queue) = <<>> THEN 0 ELSE n - Len(Head(queue)))

(* update_send_window: not from an older segment than the last update. *)
UpdatesWindow(a) == SeqLt(windowSeq, a.seq) \/ (windowSeq = a.seq /\ SeqLe(windowAck, a.ack))

(* The ACK processing of ControlBlock::receive.  An ACK that acknowledges  *)
(* nothing new is ignored, its window included.                            *)
ReceiveAck(a) ==
    /\ IF SeqLt(sendUnacked, a.ack) /\ SeqLe(a.ack, sendNext)
       THEN /\ unackedQueue' = RemoveAcknowledged(unackedQueue, SeqSub(a.ack, sendUnacked))
            /\ sendUnacked' = a.ack
            /\ retransmitDeadline' = (a.ack # sendNext)
            /\ IF UpdatesWindow(a)
               THEN /\ sendWindow' = a.window
                    /\ windowSeq' = a.seq
                    /\ windowAck' = a.ack
                    /\ windowChanged' = (bg = "probing")
               ELSE UNCHANGED <<sendWindow, windowSeq, windowAck, windowChanged>>
       ELSE UNCHANGED <<unackedQueue, sendUnacked, retransmitDeadline, sendWindow, windowSeq, windowAck, windowChanged>>
    /\ UNCHANGED <<sendNext, unsentSeqNo, unsentQueue, userIsDoneSending, bg, probe, wire, pushed, failure>>

-----------------------------------------------------------------------------

SenderInit ==
    /\ sendUnacked = SenderSeq /\ sendNext = SenderSeq /\ unsentSeqNo = SenderSeq
    /\ unackedQueue = <<>> /\ unsentQueue = <<>>
    /\ sendWindow = InitialWindow
    /\ windowSeq = SenderSeq /\ windowAck = SenderSeq
    /\ userIsDoneSending = FALSE
    /\ retransmitDeadline = FALSE
    /\ bg = "top" /\ probe = NoProbe /\ windowChanged = FALSE
    /\ wire = {}
    /\ pushed = 0
    /\ failure = {}
=============================================================================
