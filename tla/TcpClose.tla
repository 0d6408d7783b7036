------------------------------ MODULE TcpClose ------------------------------
(***************************************************************************)
(* How a connection ends (ControlBlock in ctrlblk.rs): the states from     *)
(* ESTABLISHED on, close, the FIN in order and out of order, resets and    *)
(* stray SYNs, retransmission and delayed ACKs, at two ends that both run  *)
(* this code over a network that loses, repeats and reorders.  One end may *)
(* migrate to another host, or be a program that aborts.  Each end sends   *)
(* at most Data bytes, one to a segment, then its FIN; sequence numbers    *)
(* count from 0 and the windows are open.                                  *)
(***************************************************************************)
EXTENDS Integers, Sequences, FiniteSets

CONSTANTS
    Ends,        \* the two ends
    Data,        \* bytes an end sends before its FIN
    Aborts,      \* what an aborting end sends: a subset of {"rst", "syn"}
    Migrates,    \* ends whose connection may migrate
    Patient,     \* TRUE: the retransmission timeout is longer than a round trip
    MaxLose, MaxDup   \* bounds: segments lost, repeated

VARIABLES
    conn,        \* the control block of each end
    wire,        \* segments in flight
    lost, dups,
    gone,        \* ends that have aborted
    failed       \* assertions and panics met
vars == <<conn, wire, lost, dups, gone, failed>>

States == {"Established", "FinWait1", "FinWait2", "Closing", "TimeWait", "CloseWait", "LastAck", "Closed"}
Peer(e) == CHOOSE p \in Ends : p # e
NoFin == -1

Init ==
    /\ conn = [e \in Ends |-> [st |-> "Established", una |-> 0, nxt |-> 0, unacked |-> <<>>, rcv |-> 0,
                               oooFin |-> NoFin, ackDue |-> FALSE, done |-> FALSE]]
    /\ wire = {} /\ lost = 0 /\ dups = 0 /\ gone = {} /\ failed = {}

Segment(e, c, seq, len, fin, flag) == [to |-> Peer(e), seq |-> seq, len |-> len, fin |-> fin, ack |-> c.rcv, flag |-> flag]
SegLen(s) == s.len + (IF s.fin THEN 1 ELSE 0) + (IF s.flag = "syn" THEN 1 ELSE 0)
SegEnd(s) == IF SegLen(s) > 0 THEN s.seq + SegLen(s) - 1 ELSE s.seq

(***************************************************************************)
(* emit: the state changes after a FIN has been sent, and the delayed ACK  *)
(* is cancelled.                                                           *)
(***************************************************************************)
Emit(c, fin) ==
    [c EXCEPT !.ackDue = FALSE,
              !.st = IF ~fin THEN @ ELSE CASE @ = "Established" -> "FinWait1" [] @ = "CloseWait" -> "LastAck" [] OTHER -> @]
Nonsensical(c, fin) == IF fin /\ c.st \notin {"Established", "CloseWait", "FinWait1", "LastAck"} THEN {"nonsensical FIN"} ELSE {}

SendAck(e, c) == [c |-> Emit(c, FALSE), out |-> {Segment(e, c, c.nxt, 0, FALSE, "none")}, bad |-> {}]
Quiet(c) == [c |-> c, out |-> {}, bad |-> {}]

Send(e, fin) ==
    LET c == conn[e]
        sent == [c EXCEPT !.nxt = @ + 1, !.unacked = Append(@, fin)]
    IN [c |-> Emit(sent, fin), out |-> {Segment(e, c, c.nxt, IF fin THEN 0 ELSE 1, fin, "none")}, bad |-> Nonsensical(c, fin)]

Effect(e, r) ==
    /\ conn' = [conn EXCEPT ![e] = r.c]
    /\ failed' = failed \cup r.bad

Push(e) ==
    /\ e \notin gone /\ ~conn[e].done /\ conn[e].nxt < Data
    /\ Effect(e, Send(e, FALSE))
    /\ wire' = wire \cup Send(e, FALSE).out
    /\ UNCHANGED <<lost, dups, gone>>

Close(e) ==
    LET r == Send(e, TRUE)
        asserted == IF conn[e].st \in {"Established", "CloseWait"} THEN {} ELSE {"close in a wrong state"}
    IN /\ e \notin gone /\ ~conn[e].done
       /\ Effect(e, [r EXCEPT !.c.done = TRUE, !.bad = @ \cup asserted])
       /\ wire' = wire \cup r.out
       /\ UNCHANGED <<lost, dups, gone>>

Retransmit(e) ==
    LET c == conn[e]
        fin == Head(c.unacked)
    IN /\ e \notin gone /\ c.unacked # <<>>
       /\ Patient => wire = {}
       /\ Effect(e, [c |-> Emit(c, fin), bad |-> Nonsensical(c, fin)])
       /\ wire' = wire \cup {Segment(e, c, c.una, IF fin THEN 0 ELSE 1, fin, "none")}
       /\ UNCHANGED <<lost, dups, gone>>

Acknowledge(e) ==
    /\ e \notin gone /\ conn[e].ackDue
    /\ Effect(e, SendAck(e, conn[e]))
    /\ wire' = wire \cup SendAck(e, conn[e]).out
    /\ UNCHANGED <<lost, dups, gone>>

(***************************************************************************)
(* receive, part by part.                                                  *)
(***************************************************************************)
ProcessRst(c) == IF c.st = "Closed" THEN c ELSE [c EXCEPT !.st = "Closed"]
ProcessSyn(c) == [c EXCEPT !.st = "Closed"]

AllAcked(c) ==
    CASE c.st = "FinWait1" -> [c EXCEPT !.st = "FinWait2"]
      [] c.st = "Closing" -> [c EXCEPT !.st = "TimeWait"]
      [] c.st = "LastAck" -> [c EXCEPT !.st = "Closed"]
      [] OTHER -> c

ProcessAck(c, ack) ==
    IF c.una < ack
    THEN LET d == [c EXCEPT !.unacked = SubSeq(@, ack - c.una + 1, Len(@)), !.una = ack] IN
         IF ack = c.nxt THEN AllAcked(d) ELSE d
    ELSE c

Receives(c) == c.st \in {"Established", "FinWait1", "FinWait2"}

OutOfOrder(e, c, s) ==
    IF SegLen(s) > 0 /\ Receives(c)
    THEN SendAck(e, IF s.fin THEN [c EXCEPT !.oooFin = SegEnd(s)] ELSE c)
    ELSE Quiet(c)

ProcessFin(e, c) ==
    LET d == [c EXCEPT !.rcv = @ + 1] IN
    CASE c.st = "Established" -> SendAck(e, [d EXCEPT !.st = "CloseWait"])
      [] c.st = "FinWait1" -> SendAck(e, [d EXCEPT !.st = "Closing"])
      [] c.st = "FinWait2" -> SendAck(e, [d EXCEPT !.st = "TimeWait"])
      [] c.st \in {"CloseWait", "Closing", "LastAck", "TimeWait"} -> SendAck(e, d)
      [] c.st = "Closed" -> [Quiet(d) EXCEPT !.bad = {"bad TCP state"}]

InOrder(e, c, s) ==
    LET takes == s.len > 0 /\ Receives(c)
        d == IF takes THEN [c EXCEPT !.rcv = @ + 1] ELSE c
        fin == s.fin \/ (takes /\ d.rcv = d.oooFin)
    IN IF fin THEN ProcessFin(e, d)
       ELSE IF ~takes THEN Quiet(d)
       ELSE IF d.ackDue THEN SendAck(e, d)
       ELSE Quiet([d EXCEPT !.ackDue = TRUE])

Handle(e, c, s) ==
    IF s.seq < c.rcv /\ SegEnd(s) < c.rcv THEN (IF s.flag = "rst" THEN Quiet(c) ELSE SendAck(e, c))
    ELSE IF s.flag = "rst" THEN Quiet(ProcessRst(c))
    ELSE IF s.flag = "syn" THEN Quiet(ProcessSyn(c))
    ELSE IF c.una < s.ack /\ s.ack > c.nxt THEN SendAck(e, c)
    ELSE LET d == ProcessAck(c, s.ack) IN
         IF s.seq # c.rcv THEN OutOfOrder(e, d, s) ELSE InOrder(e, d, s)

Receive(e) ==
    \E s \in wire, again \in BOOLEAN :
        LET r == Handle(e, conn[e], s) IN
        /\ s.to = e
        /\ again => dups < MaxDup
        /\ dups' = IF again THEN dups + 1 ELSE dups
        /\ IF e \in gone THEN UNCHANGED <<conn, failed>> ELSE Effect(e, r)
        /\ wire' = (IF again THEN wire ELSE wire \ {s}) \cup (IF e \in gone THEN {} ELSE r.out)
        /\ UNCHANGED <<lost, gone>>

Lose ==
    /\ lost < MaxLose
    /\ \E s \in wire : wire' = wire \ {s}
    /\ lost' = lost + 1
    /\ UNCHANGED <<conn, dups, gone, failed>>

(***************************************************************************)
(* The program at the other end gives up, or starts anew from the port.    *)
(***************************************************************************)
Abort(e) ==
    \E flag \in Aborts :
        /\ gone = {}
        /\ gone' = {e}
        /\ wire' = wire \cup {Segment(e, conn[e], conn[e].nxt, 0, FALSE, flag)}
        /\ UNCHANGED <<conn, lost, dups, failed>>

(***************************************************************************)
(* from_state: a migrated connection starts as ESTABLISHED, with no timer  *)
(* and no delayed ACK.  (Its retransmission timer is TcpMoved's matter.)   *)
(***************************************************************************)
Migrate(e) ==
    /\ e \in Migrates \ gone /\ ~conn[e].done
    /\ conn' = [conn EXCEPT ![e].st = "Established", ![e].ackDue = FALSE]
    /\ UNCHANGED <<wire, lost, dups, gone, failed>>

Next ==
    \/ Lose
    \/ \E e \in Ends : Push(e) \/ Close(e) \/ Retransmit(e) \/ Acknowledge(e) \/ Receive(e) \/ Abort(e) \/ Migrate(e)

Spec == Init /\ [][Next]_vars

(***************************************************************************)
(* Both users close, timers expire, coroutines are polled, and the network *)
(* delivers what it does not lose.                                         *)
(***************************************************************************)
Fairness ==
    \A e \in Ends :
        /\ WF_vars(Close(e)) /\ WF_vars(Retransmit(e)) /\ WF_vars(Acknowledge(e)) /\ WF_vars(Receive(e))
FairSpec == Spec /\ Fairness

-----------------------------------------------------------------------------
FinSent(e) == conn[e].done
FinAcked(e) == FinSent(e) /\ conn[e].una = conn[e].nxt
FinReceived(e) == FinSent(Peer(e)) /\ conn[e].rcv = conn[Peer(e)].nxt

(***************************************************************************)
(* The state of an end says which FINs were sent, acknowledged and         *)
(* received, whoever closed first and in whatever order segments came.     *)
(* ("depending upon whether we've received a FIN from our peer yet", close)*)
(***************************************************************************)
MayBe(sent, acked, received) ==
    CASE ~sent /\ ~received -> {"Established"}
      [] ~sent /\ received -> {"CloseWait"}
      [] sent /\ ~acked /\ ~received -> {"FinWait1"}
      [] acked /\ ~received -> {"FinWait2"}
      [] sent /\ ~acked /\ received -> {"Closing", "LastAck"}
      [] acked /\ received -> {"TimeWait", "Closed"}
StateMatches == \A e \in Ends : conn[e].st \in MayBe(FinSent(e), FinAcked(e), FinReceived(e))

(***************************************************************************)
(* An end gives its state up only when the other end has all there is:     *)
(* CLOSED after the exchange of FINs means nothing is left to retransmit,  *)
(* and TIME-WAIT is entered by at least one end.                           *)
(***************************************************************************)
SafeToForget ==
    /\ \A e \in Ends : conn[e].st = "Closed" =>
         conn[e].unacked = <<>> /\ conn[Peer(e)].rcv = conn[e].nxt /\ conn[Peer(e)].st = "TimeWait"
    /\ ~\A e \in Ends : conn[e].st = "Closed"

(***************************************************************************)
(* Both ends come to the end of the connection.                            *)
(***************************************************************************)
EndsEventually == <>[](\A e \in Ends : conn[e].st \in {"TimeWait", "Closed"})

(***************************************************************************)
(* A reset or a stray SYN ends the connection for good: the end that got   *)
(* it never leaves CLOSED again.                                           *)
(***************************************************************************)
ClosedIsFinal == [][\A e \in Ends : conn[e].st = "Closed" => conn'[e].st = "Closed"]_vars

(***************************************************************************)
(* "Our peer has given up.  Shut the connection down hard." (receive):     *)
(* a closed end sends no data or FIN any more.                             *)
(***************************************************************************)
ShutDownHard ==
    [][\A e \in Ends : conn[e].st = "Closed" => \A s \in wire' \ wire : s.to = Peer(e) => SegLen(s) = 0]_vars

(***************************************************************************)
(* debug_assert of close: "we'll be in either ESTABLISHED or CLOSE_WAIT    *)
(* here".                                                                  *)
(***************************************************************************)
CloseInRightState == "close in a wrong state" \notin failed

(***************************************************************************)
(* panic of receive: "Should never happen."                                *)
(***************************************************************************)
NoBadState == "bad TCP state" \notin failed

(***************************************************************************)
(* "We shouldn't be sending a FIN from any other state." (emit)            *)
(***************************************************************************)
FinFromRightState == "nonsensical FIN" \notin failed
=============================================================================
