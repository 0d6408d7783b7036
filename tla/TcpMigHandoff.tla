---------------------------- MODULE TcpMigHandoff ---------------------------
(***************************************************************************)
(* Data is read in order and nothing acknowledged is forgotten, wherever a *)
(* connection migrates; application state stays with its connection; and   *)
(* TcpMig implements ConnHandoff.                                          *)
(***************************************************************************)
EXTENDS TcpMigEffects, TcpMigProofs

-----------------------------------------------------------------------------
(* The effect of the actions that receive and read. *)

(* CONN_STATE: the connection arrives with its control block. *)
LEMMA ReceiveConnStateEffect ==
    ASSUME Inductive, Inductive', NEW s \in Server, ReceiveConnState(s)
    PROVE  Effect
<1>1. PICK i \in 1 .. Len(net[Down(s)]) :
         LET m == net[Down(s)][i]
             c == m.client
         IN
         /\ IsNext(s, i, "CONN_STATE")
         /\ ready' = [ready EXCEPT ![s][c] = m.cb]
         /\ TakeAndSend(s, i, [type |-> "CONN_STATE_ACK", client |-> c, src |-> s, dst |-> m.src])
         /\ UNCHANGED <<established, userVars, peerVars>>
  BY ZenonT(60) DEF ReceiveConnState, MigrateIn
<1>2. PICK m : m = net[Down(s)][i]
  OBVIOUS
<1>3. PICK c : c = m.client
  OBVIOUS
<1>4. PICK ack : ack = [type |-> "CONN_STATE_ACK", client |-> c, src |-> s, dst |-> m.src]
  BY ZenonT(60)
<1>5. /\ c \in Client /\ m.src \in Server /\ m.cb \in ControlBlock
      /\ IsStateOf(m, c) /\ \A d \in Client : d # c => ~IsStateOf(m, d)
  BY ZenonT(60), <1>1, <1>2, <1>3, PacketFacts DEF IsNext, IsStateOf
<1>6. ack \in Packet /\ \A d \in Client : ~IsStateOf(ack, d)
  BY <1>4, <1>5 DEF Packet, IsStateOf
<1>7. /\ TakeAndSend(s, i, ack)
      /\ ready' = [ready EXCEPT ![s][c] = m.cb]
      /\ UNCHANGED <<established, delivered, acked>>
  BY ZenonT(60), <1>1, <1>2, <1>3, <1>4 DEF userVars, peerVars
<1>8. /\ ready'[s][c] = m.cb
      /\ \A t \in Server, d \in Client : d # c => ready'[t][d] = ready[t][d]
  BY <1>5, <1>7, ReadyType
<1>9. ASSUME NEW d \in Client \ {c}
      PROVE  Same(d)
  <2>1. SameCarried(net, net', d)
    BY ZenonT(60), <1>2, <1>5, <1>6, <1>7, TakeAndSendCarried
  <2> QED
    BY <1>7, <1>8, <2>1, SameStep DEF SameData
<1>10. Arrives(c)
  <2>1. PlaceOf(c) /\ PlaceOf(c)'
    BY <1>5, PlaceFactsHold, PlaceFactsAfter DEF PlaceFacts
  <2>2. Carried(net, c, m.cb)
    BY ZenonT(60), <1>2, <1>5, LinkFacts DEF Carried
  <2>3. m.cb # None
    BY ZenonT(60), <1>5, NoneAssumption
  <2>4. PICK cb : cb = m.cb
    OBVIOUS
  <2>5. HasAt(s, c, cb)'
    BY <1>8, <2>3, <2>4 DEF HasAt
  <2>6. HolderOf(c) = Transit /\ ControlBlocks(c) = {cb} /\ HolderOf(c)' = s /\ ControlBlocks(c)' = {cb}
    BY ZenonT(60), <2>1, <2>2, <2>4, <2>5 DEF PlaceOf
  <2> QED
    BY <1>7, <2>6 DEF Arrives, SameData
<1> QED
  BY ZenonT(60), <1>5, <1>9, <1>10 DEF Effect, Moves

(* A control block that stays at its server and receives segments. *)
LEMMA ReceiveEffect ==
    ASSUME Inductive, Inductive', NEW s \in Server, NEW c \in Client, NEW cb \in ControlBlock,
           NEW segs \in SUBSET (1 .. MaxSeg), NEW new \in Receive(cb, segs),
           HasAt(s, c, cb), HasAt(s, c, new)', MayAcknowledge(c, new),
           \A t \in Server, d \in Client : d # c =>
               ready'[t][d] = ready[t][d] /\ established'[t][d] = established[t][d],
           \A d \in Client : SameCarried(net, net', d),
           UNCHANGED delivered
    PROVE  Effect
<1>1. acked'[c] \in {acked[c], new.next} /\ \A d \in Client : d # c => acked'[d] = acked[d]
  BY AckedType DEF MayAcknowledge
<1>2. \A d \in Client \ {c} : Same(d)
  BY <1>1, SameStep DEF SameData
<1>3. PlaceOf(c) /\ PlaceOf(c)'
  BY PlaceFactsHold, PlaceFactsAfter DEF PlaceFacts
<1>4. HolderOf(c) = s /\ ControlBlocks(c) = {cb} /\ HolderOf(c)' = s /\ ControlBlocks(c)' = {new}
  BY <1>3 DEF PlaceOf
<1>5. Receives(c)
  BY <1>1, <1>4 DEF Receives
<1> QED
  BY <1>2, <1>5 DEF Effect, Moves

(* ReceiveSegment receives one segment at an established connection. *)
LEMMA ReceiveSegmentEffect ==
    ASSUME Inductive, Inductive', NEW s \in Server, ReceiveSegment(s)
    PROVE  Effect
<1>1. PICK i \in 1 .. Len(net[Down(s)]) :
        \E new \in Receive(established[s][net[Down(s)][i].client], {net[Down(s)][i].seq}) :
        LET m == net[Down(s)][i]
            c == m.client
        IN
        /\ IsNext(s, i, "SEGMENT")
        /\ established[s][c] # None
        /\ established' = [established EXCEPT ![s][c] = new]
        /\ MayAcknowledge(c, new)
        /\ Take(s, i)
        /\ UNCHANGED <<ready, delivered>>
  BY ZenonT(60) DEF ReceiveSegment
<1>2. PICK m : m = net[Down(s)][i]
  OBVIOUS
<1>3. PICK c : c = m.client
  OBVIOUS
<1>4. PICK cb : cb = established[s][c]
  OBVIOUS
<1>5. PICK new \in Receive(cb, {m.seq}) :
         established' = [established EXCEPT ![s][c] = new] /\ MayAcknowledge(c, new)
  BY ZenonT(60), <1>1, <1>2, <1>3, <1>4
<1>6. c \in Client /\ m.seq \in 1 .. MaxSeg /\ \A d \in Client : ~IsStateOf(m, d)
  BY ZenonT(60), <1>1, <1>2, <1>3, PacketFacts DEF IsNext, IsStateOf
<1>7. /\ cb # None
      /\ established' = [established EXCEPT ![s][c] = new]
      /\ MayAcknowledge(c, new)
      /\ Take(s, i)
      /\ UNCHANGED <<ready, delivered>>
  BY ZenonT(60), <1>1, <1>2, <1>3, <1>4, <1>5
<1>8. cb \in ControlBlock
  BY <1>4, <1>6, <1>7, EstablishedType
<1>9. PICK segs \in SUBSET (1 .. MaxSeg) : segs = {m.seq}
  BY ZenonT(60), <1>6
<1>10. new \in Receive(cb, segs) /\ new # None
  BY ZenonT(60), <1>5, <1>8, <1>9, ReceiveShape, NoneAssumption
<1>11. /\ established'[s][c] = new
       /\ \A t \in Server, d \in Client : d # c => established'[t][d] = established[t][d]
  BY <1>6, <1>7, EstablishedType
<1>12. HasAt(s, c, cb) /\ HasAt(s, c, new)'
  BY <1>4, <1>7, <1>10, <1>11 DEF HasAt
<1>13. \A d \in Client : SameCarried(net, net', d)
  <2>1. net \in Nets /\ Down(s) \in Link /\ net' = Removed(net, Down(s), i)
    BY ZenonT(60), <1>7, LinkFacts, NetType DEF Nets, Removed, Take
  <2> QED
    BY ZenonT(60), <1>2, <1>6, <2>1, RemovedCarried
<1> QED
  BY ZenonT(60), <1>6, <1>7, <1>8, <1>10, <1>11, <1>12, <1>13, ReceiveEffect

(* accept receives the segments buffered during the migration. *)
LEMMA AcceptEffect ==
    ASSUME Inductive, Inductive', NEW s \in Server, NEW c \in Client, NEW q \in Qd, Accept(s, c, q)
    PROVE  Effect
<1>1. PICK cb : cb = ready[s][c]
  OBVIOUS
<1>2. PICK segs : segs = Buffered(s, c)
  OBVIOUS
<1>0. PICK new \in Receive(cb, segs) :
         established' = [established EXCEPT ![s][c] = new] /\ MayAcknowledge(c, new)
  BY ZenonT(60), <1>1, <1>2 DEF Accept
<1>3. /\ cb # None
      /\ established' = [established EXCEPT ![s][c] = new]
      /\ MayAcknowledge(c, new)
      /\ ready' = [ready EXCEPT ![s][c] = None]
      /\ UNCHANGED <<net, delivered>>
  BY ZenonT(60), <1>0, <1>1 DEF Accept, userVars
<1>4. cb \in ControlBlock
  BY <1>1, <1>3, ReadyType
<1>5. segs \in SUBSET (1 .. MaxSeg)
  BY <1>2, BufferedType
<1>6. new # None
  BY ZenonT(60), <1>4, <1>5, ReceiveShape, NoneAssumption
<1>7. /\ established'[s][c] = new
      /\ \A t \in Server, d \in Client : d # c =>
            ready'[t][d] = ready[t][d] /\ established'[t][d] = established[t][d]
  BY <1>3, EstablishedType
<1>8. HasAt(s, c, cb) /\ HasAt(s, c, new)'
  BY ZenonT(60), <1>1, <1>3, <1>6, <1>7 DEF HasAt
<1>9. \A d \in Client : SameCarried(net, net', d)
  BY <1>3 DEF SameCarried
<1> QED
  BY ZenonT(60), <1>3, <1>4, <1>5, <1>7, <1>8, <1>9, ReceiveEffect
(* A pop reads the head of the receive queue. *)
LEMMA PollPopEffect ==
    ASSUME Inductive, Inductive', NEW s \in Server, NEW q \in Qd, PollPop(s, q)
    PROVE  Effect
<1>1. PICK c : c = sockets[s][q].conn
  OBVIOUS
<1>2. PICK cb : cb = established[s][c]
  OBVIOUS
<1>3. UNCHANGED <<net, ready, acked>>
  BY ZenonT(60) DEF PollPop, peerVars
<1>4. CASE UNCHANGED <<established, delivered>>
  BY <1>3, <1>4, NoNetEffect DEF Tables
<1>5. CASE /\ IsEstablished(s, q)
           /\ cb.queue # <<>>
           /\ established' = [established EXCEPT ![s][c].queue = Tail(@)]
           /\ delivered' = [delivered EXCEPT ![c] = Append(@, Head(cb.queue))]
  <2>1. c \in Client /\ cb \in ControlBlock /\ cb # None
    BY ZenonT(60), <1>1, <1>2, <1>5, EstablishedFacts, NoneAssumption
  <2>2. PICK tl, hd, new : tl = Tail(cb.queue) /\ hd = Head(cb.queue) /\ new = [cb EXCEPT !.queue = tl]
    BY Zenon
  <2>3. tl \in Seq(Nat) /\ hd \in Nat
    <3>1. cb.queue \in Seq(Nat) /\ cb.queue # <<>>
      BY ZenonT(60), <1>5, <2>1 DEF ControlBlock
    <3> QED
      BY <2>2, <3>1
  <2>4. new \in ControlBlock /\ new.next = cb.next /\ new.queue = Tail(cb.queue)
    BY ZenonT(60), <2>1, <2>2, <2>3 DEF ControlBlock
  <2>5. /\ established' = [established EXCEPT ![s][c] = new]
        /\ delivered' = [delivered EXCEPT ![c] = Append(@, hd)]
    BY ZenonT(60), <1>2, <1>5, <2>2
  <2>6. /\ established'[s][c] = new
        /\ \A t \in Server, d \in Client : d # c => established'[t][d] = established[t][d]
    BY ZenonT(60), <2>1, <2>5, EstablishedType
  <2>7. /\ delivered'[c] = Append(delivered[c], Head(cb.queue))
        /\ \A d \in Client : d # c => delivered'[d] = delivered[d]
    <3>1. delivered \in [Client -> Seq(Nat)]
      BY DeliveredType
    <3> QED
      BY <2>1, <2>2, <2>5, <3>1
  <2>8. \A d \in Client : SameCarried(net, net', d)
    BY ZenonT(60), <1>3 DEF SameCarried
  <2>9. \A d \in Client \ {c} : Same(d)
    BY ZenonT(60), <1>3, <2>6, <2>7, <2>8, SameStep DEF SameData
  <2>10. new # None
    BY <2>4, NoneAssumption
  <2>11. HasAt(s, c, cb) /\ HasAt(s, c, new)'
    BY ZenonT(60), <1>2, <2>1, <2>6, <2>10 DEF HasAt
  <2>12. PlaceOf(c) /\ PlaceOf(c)'
    BY <2>1, PlaceFactsHold, PlaceFactsAfter DEF PlaceFacts
  <2>13. HolderOf(c) = s /\ ControlBlocks(c) = {cb} /\ HolderOf(c)' = s /\ ControlBlocks(c)' = {new}
    BY <2>11, <2>12 DEF PlaceOf
  <2>14. Reads(c)
    BY <1>3, <1>5, <2>1, <2>4, <2>7, <2>13 DEF Reads
  <2> QED
    BY <2>1, <2>9, <2>14 DEF Effect, Moves
<1> QED
  BY ZenonT(60), <1>1, <1>2, <1>4, <1>5 DEF PollPop

(* The other steps of the application change no control block. *)
LEMMA UserEffect ==
    ASSUME Inductive, Inductive', NEW s \in Server, NEW q \in Qd,
           \/ Pop(s, q) \/ Close(s, q)
           \/ RegisterApplicationState(s, q) \/ GetMigratedApplicationState(s, q)
    PROVE  Effect
<1>1. UNCHANGED <<Tables, net>>
  BY ZenonT(60) DEF Pop, Close, RegisterApplicationState, GetMigratedApplicationState,
               Tables, tcpVars, userVars, peerVars
<1> QED
  BY <1>1, NoNetEffect

(* Every step concerns at most one connection. *)
LEMMA StepEffect ==
    ASSUME Inductive, Inductive', [Next]_vars
    PROVE  Effect
<1>1. ASSUME NEW c \in Client, ClientSend(c) \/ ClientRetransmit(c)
      PROVE  Effect
  BY <1>1, ClientEffect
<1>2. ASSUME NEW s \in Server, SwitchForward(s)
      PROVE  Effect
  BY <1>2, SwitchForwardEffect
<1>3. ASSUME NEW s \in Server, Migrate(s)
      PROVE  Effect
  BY ZenonT(60), <1>3, PrepareEffect, ReceivePrepareMigAckEffect, ReceiveConnStateEffect, TakenEffect DEF Migrate
<1>4. ASSUME NEW s \in Server, Data(s)
      PROVE  Effect
  BY ZenonT(60), <1>4, ReceiveSegmentEffect, TakenEffect DEF Data
<1>5. ASSUME NEW s \in Server, User(s)
      PROVE  Effect
  BY ZenonT(120), <1>5, InitiateEffect, UserEffect, PollPopEffect, AcceptEffect DEF User
<1>6. ASSUME NEW s \in Server, Policy(s)
      PROVE  Effect
  BY ZenonT(60), <1>6, InitiateEffect DEF Policy
<1>7. ASSUME NEW l \in Link, Lose(l)
      PROVE  Effect
  <2>1. UNCHANGED Tables
    BY ZenonT(60), <1>7 DEF Lose, Tables, tcpVars, userVars, peerVars
  <2> QED
    BY ZenonT(60), <1>7, <2>1, DropStep DEF Lose
<1>8. CASE UNCHANGED vars
  <2>1. UNCHANGED <<Tables, net>>
    BY <1>8 DEF vars, Tables, tcpVars, userVars, peerVars
  <2> QED
    BY <2>1, NoNetEffect
<1> QED
  BY ZenonT(120), <1>1, <1>2, <1>3, <1>4, <1>5, <1>6, <1>7, <1>8 DEF Next
-----------------------------------------------------------------------------
(* Data. *)

LEMMA ConcatLen ==
    ASSUME NEW p \in Seq(Nat), NEW r \in Seq(Nat)
    PROVE  Len(p \o r) = Len(p) + Len(r)
OBVIOUS

(* The data of one connection, read and unread. *)
DataOf(c) ==
    /\ \A i \in 1 .. Len(delivered[c]) : delivered[c][i] = i
    /\ \A cb \in ControlBlocks(c) :
          /\ cb.next = Len(delivered[c]) + Len(cb.queue)
          /\ \A i \in 1 .. Len(cb.queue) : cb.queue[i] = Len(delivered[c]) + i
          /\ acked[c] <= cb.next

(* A step keeps the data of a connection in order. *)
LEMMA DataStep ==
    ASSUME Inductive, Inductive', NEW c \in Client, Same(c) \/ Moves(c), DataOf(c)
    PROVE  DataOf(c)'
<1>1. delivered[c] \in Seq(Nat) /\ acked[c] \in Nat /\ acked'[c] \in Nat
  BY DEF Inductive, TypeOK
<1>2. CASE Same(c) \/ Departs(c) \/ Arrives(c)
  BY ZenonT(60), <1>2 DEF Same, Departs, Arrives, SameData, DataOf
<1>3. CASE Vanishes(c)
  BY <1>3 DEF Vanishes, SameData, DataOf
<1>4. CASE Receives(c)
  <2>1. PICK cb \in ControlBlock, segs \in SUBSET (1 .. MaxSeg) : \E new \in Receive(cb, segs) :
           /\ ControlBlocks(c) = {cb} /\ ControlBlocks(c)' = {new}
           /\ delivered'[c] = delivered[c]
           /\ acked'[c] \in {acked[c], new.next}
    BY ZenonT(60), <1>4 DEF Receives
  <2>2. PICK new \in Receive(cb, segs) :
           /\ ControlBlocks(c) = {cb} /\ ControlBlocks(c)' = {new}
           /\ delivered'[c] = delivered[c]
           /\ acked'[c] \in {acked[c], new.next}
    BY ZenonT(60), <2>1
  <2>3. PICK k \in 0 .. MaxSeg :
           /\ new.next = cb.next + k
           /\ new.queue = cb.queue \o [j \in 1 .. k |-> cb.next + j]
    BY ZenonT(60), ReceiveShape
  <2>4. cb.next \in Nat /\ cb.queue \in Seq(Nat) /\ k \in Nat
    BY ConstantAssumption DEF ControlBlock
  <2>5. PICK more : more = [j \in 1 .. k |-> cb.next + j]
    BY ZenonT(60)
  <2>6. more \in Seq(Nat) /\ Len(more) = k /\ \A j \in 1 .. k : more[j] = cb.next + j
    BY <2>4, <2>5
  <2>7. PICK queue \in Seq(Nat), seen \in Seq(Nat) : queue = cb.queue /\ seen = delivered[c]
    BY <1>1, <2>4
  <2>8. /\ cb.next = Len(seen) + Len(queue)
        /\ \A i \in 1 .. Len(queue) : queue[i] = Len(seen) + i
        /\ acked[c] <= cb.next
        /\ \A i \in 1 .. Len(seen) : seen[i] = i
    BY ZenonT(60), <2>2, <2>7 DEF DataOf
  <2>9. new.queue = queue \o more
    BY <2>3, <2>5, <2>7
  <2>10. Len(queue) \in Nat /\ Len(seen) \in Nat /\ Len(queue \o more) = Len(queue) + k
    <3>1. Len(queue) \in Nat /\ Len(seen) \in Nat /\ more \in Seq(Nat)
      BY <2>6
    <3>2. Len(queue \o more) = Len(queue) + Len(more)
      BY ZenonT(60), <3>1, ConcatLen
    <3> QED
      BY ZenonT(60), <2>6, <3>1, <3>2
  <2>11. ASSUME NEW i \in 1 .. Len(queue) + k
         PROVE  (queue \o more)[i] = Len(seen) + i
    <3>1. CASE i <= Len(queue)
      <4>1. i \in 1 .. Len(queue) /\ (queue \o more)[i] = queue[i]
        BY <2>6, <2>10, <3>1
      <4> QED
        BY ZenonT(60), <2>8, <4>1
    <3>2. CASE i > Len(queue)
      <4>1. i - Len(queue) \in 1 .. k /\ (queue \o more)[i] = more[i - Len(queue)]
        BY <2>4, <2>6, <2>10, <3>2
      <4>2. more[i - Len(queue)] = cb.next + (i - Len(queue))
        BY <2>6, <4>1
      <4> QED
        BY <2>8, <2>10, <4>1, <4>2
    <3> QED
      BY <2>4, <2>10, <3>1, <3>2
  <2>12. /\ new.next = Len(seen) + Len(new.queue)
         /\ \A i \in 1 .. Len(new.queue) : new.queue[i] = Len(seen) + i
    <3>1. Len(new.queue) = Len(queue) + k
      BY <2>9, <2>10
    <3>2. new.next = Len(seen) + (Len(queue) + k)
      BY <2>3, <2>4, <2>8, <2>10
    <3> QED
      BY ZenonT(60), <2>9, <2>11, <3>1, <3>2
  <2>13. acked'[c] <= new.next
    BY <1>1, <2>2, <2>3, <2>4, <2>8
  <2> QED
    BY ZenonT(60), <2>2, <2>7, <2>8, <2>12, <2>13 DEF DataOf
<1>5. CASE Reads(c)
  <2>1. PICK cb, new \in ControlBlock :
           /\ cb.queue # <<>>
           /\ new.next = cb.next /\ new.queue = Tail(cb.queue)
           /\ ControlBlocks(c) = {cb} /\ ControlBlocks(c)' = {new}
           /\ delivered'[c] = Append(delivered[c], Head(cb.queue))
           /\ acked'[c] = acked[c]
    BY ZenonT(60), <1>5 DEF Reads
  <2>2. cb.next \in Nat /\ cb.queue \in Seq(Nat)
    BY DEF ControlBlock
  <2>3. PICK queue \in Seq(Nat), seen \in Seq(Nat) : queue = cb.queue /\ seen = delivered[c]
    BY <1>1, <2>2
  <2>4. /\ cb.next = Len(seen) + Len(queue)
        /\ \A i \in 1 .. Len(queue) : queue[i] = Len(seen) + i
        /\ \A i \in 1 .. Len(seen) : seen[i] = i
        /\ acked[c] <= cb.next
        /\ queue # <<>>
    BY ZenonT(60), <2>1, <2>3 DEF DataOf
  <2>5. PICK now : now = Append(seen, Head(queue))
    BY ZenonT(60)
  <2>6. Len(queue) > 0 /\ Head(queue) = Len(seen) + 1 /\ Head(queue) \in Nat
    BY <2>4
  <2>7. Len(now) = Len(seen) + 1 /\ \A i \in 1 .. Len(now) : now[i] = i
    BY <2>4, <2>5, <2>6
  <2>8. Len(Tail(queue)) = Len(queue) - 1 /\ \A i \in 1 .. Len(queue) - 1 : Tail(queue)[i] = queue[i + 1]
    BY <2>6
  <2>9. /\ new.next = Len(now) + Len(Tail(queue))
        /\ \A i \in 1 .. Len(Tail(queue)) : Tail(queue)[i] = Len(now) + i
    BY <2>1, <2>4, <2>7, <2>8
  <2>10. new.queue = Tail(queue) /\ delivered'[c] = now /\ acked'[c] <= new.next
    BY ZenonT(60), <2>1, <2>3, <2>4, <2>5
  <2> QED
    BY ZenonT(60), <2>1, <2>7, <2>9, <2>10 DEF DataOf
<1> QED
  BY ZenonT(60), <1>2, <1>3, <1>4, <1>5 DEF Moves

DataFacts == \A c \in Client : DataOf(c)

(* A connection that no step has touched is at its owner, with no data. *)
LEMMA InitPlace ==
    ASSUME Init, NEW c \in Client
    PROVE  HolderOf(c) = owner[c] /\ owner[c] \in Server /\ ControlBlocks(c) = {NewControlBlock}
<1>1. owner[c] \in Server
  BY DEF Init
<1>2. NewControlBlock # None
  <2>1. <<>> \in Seq(Nat)
    OBVIOUS
  <2>2. NewControlBlock \in ControlBlock
    BY <2>1 DEF NewControlBlock, ControlBlock
  <2> QED
    BY <2>2, NoneAssumption
<1>3. ready[owner[c]][c] = NewControlBlock
  BY <1>1 DEF Init
<1>4. HasAt(owner[c], c, NewControlBlock)
  BY <1>2, <1>3 DEF HasAt
<1>5. PlaceOf(c)
  BY InductiveInit, PlaceFactsHold DEF PlaceFacts
<1> QED
  BY <1>1, <1>4, <1>5 DEF PlaceOf

LEMMA DataInit == Init => DataFacts
<1> SUFFICES ASSUME Init, NEW c \in Client
             PROVE  DataOf(c)
  BY DEF DataFacts
<1>1. delivered[c] = <<>> /\ acked[c] = 0
  BY DEF Init
<1>2. ControlBlocks(c) = {NewControlBlock}
  BY InitPlace
<1> QED
  BY <1>1, <1>2 DEF DataOf, NewControlBlock

LEMMA DataNext == Inductive /\ Inductive' /\ [Next]_vars /\ DataFacts => DataFacts'
<1> SUFFICES ASSUME Inductive, Inductive', [Next]_vars, DataFacts, NEW c \in Client
             PROVE  DataOf(c)'
  BY DEF DataFacts
<1>1. Same(c) \/ Moves(c)
  BY StepEffect DEF Effect
<1> QED
  BY <1>1, DataStep DEF DataFacts

LEMMA DataCorrect == Spec => []DataFacts
BY InductiveCorrect, DataInit, DataNext, PTL DEF Spec

(* Reading is in order, once and without a gap, wherever the connection    *)
(* has been: what was read and what the receive queue still holds, at a    *)
(* server or inside a CONN_STATE, is the client's stream from its start.   *)
THEOREM ReadInOrderCorrect == Spec => []ReadInOrder
<1>1. DataFacts => ReadInOrder
  BY ZenonT(60) DEF DataFacts, DataOf, ReadInOrder
<1> QED
  BY <1>1, DataCorrect, PTL

(* No migration forgets a segment that was acknowledged to the client,     *)
(* which will not send it again.                                           *)
THEOREM AcknowledgedIsKeptCorrect == Spec => []AcknowledgedIsKept
<1>1. DataFacts => AcknowledgedIsKept
  BY ZenonT(60) DEF DataFacts, DataOf, AcknowledgedIsKept
<1> QED
  BY <1>1, DataCorrect, PTL
-----------------------------------------------------------------------------
(* Refinement. *)

LEMMA UnreadOfOne ==
    ASSUME NEW c, NEW cb, ControlBlocks(c) = {cb}
    PROVE  UnreadOf(c) = Len(cb.queue)
BY DEF UnreadOf

LEMMA HandoffInit == Init => Handoff!Init
<1> SUFFICES ASSUME Init
             PROVE  Handoff!Init
  OBVIOUS
<1>1. ASSUME NEW c \in Client
      PROVE  HolderOf(c) \in Server /\ UnreadOf(c) = 0
  <2>1. HolderOf(c) \in Server /\ ControlBlocks(c) = {NewControlBlock}
    BY InitPlace
  <2>2. UnreadOf(c) = Len(NewControlBlock.queue)
    BY <2>1, UnreadOfOne
  <2> QED
    BY <2>1, <2>2 DEF NewControlBlock
<1>2. delivered = [c \in Client |-> <<>>]
  BY DEF Init
<1> QED
  BY <1>1, <1>2 DEF Handoff!Init

(* What the hand-off sees of a connection that a step leaves alone. *)
LEMMA SameHandoff ==
    ASSUME NEW d, Same(d)
    PROVE  HolderOf(d)' = HolderOf(d) /\ UnreadOf(d)' = UnreadOf(d) /\ delivered'[d] = delivered[d]
BY DEF Same, SameData, UnreadOf

(* The hand-off's step for the connection that a step moves. *)
HandoffStep(c) ==
    \/ /\ HolderOf(c) \in Server /\ HolderOf(c)' = HolderOf(c)
       /\ \E n \in 0 .. MaxSeg : UnreadOf(c)' = UnreadOf(c) + n
       /\ delivered'[c] = delivered[c]
    \/ /\ HolderOf(c) \in Server /\ HolderOf(c)' = HolderOf(c)
       /\ UnreadOf(c) > 0 /\ UnreadOf(c)' = UnreadOf(c) - 1
       /\ delivered'[c] = Append(delivered[c], Len(delivered[c]) + 1)
    \/ /\ \/ HolderOf(c) \in Server /\ HolderOf(c)' = Transit
          \/ HolderOf(c) = Transit /\ HolderOf(c)' \in Server
       /\ UnreadOf(c)' = UnreadOf(c) /\ delivered'[c] = delivered[c]
    \/ /\ HolderOf(c) = Transit /\ HolderOf(c)' = Lost
       /\ UnreadOf(c)' = 0 /\ delivered'[c] = delivered[c]

LEMMA MovesHandoff ==
    ASSUME Inductive, Inductive', DataFacts, NEW c \in Client, Moves(c)
    PROVE  HandoffStep(c)
<1>1. CASE Departs(c) \/ Arrives(c)
  <2>1. ControlBlocks(c)' = ControlBlocks(c) /\ delivered'[c] = delivered[c]
    BY <1>1 DEF Departs, Arrives, SameData
  <2>2. UnreadOf(c)' = UnreadOf(c)
    BY <2>1 DEF UnreadOf
  <2> QED
    BY ZenonT(60), <1>1, <2>1, <2>2 DEF Departs, Arrives, HandoffStep
<1>2. CASE Vanishes(c)
  <2>1. UnreadOf(c)' = 0
    BY <1>2 DEF Vanishes, UnreadOf
  <2> QED
    BY ZenonT(60), <1>2, <2>1 DEF Vanishes, SameData, HandoffStep
<1>3. CASE Receives(c)
  <2>1. PICK cb \in ControlBlock, segs \in SUBSET (1 .. MaxSeg) : \E new \in Receive(cb, segs) :
           /\ HolderOf(c) \in Server /\ HolderOf(c)' = HolderOf(c)
           /\ ControlBlocks(c) = {cb} /\ ControlBlocks(c)' = {new}
           /\ delivered'[c] = delivered[c]
    BY ZenonT(60), <1>3 DEF Receives
  <2>2. PICK new \in Receive(cb, segs) :
           /\ HolderOf(c) \in Server /\ HolderOf(c)' = HolderOf(c)
           /\ ControlBlocks(c) = {cb} /\ ControlBlocks(c)' = {new}
           /\ delivered'[c] = delivered[c]
    BY ZenonT(60), <2>1
  <2>3. PICK k \in 0 .. MaxSeg : new.queue = cb.queue \o [j \in 1 .. k |-> cb.next + j]
    BY ZenonT(60), ReceiveShape
  <2>4. cb.next \in Nat /\ cb.queue \in Seq(Nat) /\ k \in Nat
    BY ConstantAssumption DEF ControlBlock
  <2>5. PICK more : more = [j \in 1 .. k |-> cb.next + j]
    BY ZenonT(60)
  <2>6. more \in Seq(Nat) /\ Len(more) = k
    BY <2>4, <2>5
  <2>7. PICK queue \in Seq(Nat) : queue = cb.queue
    BY <2>4
  <2>8. Len(queue \o more) = Len(queue) + Len(more)
    BY ZenonT(60), <2>6, ConcatLen
  <2>9. UnreadOf(c) = Len(queue)
    BY ZenonT(60), <2>2, <2>7, UnreadOfOne
  <2>10. UnreadOf(c)' = Len(queue \o more)
    <3>1. UnreadOf(c)' = Len(new.queue)
      BY <2>2 DEF UnreadOf
    <3> QED
      BY ZenonT(60), <2>3, <2>5, <2>7, <3>1
  <2>11. UnreadOf(c)' = UnreadOf(c) + k
    BY ZenonT(60), <2>6, <2>8, <2>9, <2>10
  <2> QED
    BY ZenonT(60), <2>2, <2>11 DEF HandoffStep
<1>4. CASE Reads(c)
  <2>1. PICK cb, new \in ControlBlock :
           /\ HolderOf(c) \in Server /\ HolderOf(c)' = HolderOf(c)
           /\ cb.queue # <<>> /\ new.queue = Tail(cb.queue)
           /\ ControlBlocks(c) = {cb} /\ ControlBlocks(c)' = {new}
           /\ delivered'[c] = Append(delivered[c], Head(cb.queue))
    BY ZenonT(60), <1>4 DEF Reads
  <2>2. cb.queue \in Seq(Nat)
    BY DEF ControlBlock
  <2>3. PICK queue \in Seq(Nat) : queue = cb.queue
    BY <2>2
  <2>4. queue # <<>> /\ \A i \in 1 .. Len(queue) : queue[i] = Len(delivered[c]) + i
    <3>1. DataOf(c) /\ cb \in ControlBlocks(c)
      BY <2>1 DEF DataFacts
    <3> QED
      BY ZenonT(60), <2>1, <2>3, <3>1 DEF DataOf
  <2>5. Len(queue) > 0 /\ Head(queue) = queue[1] /\ Len(Tail(queue)) = Len(queue) - 1 /\ 1 \in 1 .. Len(queue)
    BY <2>4
  <2>6. Head(queue) = Len(delivered[c]) + 1
    BY ZenonT(60), <2>4, <2>5
  <2>7. UnreadOf(c) = Len(queue)
    BY ZenonT(60), <2>1, <2>3, UnreadOfOne
  <2>8. UnreadOf(c)' = Len(Tail(queue))
    <3>1. UnreadOf(c)' = Len(new.queue)
      BY ZenonT(60), <2>1 DEF UnreadOf
    <3> QED
      BY ZenonT(60), <2>1, <2>3, <3>1
  <2>9. UnreadOf(c) > 0 /\ UnreadOf(c)' = UnreadOf(c) - 1
    BY ZenonT(60), <2>5, <2>7, <2>8
  <2> QED
    BY ZenonT(60), <2>1, <2>3, <2>6, <2>9 DEF HandoffStep
<1> QED
  BY <1>1, <1>2, <1>3, <1>4 DEF Moves

LEMMA UnreadType ==
    ASSUME Inductive, NEW c \in Client
    PROVE  UnreadOf(c) \in Nat
<1>1. \A cb \in ControlBlocks(c) : cb \in ControlBlock
  <2>1. PlaceOf(c)
    BY PlaceFactsHold DEF PlaceFacts
  <2> QED
    BY ZenonT(60), <2>1, ControlBlocksElements DEF PlaceOf
<1>2. \A cb \in ControlBlock : Len(cb.queue) \in Nat
  BY DEF ControlBlock
<1> QED
  BY <1>1, <1>2 DEF UnreadOf

LEMMA HandoffNext ==
    Inductive /\ Inductive' /\ DataFacts /\ [Next]_vars => [Handoff!Next]_(Handoff!vars)
<1> SUFFICES ASSUME Inductive, Inductive', DataFacts, [Next]_vars
             PROVE  [Handoff!Next]_(Handoff!vars)
  BY ZenonT(60)
<1> DEFINE holder == [c \in Client |-> HolderOf(c)]
           unread == [c \in Client |-> UnreadOf(c)]
<1>1. delivered \in [Client -> Seq(Nat)] /\ delivered' \in [Client -> Seq(Nat)]
  BY DEF Inductive, TypeOK
<1>2. CASE \A d \in Client : Same(d)
  <2>1. holder' = holder /\ unread' = unread
    BY <1>2, SameHandoff
  <2>2. delivered' = delivered
    BY <1>1, <1>2, SameHandoff
  <2> QED
    BY ZenonT(60), <2>1, <2>2 DEF Handoff!vars
<1>3. ASSUME NEW c \in Client, Moves(c), \A d \in Client \ {c} : Same(d)
      PROVE  Handoff!Next \/ UNCHANGED Handoff!vars
  <2>1. \A d \in Client \ {c} :
           HolderOf(d)' = HolderOf(d) /\ UnreadOf(d)' = UnreadOf(d) /\ delivered'[d] = delivered[d]
    BY ZenonT(60), <1>3, SameHandoff
  <2>2. /\ holder' = [holder EXCEPT ![c] = HolderOf(c)']
        /\ unread' = [unread EXCEPT ![c] = UnreadOf(c)']
        /\ delivered' = [delivered EXCEPT ![c] = delivered'[c]]
    BY ZenonT(60), <1>1, <2>1
  <2>3. holder[c] = HolderOf(c) /\ unread[c] = UnreadOf(c)
    OBVIOUS
  <2>4. HandoffStep(c)
    BY <1>3, MovesHandoff
  <2>5. CASE /\ HolderOf(c) \in Server /\ HolderOf(c)' = HolderOf(c)
             /\ \E n \in 0 .. MaxSeg : UnreadOf(c)' = UnreadOf(c) + n
             /\ delivered'[c] = delivered[c]
    <3>1. PICK n \in 0 .. MaxSeg : UnreadOf(c)' = UnreadOf(c) + n
      BY <2>5
    <3>2. holder' = holder /\ delivered' = delivered
      BY <1>1, <2>1, <2>5
    <3>3. CASE n = 0
      <4>1. UnreadOf(c) \in Nat
        BY UnreadType
      <4>2. UnreadOf(c)' = UnreadOf(c)
        BY <3>1, <3>3, <4>1
      <4>3. unread' = unread
        BY <2>1, <4>2
      <4> QED
        BY ZenonT(60), <3>2, <4>3 DEF Handoff!vars
    <3>4. CASE n # 0
      <4>1. n \in 1 .. MaxSeg
        BY <3>4
      <4>2. unread' = [unread EXCEPT ![c] = unread[c] + n]
        BY ZenonT(60), <2>2, <2>3, <3>1
      <4>3. Handoff!Receive(c)
        BY ZenonT(60), <2>3, <2>5, <3>2, <4>1, <4>2 DEF Handoff!Receive
      <4> QED
        BY ZenonT(60), <4>3 DEF Handoff!Next
    <3> QED
      BY <3>3, <3>4
  <2>6. CASE /\ HolderOf(c) \in Server /\ HolderOf(c)' = HolderOf(c)
             /\ UnreadOf(c) > 0 /\ UnreadOf(c)' = UnreadOf(c) - 1
             /\ delivered'[c] = Append(delivered[c], Len(delivered[c]) + 1)
    <3>1. holder' = holder
      BY <2>1, <2>6
    <3>2. /\ unread' = [unread EXCEPT ![c] = unread[c] - 1]
          /\ delivered' = [delivered EXCEPT ![c] = Append(delivered[c], Len(delivered[c]) + 1)]
      BY ZenonT(60), <2>2, <2>3, <2>6
    <3>3. Handoff!Read(c)
      BY ZenonT(60), <2>3, <2>6, <3>1, <3>2 DEF Handoff!Read
    <3> QED
      BY ZenonT(60), <3>3 DEF Handoff!Next
  <2>7. CASE /\ \/ HolderOf(c) \in Server /\ HolderOf(c)' = Transit
                \/ HolderOf(c) = Transit /\ HolderOf(c)' \in Server
             /\ UnreadOf(c)' = UnreadOf(c) /\ delivered'[c] = delivered[c]
    <3>1. unread' = unread /\ delivered' = delivered
      BY <1>1, <2>1, <2>7
    <3>2. Handoff!Depart(c) \/ Handoff!Arrive(c)
      BY ZenonT(60), <2>2, <2>3, <2>7, <3>1 DEF Handoff!Depart, Handoff!Arrive
    <3> QED
      BY ZenonT(60), <3>2 DEF Handoff!Next
  <2>8. CASE /\ HolderOf(c) = Transit /\ HolderOf(c)' = Lost
             /\ UnreadOf(c)' = 0 /\ delivered'[c] = delivered[c]
    <3>1. delivered' = delivered
      BY <1>1, <2>1, <2>8
    <3>2. Handoff!Vanish(c)
      BY ZenonT(60), <2>2, <2>3, <2>8, <3>1 DEF Handoff!Vanish
    <3> QED
      BY ZenonT(60), <3>2 DEF Handoff!Next
  <2> QED
    BY ZenonT(60), <2>4, <2>5, <2>6, <2>7, <2>8 DEF HandoffStep
<1> QED
  BY ZenonT(60), <1>2, <1>3, StepEffect DEF Effect

(* TcpMig implements ConnHandoff, whatever the number of servers, clients  *)
(* and segments, and whatever packets are lost or reordered: each step of  *)
(* TcpMigPeer, TcpPeer, the application or the switch is one step of the   *)
(* hand-off of one connection, or changes nothing that it sees.            *)
THEOREM RefinesHandoffCorrect == Spec => RefinesHandoff
BY InductiveCorrect, DataCorrect, HandoffInit, HandoffNext, PTL DEF Spec, RefinesHandoff, Handoff!Spec
=============================================================================
