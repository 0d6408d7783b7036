---------------------------- MODULE TcpMigEffects ---------------------------
(***************************************************************************)
(* What each step of TcpMig does to the control blocks of its connections: *)
(* at most one connection departs, arrives, vanishes, receives or is read, *)
(* and the others stay as they are.                                        *)
(***************************************************************************)
EXTENDS TcpMigLemmas

HasAt(s, c, cb) == cb # None /\ (ready[s][c] = cb \/ established[s][c] = cb)

Carried(n, c, cb) ==
    \E l \in Link : \E i \in 1 .. Len(n[l]) : IsStateOf(n[l][i], c) /\ n[l][i].cb = cb

(* A connection with a control block is where it is, and has no other. *)
PlaceOf(c) ==
    /\ \A s \in Server : \A cb : HasAt(s, c, cb) =>
          HolderOf(c) = s /\ ControlBlocks(c) = {cb} /\ cb \in ControlBlock
    /\ \A cb : Carried(net, c, cb) =>
          HolderOf(c) = Transit /\ ControlBlocks(c) = {cb} /\ cb \in ControlBlock
    /\ (\A s \in Server : ~Held(s, c)) /\ ~StateInFlight(net, c) =>
          HolderOf(c) = Lost /\ ControlBlocks(c) = {}

PlaceFacts == \A c \in Client : PlaceOf(c)

(* The elements of ControlBlocks. *)
LEMMA ControlBlocksElements ==
    ASSUME NEW c \in Client, NEW cb
    PROVE  cb \in ControlBlocks(c) <=> (\E s \in Server : HasAt(s, c, cb)) \/ Carried(net, c, cb)
BY DEF ControlBlocks, HasAt, Carried

(* A state in flight carries a control block. *)
LEMMA CarriedInFlight ==
    ASSUME NEW n, NEW c
    PROVE  StateInFlight(n, c) <=> \E cb : Carried(n, c, cb)
BY ZenonT(60) DEF StateInFlight, Carried

(* SingleOwner makes the control block of a connection unique. *)
LEMMA PlaceFactsHold == Inductive => PlaceFacts
<1> SUFFICES ASSUME Inductive, NEW c \in Client
             PROVE  PlaceOf(c)
  BY DEF PlaceFacts
<1>1. /\ \A s, t \in Server : Held(s, c) /\ Held(t, c) => s = t
      /\ \A s \in Server : ready[s][c] = None \/ established[s][c] = None
      /\ UniqueState(net, c)
      /\ StateInFlight(net, c) => \A s \in Server : ~Held(s, c)
  BY DEF Inductive, SingleOwner
<1>2. \A s \in Server : \A cb : HasAt(s, c, cb) => Held(s, c)
  BY DEF HasAt, Held
<1>3. \A cb : Carried(net, c, cb) => StateInFlight(net, c)
  BY CarriedInFlight
<1>4. ASSUME NEW s \in Server, NEW cb, HasAt(s, c, cb)
      PROVE  HolderOf(c) = s /\ ControlBlocks(c) = {cb} /\ cb \in ControlBlock
  <2>1. HolderOf(c) = s
    BY <1>1, <1>2, <1>4 DEF HolderOf
  <2>2. \A t \in Server : \A b : HasAt(t, c, b) => b = cb
    BY <1>1, <1>2, <1>4 DEF HasAt
  <2>3. \A b : ~Carried(net, c, b)
    BY <1>1, <1>2, <1>3, <1>4
  <2>4. ControlBlocks(c) = {cb}
    BY <1>4, <2>2, <2>3, ControlBlocksElements
  <2>5. cb \in ControlBlock
    BY <1>4, ReadyType, EstablishedType DEF HasAt
  <2> QED
    BY <2>1, <2>4, <2>5
<1>5. ASSUME NEW cb, Carried(net, c, cb)
      PROVE  HolderOf(c) = Transit /\ ControlBlocks(c) = {cb} /\ cb \in ControlBlock
  <2>1. HolderOf(c) = Transit
    BY <1>1, <1>3, <1>5 DEF HolderOf
  <2>2. \A t \in Server : \A b : ~HasAt(t, c, b)
    BY <1>1, <1>2, <1>3, <1>5
  <2>3. \A b : Carried(net, c, b) => b = cb
    BY <1>1, <1>5 DEF Carried, UniqueState
  <2>4. ControlBlocks(c) = {cb}
    BY <1>5, <2>2, <2>3, ControlBlocksElements
  <2>5. cb \in ControlBlock
    <3>1. PICK l \in Link : \E i \in 1 .. Len(net[l]) : IsStateOf(net[l][i], c) /\ net[l][i].cb = cb
      BY <1>5 DEF Carried
    <3>2. PICK i \in 1 .. Len(net[l]) : IsStateOf(net[l][i], c) /\ net[l][i].cb = cb
      BY <3>1
    <3>3. net[l] \in Seq(Packet)
      BY NetType
    <3>4. net[l][i] \in Packet
      BY <3>3
    <3> QED
      BY <3>2, <3>4 DEF Packet, IsStateOf
  <2> QED
    BY <2>1, <2>4, <2>5
<1>6. ASSUME \A s \in Server : ~Held(s, c), ~StateInFlight(net, c)
      PROVE  HolderOf(c) = Lost /\ ControlBlocks(c) = {}
  <2>1. HolderOf(c) = Lost
    BY <1>6 DEF HolderOf
  <2>2. ControlBlocks(c) = {}
    BY <1>2, <1>3, <1>6, ControlBlocksElements
  <2> QED
    BY <2>1, <2>2
<1> QED
  BY <1>4, <1>5, <1>6 DEF PlaceOf

(* The same of the state after a step. *)
LEMMA PlaceFactsAfter == Inductive' => PlaceFacts'
BY PlaceFactsHold, PTL
-----------------------------------------------------------------------------
(* The control blocks in flight, when a packet is taken or sent. *)

SameCarried(n, r, c) == \A cb : Carried(r, c, cb) <=> Carried(n, c, cb)

(* Taking a packet off a link leaves every other CONN_STATE in flight. *)
LEMMA RemovedCarried ==
    ASSUME NEW n \in Nets, NEW l \in Link, NEW i \in 1 .. Len(n[l]), NEW c \in Client,
           ~IsStateOf(n[l][i], c)
    PROVE  SameCarried(n, Removed(n, l, i), c)
<1> DEFINE r == Removed(n, l, i)
           old(j) == IF j < i THEN j ELSE j + 1
           new(j) == IF j < i THEN j ELSE j - 1
<1>1. n[l] \in Seq(Packet) /\ \A k \in Link : n[k] \in Seq(Packet)
  BY DEF Nets
<1>2. /\ Len(Without(n[l], i)) = Len(n[l]) - 1
      /\ \A j \in 1 .. Len(n[l]) - 1 : Without(n[l], i)[j] = n[l][IF j < i THEN j ELSE j + 1]
  BY ZenonT(60), <1>1, WithoutFacts
<1>3. r[l] = Without(n[l], i) /\ \A k \in Link : k # l => r[k] = n[k]
  BY DEF Nets, Removed
<1>4. Len(n[l]) \in Nat
  BY <1>1
<1>5. \A j \in 1 .. Len(r[l]) : old(j) \in 1 .. Len(n[l]) /\ r[l][j] = n[l][old(j)]
  BY SMTT(120), <1>2, <1>3, <1>4
<1>6. \A j \in 1 .. Len(n[l]) : j # i => new(j) \in 1 .. Len(r[l]) /\ r[l][new(j)] = n[l][j]
  BY SMTT(120), <1>2, <1>3, <1>4
<1> HIDE DEF r, old, new
<1>7. ASSUME NEW cb, Carried(r, c, cb)
      PROVE  Carried(n, c, cb)
  <2>1. PICK k \in Link : \E j \in 1 .. Len(r[k]) : IsStateOf(r[k][j], c) /\ r[k][j].cb = cb
    BY ZenonT(60), <1>7 DEF Carried
  <2> QED
    BY ZenonT(60), <1>3, <1>5, <2>1 DEF Carried
<1>8. ASSUME NEW cb, Carried(n, c, cb)
      PROVE  Carried(r, c, cb)
  <2>1. PICK k \in Link : \E j \in 1 .. Len(n[k]) : IsStateOf(n[k][j], c) /\ n[k][j].cb = cb
    BY ZenonT(60), <1>8 DEF Carried
  <2> QED
    BY ZenonT(60), <1>3, <1>6, <2>1 DEF Carried
<1> QED
  BY <1>7, <1>8 DEF SameCarried, r

(* A packet that is sent is in flight with those that were. *)
LEMMA AddedCarried ==
    ASSUME NEW n \in Nets, NEW l \in Link, NEW m \in Packet, NEW c \in Client
    PROVE  /\ ~IsStateOf(m, c) => SameCarried(n, Added(n, l, m), c)
           /\ IsStateOf(m, c) => Carried(Added(n, l, m), c, m.cb)
<1> DEFINE r == Added(n, l, m)
<1>1. Len(n[l]) \in Nat /\ n[l] \in Seq(Packet)
  BY DEF Nets
<1>2. r[l] = Append(n[l], m) /\ \A k \in Link : k # l => r[k] = n[k]
  BY DEF Nets, Added
<1>3. Len(r[l]) = Len(n[l]) + 1 /\ r[l][Len(n[l]) + 1] = m
  BY <1>1, <1>2
<1>4. \A j \in 1 .. Len(n[l]) : j \in 1 .. Len(r[l]) /\ r[l][j] = n[l][j]
  BY <1>1, <1>2
<1>5. \A j \in 1 .. Len(r[l]) : j \in 1 .. Len(n[l]) \/ r[l][j] = m
  BY <1>1, <1>2
<1>6. Len(n[l]) + 1 \in 1 .. Len(r[l])
  BY <1>1, <1>3
<1> HIDE DEF r
<1>7. ASSUME ~IsStateOf(m, c), NEW cb
      PROVE  Carried(r, c, cb) <=> Carried(n, c, cb)
  <2>1. ASSUME NEW k \in Link, NEW j \in 1 .. Len(r[k]), IsStateOf(r[k][j], c)
        PROVE  j \in 1 .. Len(n[k]) /\ r[k][j] = n[k][j]
    BY ZenonT(60), <1>2, <1>4, <1>5, <1>7, <2>1
  <2>2. ASSUME NEW k \in Link, NEW j \in 1 .. Len(n[k])
        PROVE  j \in 1 .. Len(r[k]) /\ r[k][j] = n[k][j]
    BY ZenonT(60), <1>2, <1>4
  <2>3. Carried(r, c, cb) => Carried(n, c, cb)
    BY ZenonT(60), <2>1 DEF Carried
  <2>4. Carried(n, c, cb) => Carried(r, c, cb)
    BY ZenonT(60), <2>2 DEF Carried
  <2> QED
    BY <2>3, <2>4
<1>8. IsStateOf(m, c) => Carried(r, c, m.cb)
  BY ZenonT(60), <1>3, <1>6 DEF Carried
<1> QED
  BY <1>7, <1>8 DEF SameCarried, r
-----------------------------------------------------------------------------
(* What a step does to a connection. *)

SameData(c) == delivered'[c] = delivered[c] /\ acked'[c] = acked[c]

Same(c) == HolderOf(c)' = HolderOf(c) /\ ControlBlocks(c)' = ControlBlocks(c) /\ SameData(c)

Departs(c) ==
    /\ HolderOf(c) \in Server /\ HolderOf(c)' = Transit
    /\ ControlBlocks(c)' = ControlBlocks(c) /\ SameData(c)

Arrives(c) ==
    /\ HolderOf(c) = Transit /\ HolderOf(c)' \in Server
    /\ ControlBlocks(c)' = ControlBlocks(c) /\ SameData(c)

Vanishes(c) ==
    /\ HolderOf(c) = Transit /\ HolderOf(c)' = Lost
    /\ ControlBlocks(c)' = {} /\ SameData(c)

Receives(c) ==
    \E cb \in ControlBlock, segs \in SUBSET (1 .. MaxSeg) : \E new \in Receive(cb, segs) :
        /\ HolderOf(c) \in Server /\ HolderOf(c)' = HolderOf(c)
        /\ ControlBlocks(c) = {cb} /\ ControlBlocks(c)' = {new}
        /\ delivered'[c] = delivered[c]
        /\ acked'[c] \in {acked[c], new.next}

Reads(c) ==
    \E cb, new \in ControlBlock :
        /\ HolderOf(c) \in Server /\ HolderOf(c)' = HolderOf(c)
        /\ cb.queue # <<>>
        /\ new.next = cb.next /\ new.queue = Tail(cb.queue)
        /\ ControlBlocks(c) = {cb} /\ ControlBlocks(c)' = {new}
        /\ delivered'[c] = Append(delivered[c], Head(cb.queue))
        /\ acked'[c] = acked[c]

Moves(c) == Departs(c) \/ Arrives(c) \/ Vanishes(c) \/ Receives(c) \/ Reads(c)

Effect ==
    \/ \A d \in Client : Same(d)
    \/ \E c \in Client : Moves(c) /\ \A d \in Client \ {c} : Same(d)

(* Tables and packets that are the same for a connection leave it where it is. *)
LEMMA SameStep ==
    ASSUME Inductive, Inductive', NEW d \in Client,
           \A s \in Server : ready'[s][d] = ready[s][d] /\ established'[s][d] = established[s][d],
           SameCarried(net, net', d), SameData(d)
    PROVE  Same(d)
<1>1. PlaceOf(d) /\ PlaceOf(d)'
  BY PlaceFactsHold, PlaceFactsAfter DEF PlaceFacts
<1>2. \A s \in Server : Held(s, d)' <=> Held(s, d)
  BY DEF Held
<1>3. \A s \in Server : \A cb : HasAt(s, d, cb)' <=> HasAt(s, d, cb)
  BY DEF HasAt
<1>4. \A cb : Carried(net, d, cb)' <=> Carried(net, d, cb)
  BY ZenonT(60) DEF SameCarried, Carried
<1>5. StateInFlight(net, d)' <=> StateInFlight(net, d)
  BY ZenonT(60), <1>4 DEF StateInFlight, Carried
<1>6. CASE \E s \in Server : Held(s, d)
  <2>1. PICK s \in Server : Held(s, d)
    BY <1>6
  <2>2. PICK cb : HasAt(s, d, cb)
    BY ZenonT(60), <2>1 DEF Held, HasAt
  <2> QED
    BY ZenonT(60), <1>1, <1>3, <2>2 DEF PlaceOf, Same
<1>7. CASE StateInFlight(net, d)
  <2>1. PICK cb : Carried(net, d, cb)
    BY <1>7, CarriedInFlight
  <2> QED
    BY ZenonT(60), <1>1, <1>4, <2>1 DEF PlaceOf, Same
<1>8. CASE (\A s \in Server : ~Held(s, d)) /\ ~StateInFlight(net, d)
  BY ZenonT(60), <1>1, <1>2, <1>5, <1>8 DEF PlaceOf, Same
<1> QED
  BY <1>6, <1>7, <1>8

Tables == <<ready, established, delivered, acked>>

(* A step that changes neither tables nor states in flight. *)
LEMMA QuietStep ==
    ASSUME Inductive, Inductive', UNCHANGED Tables, \A d \in Client : SameCarried(net, net', d)
    PROVE  Effect
<1>1. \A d \in Client : Same(d)
  BY SameStep DEF Tables, SameData
<1> QED
  BY <1>1 DEF Effect

(* A step that takes a packet, which may be a CONN_STATE that is lost. *)
LEMMA DropStep ==
    ASSUME Inductive, Inductive', NEW l \in Link, NEW i \in 1 .. Len(net[l]),
           net' = [net EXCEPT ![l] = Without(@, i)], UNCHANGED Tables
    PROVE  Effect
<1>1. net \in Nets /\ net' = Removed(net, l, i)
  BY NetType DEF Nets, Removed
<1>2. ASSUME NEW d \in Client, ~IsStateOf(net[l][i], d)
      PROVE  Same(d)
  <2>1. SameCarried(net, net', d)
    BY ZenonT(60), <1>1, <1>2, RemovedCarried
  <2> QED
    BY ZenonT(60), <2>1, SameStep DEF Tables, SameData
<1>3. CASE \A d \in Client : ~IsStateOf(net[l][i], d)
  BY <1>2, <1>3 DEF Effect
<1>4. ASSUME NEW c \in Client, IsStateOf(net[l][i], c)
      PROVE  Effect
  <2>1. PlaceOf(c) /\ PlaceOf(c)'
    BY PlaceFactsHold, PlaceFactsAfter DEF PlaceFacts
  <2>2. Carried(net, c, net[l][i].cb)
    BY <1>4 DEF Carried
  <2>3. StateInFlight(net, c)
    BY <2>2, CarriedInFlight
  <2>4. \A s \in Server : ~Held(s, c)
    BY <2>3 DEF Inductive, SingleOwner
  <2>5. \A s \in Server : ~Held(s, c)'
    BY ZenonT(60), <2>4 DEF Held, Tables
  <2>6. ~StateInFlight(net', c)
    <3>1. UniqueState(net, c)
      BY DEF Inductive, SingleOwner
    <3> QED
      BY ZenonT(60), <1>1, <1>4, <3>1, RemovedFacts
  <2>7. ~StateInFlight(net, c)'
    BY <2>6 DEF StateInFlight
  <2>8. Vanishes(c)
    BY ZenonT(60), <2>1, <2>2, <2>5, <2>7 DEF PlaceOf, Vanishes, SameData, Tables
  <2>9. \A d \in Client \ {c} : ~IsStateOf(net[l][i], d)
    BY <1>4 DEF IsStateOf
  <2> QED
    BY <1>2, <2>8, <2>9 DEF Effect, Moves
<1> QED
  BY <1>3, <1>4

(* A server that takes a packet and answers moves the CONN_STATEs of no    *)
(* other connection.                                                       *)
LEMMA TakeAndSendCarried ==
    ASSUME Inductive, NEW s \in Server, NEW i \in 1 .. Len(net[Down(s)]), NEW m \in Packet,
           TakeAndSend(s, i, m), NEW d \in Client, ~IsStateOf(net[Down(s)][i], d)
    PROVE  /\ ~IsStateOf(m, d) => SameCarried(net, net', d)
           /\ IsStateOf(m, d) => Carried(net', d, m.cb)
<1> DEFINE n == Removed(net, Down(s), i)
<1>1. net \in Nets /\ Down(s) \in Link /\ Up(s) \in Link /\ Up(s) # Down(s)
  BY ZenonT(60), LinkFacts, NetType DEF Nets
<1>2. net' = Added(n, Up(s), m)
  BY ZenonT(60), <1>1 DEF TakeAndSend, Added, Removed, Nets
<1>3. n \in Nets
  BY ZenonT(60), <1>1, RemovedFacts
<1>4. SameCarried(net, n, d)
  BY <1>1, RemovedCarried
<1> HIDE DEF n
<1>5. /\ ~IsStateOf(m, d) => SameCarried(n, net', d)
      /\ IsStateOf(m, d) => Carried(net', d, m.cb)
  BY <1>1, <1>2, <1>3, AddedCarried
<1> QED
  BY <1>4, <1>5 DEF SameCarried
-----------------------------------------------------------------------------
(* The effect of each action. *)

(* A step that leaves tables and network alone. *)
LEMMA NoNetEffect ==
    ASSUME Inductive, Inductive', UNCHANGED <<Tables, net>>
    PROVE  Effect
BY QuietStep DEF SameCarried

(* A step that only sends something other than a CONN_STATE. *)
LEMMA SendEffect ==
    ASSUME Inductive, Inductive', NEW l \in Link, NEW m \in Packet, m.type # "CONN_STATE",
           net' = [net EXCEPT ![l] = Append(@, m)], UNCHANGED Tables
    PROVE  Effect
<1>1. net \in Nets /\ net' = Added(net, l, m)
  BY NetType DEF Nets, Added
<1>2. \A d \in Client : ~IsStateOf(m, d)
  BY DEF IsStateOf
<1>3. \A d \in Client : SameCarried(net, net', d)
  BY ZenonT(60), <1>1, <1>2, AddedCarried
<1> QED
  BY ZenonT(60), <1>3, QuietStep

(* A step that answers a packet, neither being a CONN_STATE. *)
LEMMA ReplyEffect ==
    ASSUME Inductive, Inductive', NEW s \in Server, NEW i \in 1 .. Len(net[Down(s)]), NEW m \in Packet,
           m.type # "CONN_STATE", net[Down(s)][i].type # "CONN_STATE",
           TakeAndSend(s, i, m), UNCHANGED Tables
    PROVE  Effect
<1>1. \A d \in Client : ~IsStateOf(m, d) /\ ~IsStateOf(net[Down(s)][i], d)
  BY DEF IsStateOf
<1>2. \A d \in Client : SameCarried(net, net', d)
  BY <1>1, TakeAndSendCarried
<1> QED
  BY <1>2, QuietStep

(* A step that takes a packet from the link to s. *)
LEMMA TakeEffect ==
    ASSUME Inductive, Inductive', NEW s \in Server, NEW i \in 1 .. Len(net[Down(s)]), Take(s, i),
           UNCHANGED Tables
    PROVE  Effect
BY ZenonT(60), DropStep, LinkFacts DEF Take

(* Clients only send segments. *)
LEMMA ClientEffect ==
    ASSUME Inductive, Inductive', NEW c \in Client, ClientSend(c) \/ ClientRetransmit(c)
    PROVE  Effect
<1>1. PICK n \in 1 .. MaxSeg : ToOwner(c, n)
  <2>1. CASE ClientSend(c)
    <3>1. sent[c] + 1 \in 1 .. MaxSeg
      BY <2>1, ConstantAssumption, SentType DEF ClientSend
    <3> QED
      BY <2>1, <3>1 DEF ClientSend
  <2>2. CASE ClientRetransmit(c)
    <3>1. PICK n \in (acked[c] + 1) .. sent[c] : ToOwner(c, n)
      BY <2>2 DEF ClientRetransmit
    <3>2. n \in 1 .. MaxSeg
      BY ConstantAssumption, SentType, AckedType
    <3> QED
      BY <3>1, <3>2
  <2> QED
    BY <2>1, <2>2
<1>2. PICK m : m = [type |-> "SEGMENT", client |-> c, seq |-> n]
  BY ZenonT(60)
<1>3. m \in Packet /\ m.type # "CONN_STATE"
  BY <1>2 DEF Packet
<1>4. Down(owner[c]) \in Link
  BY LinkFacts, OwnerType
<1>5. net' = [net EXCEPT ![Down(owner[c])] = Append(@, m)]
  BY ZenonT(60), <1>1, <1>2 DEF ToOwner
<1>6. UNCHANGED Tables
  BY ZenonT(60) DEF ClientSend, ClientRetransmit, Tables, tcpVars, userVars, peerVars
<1> QED
  BY ZenonT(60), <1>3, <1>4, <1>5, <1>6, SendEffect

(* The switch keeps a CONN_STATE in flight. *)
LEMMA SwitchForwardEffect ==
    ASSUME Inductive, Inductive', NEW s \in Server, SwitchForward(s)
    PROVE  Effect
<1>1. PICK i \in Arrivals(Up(s)) :
         LET m == net[Up(s)][i] IN
         \E t \in IF m.type = "PREPARE_MIG" THEN Server ELSE {m.dst} :
             /\ net' = [net EXCEPT ![Up(s)] = Without(@, i), ![Down(t)] = Append(@, m)]
             /\ UNCHANGED <<tcpVars, migVars, userVars, panicked, peerVars, used>>
  BY ZenonT(60) DEF SwitchForward
<1>2. PICK m : m = net[Up(s)][i]
  OBVIOUS
<1>3. PICK n : n = Removed(net, Up(s), i)
  OBVIOUS
<1>4. i \in 1 .. Len(net[Up(s)])
  BY DEF Arrivals
<1>5. net \in Nets /\ Up(s) \in Link /\ net[Up(s)] \in Seq(Packet)
  BY LinkFacts, NetType DEF Nets
<1>6. m \in Packet /\ m.type # "SEGMENT"
  BY <1>2, <1>4, <1>5 DEF Inductive, NoSegmentGoesUp
<1>7. m.type # "PREPARE_MIG" => m.dst \in Server
  BY <1>6 DEF Packet
<1>8. PICK t \in Server :
         /\ net' = [net EXCEPT ![Up(s)] = Without(@, i), ![Down(t)] = Append(@, m)]
         /\ UNCHANGED <<tcpVars, migVars, userVars, panicked, peerVars, used>>
  BY ZenonT(120), <1>1, <1>2, <1>7
<1>9. Down(t) \in Link /\ Down(t) # Up(s)
  BY LinkFacts
<1>10. net' = Added(n, Down(t), m)
  BY SMTT(120), <1>3, <1>5, <1>8, <1>9 DEF Added, Removed, Nets
<1>11. n \in Nets
  BY ZenonT(60), <1>3, <1>4, <1>5, RemovedFacts
<1>12. UNCHANGED Tables
  BY ZenonT(60), <1>8 DEF Tables, tcpVars, userVars, peerVars
<1>13. ASSUME NEW d \in Client
       PROVE  Same(d)
  <2>1. CASE ~IsStateOf(m, d)
    <3>1. SameCarried(net, n, d)
      BY ZenonT(60), <1>2, <1>3, <1>4, <1>5, <2>1, RemovedCarried
    <3>2. SameCarried(n, net', d)
      BY ZenonT(60), <1>6, <1>9, <1>10, <1>11, <2>1, AddedCarried
    <3>3. SameCarried(net, net', d)
      BY ZenonT(60), <3>1, <3>2 DEF SameCarried
    <3> QED
      BY <1>12, <3>3, SameStep DEF Tables, SameData
  <2>2. CASE IsStateOf(m, d)
    <3>1. Carried(net, d, m.cb)
      BY ZenonT(60), <1>2, <1>4, <1>5, <2>2 DEF Carried
    <3>2. Carried(net', d, m.cb)
      BY ZenonT(60), <1>6, <1>9, <1>10, <1>11, <2>2, AddedCarried
    <3>3. Carried(net, d, m.cb)'
      BY <1>2, <3>2 DEF Carried
    <3>4. PlaceOf(d) /\ PlaceOf(d)'
      BY PlaceFactsHold, PlaceFactsAfter DEF PlaceFacts
    <3>5. HolderOf(d)' = HolderOf(d) /\ ControlBlocks(d)' = ControlBlocks(d)
      BY <3>1, <3>3, <3>4 DEF PlaceOf
    <3> QED
      BY <1>12, <3>5 DEF Same, SameData, Tables
  <2> QED
    BY <2>1, <2>2
<1> QED
  BY <1>13 DEF Effect

(* Initiating a migration sends PREPARE_MIG, or panics. *)
LEMMA InitiateEffect ==
    ASSUME Inductive, Inductive', NEW s \in Server,
           (\E q \in Qd : InitiateMigration(s, q)) \/ (\E c \in Client : InitiateMigrationByAddr(s, c))
    PROVE  Effect
<1>1. UNCHANGED Tables
  BY ZenonT(60) DEF InitiateMigration, InitiateMigrationByAddr, Tables, tcpVars, userVars, peerVars
<1>2. ASSUME NEW c \in Client, NEW q, Initiate(s, c, q)
      PROVE  Effect
  <2>1. PrepareMig(s, c) \in Packet /\ PrepareMig(s, c).type # "CONN_STATE"
    BY DEF PrepareMig, Packet
  <2>2. net' = [net EXCEPT ![Up(s)] = Append(@, PrepareMig(s, c))]
    BY ZenonT(60), <1>2 DEF Initiate
  <2> QED
    BY ZenonT(60), <1>1, <2>1, <2>2, LinkFacts, SendEffect
<1>3. ASSUME NEW q \in Qd, InitiateMigration(s, q)
      PROVE  Effect
  <2>1. sockets[s][q].conn \in Client
    BY ZenonT(60), <1>3, EstablishedFacts DEF InitiateMigration
  <2>2. Initiate(s, sockets[s][q].conn, q) \/ UNCHANGED net
    BY ZenonT(60), <1>3 DEF InitiateMigration
  <2>3. CASE UNCHANGED net
    BY <1>1, <2>3, NoNetEffect
  <2> QED
    BY ZenonT(60), <1>2, <2>1, <2>2, <2>3
<1> QED
  BY ZenonT(60), <1>2, <1>3 DEF InitiateMigrationByAddr

(* PREPARE_MIG is answered, sent again, or taken by a server that panics. *)
LEMMA PrepareEffect ==
    ASSUME Inductive, Inductive', NEW s \in Server, ReceivePrepareMig(s) \/ ReceiveReturned(s)
    PROVE  Effect
<1>1. PICK i \in 1 .. Len(net[Down(s)]) :
         LET m == net[Down(s)][i] IN
         /\ m.type = "PREPARE_MIG"
         /\ \/ TakeAndSend(s, i, PrepareMigAck(s, m.client, m.src))
            \/ TakeAndSend(s, i, PrepareMig(s, m.client))
            \/ Take(s, i)
  BY ZenonT(60) DEF ReceivePrepareMig, ReceiveReturned, IsNext
<1>2. PICK m : m = net[Down(s)][i]
  OBVIOUS
<1>3. m.client \in Client /\ m.src \in Server
  BY ZenonT(60), <1>1, <1>2, PacketFacts
<1>4. /\ PrepareMigAck(s, m.client, m.src) \in Packet
      /\ PrepareMigAck(s, m.client, m.src).type # "CONN_STATE"
      /\ PrepareMig(s, m.client) \in Packet
      /\ PrepareMig(s, m.client).type # "CONN_STATE"
  BY <1>3 DEF PrepareMigAck, PrepareMig, Packet
<1>5. net[Down(s)][i].type # "CONN_STATE"
  BY <1>1
<1>6. UNCHANGED Tables
  BY ZenonT(60) DEF ReceivePrepareMig, ReceiveReturned, Tables, tcpVars, userVars, peerVars
<1>7. CASE Take(s, i)
  BY ZenonT(60), <1>6, <1>7, TakeEffect
<1>8. CASE TakeAndSend(s, i, PrepareMigAck(s, m.client, m.src))
  BY ZenonT(60), <1>4, <1>5, <1>6, <1>8, ReplyEffect
<1>9. CASE TakeAndSend(s, i, PrepareMig(s, m.client))
  BY ZenonT(60), <1>4, <1>5, <1>6, <1>9, ReplyEffect
<1> QED
  BY ZenonT(60), <1>1, <1>2, <1>7, <1>8, <1>9

(* The target and the origin take a message, which may be a CONN_STATE     *)
(* that is refused.                                                        *)
LEMMA TakenEffect ==
    ASSUME Inductive, Inductive', NEW s \in Server,
           \/ ReceiveConnStateAck(s) \/ ReceiveUnexpected(s) \/ ReceiveUnknown(s)
           \/ BufferSegment(s) \/ DropSegment(s)
    PROVE  Effect
<1>1. UNCHANGED Tables
  BY ZenonT(60) DEF ReceiveConnStateAck, ReceiveUnexpected, ReceiveUnknown, BufferSegment, DropSegment,
               Tables, tcpVars, userVars, peerVars
<1>2. PICK i \in 1 .. Len(net[Down(s)]) : Take(s, i)
  BY ZenonT(60) DEF ReceiveConnStateAck, ReceiveUnexpected, ReceiveUnknown, BufferSegment, DropSegment
<1> QED
  BY ZenonT(60), <1>1, <1>2, TakeEffect

(* PREPARE_MIG_ACK: the connection leaves with its control block. *)
LEMMA ReceivePrepareMigAckEffect ==
    ASSUME Inductive, Inductive', NEW s \in Server, ReceivePrepareMigAck(s)
    PROVE  Effect
<1>1. PICK i \in 1 .. Len(net[Down(s)]) :
        LET m == net[Down(s)][i]
            q == active[s][m.client].qd
            c == sockets[s][q].conn
        IN
        /\ IsNext(s, i, "PREPARE_MIG_ACK")
        /\ active[s][m.client] # None
        /\ active[s][m.client].stage = "PREPARE_MIG"
        /\ \/ /\ Take(s, i)
              /\ UNCHANGED established
           \/ /\ IsEstablished(s, q)
              /\ MigrateOut(s, q, c)
              /\ TakeAndSend(s, i, [type |-> "CONN_STATE", client |-> c, src |-> s,
                                    dst |-> Acknowledged(s, m)[s][c].dest,
                                    cb |-> ControlBlockState(established[s][c]),
                                    app |-> appState[s][c] = "Registered"])
        /\ UNCHANGED <<ready, delivered, peerVars>>
  BY ZenonT(60) DEF ReceivePrepareMigAck
<1>2. PICK m : m = net[Down(s)][i]
  OBVIOUS
<1>3. PICK q : q = active[s][m.client].qd
  OBVIOUS
<1>4. PICK c : c = sockets[s][q].conn
  OBVIOUS
<1>5. PICK dst : dst = Acknowledged(s, m)[s][c].dest
  OBVIOUS
<1>6. PICK state : state = [type |-> "CONN_STATE", client |-> c, src |-> s, dst |-> dst,
                            cb |-> ControlBlockState(established[s][c]),
                            app |-> appState[s][c] = "Registered"]
  BY ZenonT(60)
<1>7. CASE Take(s, i) /\ UNCHANGED established
  <2>1. UNCHANGED Tables
    BY ZenonT(60), <1>1, <1>7 DEF Tables, peerVars
  <2> QED
    BY ZenonT(60), <1>7, <2>1, TakeEffect
<1>8. CASE IsEstablished(s, q) /\ MigrateOut(s, q, c) /\ TakeAndSend(s, i, state)
  <2>1. m.client \in Client /\ m.type = "PREPARE_MIG_ACK"
    BY ZenonT(60), <1>1, <1>2, PacketFacts DEF IsNext
  <2>2. q \in Qd
    BY ZenonT(120), <1>1, <1>2, <1>3, <2>1 DEF Inductive, OriginHasDescriptor
  <2>3. c \in Client /\ established[s][c] \in ControlBlock
    BY ZenonT(60), <1>4, <1>8, <2>2, EstablishedFacts
  <2>4. established[s][c] # None /\ ControlBlockState(established[s][c]) = established[s][c]
    BY ZenonT(60), <2>3, NoneAssumption DEF ControlBlock, ControlBlockState
  <2>5. /\ state.type = "CONN_STATE" /\ state.client = c /\ state.cb = established[s][c]
        /\ IsStateOf(state, c)
    BY <1>6, <2>4 DEF IsStateOf
  <2>6. established' = [established EXCEPT ![s][c] = None]
    BY ZenonT(60), <1>8 DEF MigrateOut
  <2>7. \A t \in Server, d \in Client : d # c => established'[t][d] = established[t][d]
    BY <2>6, EstablishedType
  <2>8. state \in Packet
    <3>1. /\ net \in Nets /\ net' \in Nets
          /\ Up(s) \in Link /\ Down(s) \in Link /\ Up(s) # Down(s)
      BY ZenonT(60), LinkFacts DEF Inductive, TypeOK, Nets
    <3>2. net'[Up(s)] = Append(net[Up(s)], state)
      BY ZenonT(60), <1>8, <3>1 DEF TakeAndSend, Nets
    <3>3. net[Up(s)] \in Seq(Packet) /\ net'[Up(s)] \in Seq(Packet)
      BY <3>1 DEF Nets
    <3>4. /\ Len(net'[Up(s)]) = Len(net[Up(s)]) + 1 /\ Len(net[Up(s)]) \in Nat
          /\ net'[Up(s)][Len(net[Up(s)]) + 1] = state
      BY <3>2, <3>3
    <3>5. Len(net[Up(s)]) + 1 \in 1 .. Len(net'[Up(s)])
      BY <3>4
    <3> QED
      BY ZenonT(60), <3>3, <3>4, <3>5, ElementType
  <2>9. \A d \in Client : ~IsStateOf(net[Down(s)][i], d)
    BY <1>2, <2>1 DEF IsStateOf
  <2>10. Carried(net', c, established[s][c])
    BY ZenonT(60), <1>8, <2>3, <2>5, <2>8, <2>9, TakeAndSendCarried
  <2>11. ASSUME NEW d \in Client \ {c}
         PROVE  Same(d)
    <3>1. SameCarried(net, net', d)
      <4>1. ~IsStateOf(state, d)
        BY <2>5 DEF IsStateOf
      <4> QED
        BY ZenonT(60), <1>8, <2>8, <2>9, <4>1, TakeAndSendCarried
    <3>2. SameData(d)
      BY ZenonT(60), <1>1 DEF SameData, peerVars
    <3>3. \A t \in Server : ready'[t][d] = ready[t][d] /\ established'[t][d] = established[t][d]
      BY ZenonT(60), <1>1, <2>7
    <3> QED
      BY <3>1, <3>2, <3>3, SameStep
  <2>12. Departs(c)
    <3>1. PlaceOf(c) /\ PlaceOf(c)'
      BY <2>3, PlaceFactsHold, PlaceFactsAfter DEF PlaceFacts
    <3>2. PICK cb : cb = established[s][c]
      OBVIOUS
    <3>3. HasAt(s, c, cb)
      BY <2>4, <3>2 DEF HasAt
    <3>4. Carried(net, c, cb)'
      BY <2>10, <3>2 DEF Carried
    <3>5. /\ HolderOf(c) = s /\ ControlBlocks(c) = {cb}
          /\ HolderOf(c)' = Transit' /\ ControlBlocks(c)' = {cb}
      BY ZenonT(60), <3>1, <3>3, <3>4 DEF PlaceOf
    <3>6. SameData(c)
      BY ZenonT(60), <1>1 DEF SameData, peerVars
    <3> QED
      BY <3>5, <3>6 DEF Departs, Transit
  <2> QED
    BY ZenonT(60), <2>3, <2>11, <2>12 DEF Effect, Moves
<1> QED
  BY ZenonT(60), <1>1, <1>2, <1>3, <1>4, <1>5, <1>6, <1>7, <1>8

=============================================================================
