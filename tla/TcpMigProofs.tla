---------------------------- MODULE TcpMigProofs ----------------------------
(***************************************************************************)
(* Proofs about TcpMig, for any number of servers, clients, descriptors    *)
(* and segments, with packets lost and reordered: the steps of the clients,*)
(* the switch, the network, the migration protocol and the application     *)
(* preserve the inductive invariant, and so every behaviour satisfies it;  *)
(* with it, application state stays with its connection and no pop sleeps  *)
(* on one that has migrated out.                                           *)
(***************************************************************************)
EXTENDS TcpMigLemmas

NetStep ==
    /\ net' \in Nets
    /\ NoSegmentGoesUp(net')
    /\ \A d \in Client : UniqueState(net', d) /\ (StateInFlight(net', d) => StateInFlight(net, d))

(* A step that leaves the network alone is a NetStep. *)
LEMMA NetUnchanged ==
    ASSUME Inductive, UNCHANGED net
    PROVE  NetStep
BY ZenonT(60), NetType DEF Inductive, SingleOwner, Nets, NetStep

(* A server that sends a packet takes a NetStep. *)
LEMMA SendFacts ==
    ASSUME Inductive, NEW l \in Link, NEW m \in Packet,
           m.type # "SEGMENT" \/ \A s \in Server : l # Up(s),
           \A d \in Client : ~IsStateOf(m, d),
           net' = [net EXCEPT ![l] = Append(@, m)]
    PROVE  NetStep
<1>1. net \in Nets /\ net' = Added(net, l, m)
  BY NetType DEF Nets, Added
<1>2. NoSegmentGoesUp(net) /\ \A d \in Client : UniqueState(net, d)
  BY DEF Inductive, SingleOwner
<1>3. net' \in Nets /\ NoSegmentGoesUp(net')
  BY ZenonT(60), <1>1, <1>2, AddedFacts
<1>4. \A d \in Client : UniqueState(net', d) /\ (StateInFlight(net', d) => StateInFlight(net, d))
  BY ZenonT(60), <1>1, <1>2, AddedFacts
<1> QED
  BY ZenonT(60), <1>3, <1>4 DEF NetStep

(* A server that takes a packet takes a NetStep. *)
LEMMA TakeFacts ==
    ASSUME Inductive, NEW l \in Link, NEW i \in 1 .. Len(net[l]),
           net' = [net EXCEPT ![l] = Without(@, i)]
    PROVE  NetStep
<1>1. net \in Nets /\ net' = Removed(net, l, i)
  BY NetType DEF Nets, Removed
<1> QED
  BY ZenonT(120), <1>1, RemovedFacts DEF Inductive, SingleOwner, NetStep

(* A server that takes a packet and answers takes a NetStep. *)
LEMMA TakeAndSendFacts ==
    ASSUME Inductive, NEW s \in Server, NEW i \in 1 .. Len(net[Down(s)]), NEW m \in Packet,
           m.type # "SEGMENT", TakeAndSend(s, i, m)
    PROVE  /\ net' \in Nets
           /\ NoSegmentGoesUp(net')
           /\ \A d \in Client : ~IsStateOf(m, d) =>
                 /\ UniqueState(net', d)
                 /\ StateInFlight(net', d) => StateInFlight(net, d)
                 /\ IsStateOf(net[Down(s)][i], d) => ~StateInFlight(net', d)
           /\ \A d \in Client : ~StateInFlight(net, d) => UniqueState(net', d)
<1> DEFINE n == Removed(net, Down(s), i)
<1>1. net \in Nets /\ Down(s) \in Link /\ Up(s) \in Link /\ Up(s) # Down(s)
  BY LinkFacts, NetType DEF Nets
<1>2. net' = Added(n, Up(s), m)
  BY <1>1 DEF TakeAndSend, Added, Removed, Nets
<1>3. /\ n \in Nets
      /\ NoSegmentGoesUp(n)
      /\ \A d \in Client : UniqueState(n, d)
      /\ \A d \in Client : StateInFlight(n, d) => StateInFlight(net, d)
      /\ \A d \in Client : IsStateOf(net[Down(s)][i], d) => ~StateInFlight(n, d)
  BY <1>1, RemovedFacts DEF Inductive, SingleOwner
<1> HIDE DEF n
<1> QED
  BY <1>1, <1>2, <1>3, AddedFacts

(* A step that leaves the tables alone and adds no CONN_STATE. *)
LEMMA Frame ==
    ASSUME Inductive, TypeOK', NetStep, OriginHasDescriptor',
           UNCHANGED <<tcpVars, pops>>
    PROVE  Inductive'
<1>1. SingleOwner'
  BY DEF Inductive, SingleOwner, tcpVars, Held, NetStep
<1>2. TablesAgree'
  BY DEF Inductive, TablesAgree, IsEstablished, tcpVars
<1>3. PopsHaveSocket'
  BY DEF Inductive, PopsHaveSocket, tcpVars
<1> QED
  BY <1>1, <1>2, <1>3 DEF Inductive, NetStep

(* The switch hands a segment of a client to its owner. *)
LEMMA ToOwnerFacts ==
    ASSUME Inductive, NEW c \in Client, NEW n \in 1 .. MaxSeg, ToOwner(c, n)
    PROVE  NetStep
<1> DEFINE m == [type |-> "SEGMENT", client |-> c, seq |-> n]
<1>1. m \in Packet /\ \A d \in Client : ~IsStateOf(m, d)
  BY DEF Packet, IsStateOf
<1>2. Down(owner[c]) \in Link /\ \A s \in Server : Down(owner[c]) # Up(s)
  BY ZenonT(60), LinkFacts, OwnerType
<1>3. net' = [net EXCEPT ![Down(owner[c])] = Append(@, m)]
  BY SMTT(120) DEF ToOwner
<1> HIDE DEF m
<1> QED
  BY ZenonT(60), <1>1, <1>2, <1>3, SendFacts

(* ClientSend preserves the invariant: it changes only packets. *)
LEMMA ClientSendStep ==
    ASSUME Inductive, NEW c \in Client, ClientSend(c)
    PROVE  Inductive'
<1>1. sent[c] + 1 \in 1 .. MaxSeg
  BY ConstantAssumption, SentType DEF ClientSend
<1>2. NetStep
  BY <1>1, ToOwnerFacts DEF ClientSend
<1>3. TypeOK'
  BY <1>1, <1>2 DEF Inductive, TypeOK, ClientSend, tcpVars, migVars, userVars, NetStep, Nets
<1> QED
  BY ZenonT(60), <1>2, <1>3, Frame
  DEF Inductive, OriginHasDescriptor, ClientSend, tcpVars, migVars, userVars

(* A step taken from the budget. *)
LEMMA SpendType ==
    ASSUME Inductive, NEW k \in BudgetKind, Spend(k)
    PROVE  used' \in [BudgetKind -> Nat]
BY UsedType DEF Spend

(* ClientRetransmit preserves it: the segment was sent before. *)
LEMMA ClientRetransmitStep ==
    ASSUME Inductive, NEW c \in Client, ClientRetransmit(c)
    PROVE  Inductive'
<1>1. PICK n \in (acked[c] + 1) .. sent[c] : ToOwner(c, n)
  BY ZenonT(60) DEF ClientRetransmit
<1>2. n \in 1 .. MaxSeg
  BY ConstantAssumption, SentType, AckedType
<1>3. NetStep
  BY ZenonT(60), <1>1, <1>2, ToOwnerFacts
<1>4. used' \in [BudgetKind -> Nat]
  BY SpendType DEF ClientRetransmit, BudgetKind
<1>5. TypeOK'
  BY ZenonT(120), <1>3, <1>4
  DEF Inductive, TypeOK, ClientRetransmit, tcpVars, migVars, userVars, peerVars, NetStep, Nets
<1> QED
  BY ZenonT(60), <1>3, <1>5, Frame
  DEF Inductive, OriginHasDescriptor, ClientRetransmit, tcpVars, migVars, userVars

(* Lose preserves it: a network with fewer packets. *)
LEMMA LoseStep ==
    ASSUME Inductive, NEW l \in Link, Lose(l)
    PROVE  Inductive'
<1>1. NetStep
  BY ZenonT(60), TakeFacts DEF Lose
<1>2. used' \in [BudgetKind -> Nat]
  BY SpendType DEF Lose, BudgetKind
<1>3. TypeOK'
  BY ZenonT(120), <1>1, <1>2 DEF Inductive, TypeOK, Lose, tcpVars, migVars, userVars, peerVars, NetStep, Nets
<1> QED
  BY ZenonT(60), <1>1, <1>3, Frame
  DEF Inductive, OriginHasDescriptor, Lose, tcpVars, migVars, userVars

(* The switch moves a packet: it removes it from one link and adds it to   *)
(* another, so a CONN_STATE stays the only one.                            *)
LEMMA SwitchForwardStep ==
    ASSUME Inductive, NEW s \in Server, SwitchForward(s)
    PROVE  Inductive'
<1>1. PICK i \in Arrivals(Up(s)) :
         LET m == net[Up(s)][i] IN
         \E t \in IF m.type = "PREPARE_MIG" THEN Server ELSE {m.dst} :
             /\ net' = [net EXCEPT ![Up(s)] = Without(@, i), ![Down(t)] = Append(@, m)]
             /\ owner' = OwnerAfter(m, t)
             /\ UNCHANGED <<tcpVars, migVars, userVars, panicked, peerVars, used>>
  BY ZenonT(60) DEF SwitchForward
<1> DEFINE m == net[Up(s)][i]
           n == Removed(net, Up(s), i)
<1>2. i \in 1 .. Len(net[Up(s)])
  BY ZenonT(60) DEF Arrivals
<1>3. net \in Nets /\ Up(s) \in Link /\ net[Up(s)] \in Seq(Packet)
  BY LinkFacts, NetType DEF Nets
<1>4. m \in Packet /\ m.type # "SEGMENT"
  BY <1>2, <1>3 DEF Inductive, NoSegmentGoesUp
<1>5. /\ m.client \in Client /\ m.src \in Server
      /\ m.type # "PREPARE_MIG" => m.dst \in Server
  BY ZenonT(60), <1>4 DEF Packet
<1>6. PICK t \in Server :
         /\ net' = [net EXCEPT ![Up(s)] = Without(@, i), ![Down(t)] = Append(@, m)]
         /\ owner' = OwnerAfter(m, t)
         /\ UNCHANGED <<tcpVars, migVars, userVars, panicked, peerVars, used>>
  BY ZenonT(120), <1>1, <1>5
<1>7. /\ n \in Nets
      /\ NoSegmentGoesUp(n)
      /\ \A d \in Client : UniqueState(n, d)
      /\ \A d \in Client : StateInFlight(n, d) => StateInFlight(net, d)
      /\ \A d \in Client : IsStateOf(m, d) => ~StateInFlight(n, d)
  BY ZenonT(60), <1>2, <1>3, RemovedFacts DEF Inductive, SingleOwner
<1>8. \A d \in Client : IsStateOf(m, d) => StateInFlight(net, d)
  BY <1>2, <1>3 DEF StateInFlight
<1>9. Down(t) \in Link /\ Down(t) # Up(s) /\ \A u \in Server : Down(t) # Up(u)
  BY LinkFacts
<1>10. net' = Added(n, Down(t), m)
  BY ZenonT(60), <1>3, <1>6, <1>9 DEF Added, Removed, Nets
<1>11. owner' \in [Client -> Server]
  BY ZenonT(60), <1>5, <1>6, OwnerType DEF OwnerAfter
<1> HIDE DEF m, n
<1>12. NetStep
  BY ZenonT(60), <1>4, <1>7, <1>8, <1>9, <1>10, AddedFacts DEF NetStep
<1>13. TypeOK'
  BY ZenonT(120), <1>6, <1>11, <1>12 DEF Inductive, TypeOK, tcpVars, migVars, userVars, peerVars, NetStep, Nets
<1> QED
  BY ZenonT(60), <1>6, <1>12, <1>13, Frame DEF Inductive, OriginHasDescriptor, tcpVars, migVars, userVars

(* A step that only takes a packet. *)
LEMMA TakeStep ==
    ASSUME Inductive, NEW s \in Server, NEW i \in 1 .. Len(net[Down(s)]), Take(s, i)
    PROVE  NetStep
BY ZenonT(60), TakeFacts, LinkFacts DEF Take

(* A step that takes a packet and sends one that is not a CONN_STATE. *)
LEMMA ReplyStep ==
    ASSUME Inductive, NEW s \in Server, NEW i \in 1 .. Len(net[Down(s)]), NEW m \in Packet,
           m.type \notin {"SEGMENT", "CONN_STATE"}, TakeAndSend(s, i, m)
    PROVE  NetStep
<1>1. m.type # "SEGMENT" /\ \A d \in Client : ~IsStateOf(m, d)
  BY DEF IsStateOf
<1> QED
  BY <1>1, TakeAndSendFacts DEF NetStep

(* A packet taken by a server that leaves every table alone. *)
LEMMA TakeOnly ==
    ASSUME Inductive, NEW s \in Server, NEW i \in 1 .. Len(net[Down(s)]), Take(s, i),
           panicked' \in [Server -> PanicReason \cup {"no"}],
           UNCHANGED <<owner, tcpVars, migVars, userVars, peerVars, used>>
    PROVE  Inductive'
<1>1. NetStep
  BY SMTT(120), TakeStep
<1>2. TypeOK'
  BY ZenonT(60), <1>1 DEF Inductive, TypeOK, tcpVars, migVars, userVars, peerVars, NetStep, Nets
<1> QED
  BY <1>1, <1>2, Frame DEF Inductive, OriginHasDescriptor, tcpVars, migVars, userVars

(* A panic keeps the type of panicked. *)
LEMMA PanicType ==
    ASSUME Inductive, NEW s \in Server, NEW why \in PanicReason, Panic(s, why)
    PROVE  panicked' \in [Server -> PanicReason \cup {"no"}]
BY PanickedType DEF Panic

(* The acknowledgement the client learns is a number. *)
LEMMA AcknowledgeType ==
    ASSUME Inductive, NEW c \in Client, NEW cb \in ControlBlock, MayAcknowledge(c, cb)
    PROVE  acked' \in [Client -> Nat]
<1>1. cb.next \in Nat
  BY DEF ControlBlock
<1> QED
  BY ZenonT(60), <1>1, AckedType DEF MayAcknowledge

(* Waking a pop coroutine keeps the type and which are idle. *)
LEMMA WakeFacts ==
    ASSUME Inductive, NEW s \in Server, NEW q \in Qd, Wake(s, q)
    PROVE  /\ pops' \in [Server -> [Qd -> {"idle", "notified", "waiting"}]]
           /\ \A t \in Server, p \in Qd : pops'[t][p] # "idle" => pops[t][p] # "idle"
<1>1. pops \in [Server -> [Qd -> {"idle", "notified", "waiting"}]]
  BY PopsType
<1> QED
  BY <1>1 DEF Wake

(* A step that replaces the control block of an established connection. *)
LEMMA ReplaceControlBlock ==
    ASSUME Inductive, TypeOK', NetStep, NEW s \in Server, NEW c \in Client, NEW cb \in ControlBlock,
           established[s][c] # None,
           established' = [established EXCEPT ![s][c] = cb],
           \A t \in Server, p \in Qd : pops'[t][p] # "idle" => pops[t][p] # "idle",
           UNCHANGED <<ready, sockets, qds, files, active>>
    PROVE  Inductive'
<1>1. \A t \in Server, d \in Client : established'[t][d] = None <=> established[t][d] = None
  <2>1. cb # None
    BY ZenonT(60), NoneAssumption
  <2>2. established \in [Server -> [Client -> ControlBlock \cup {None}]]
    BY EstablishedType
  <2> QED
    BY <2>1, <2>2
<1>2. \A t \in Server, d \in Client : Held(t, d)' <=> Held(t, d)
  BY <1>1 DEF Held
<1>3. SingleOwner'
  BY ZenonT(60), <1>1, <1>2 DEF Inductive, SingleOwner, NetStep
<1>4. TablesAgree'
  <2>1. \A t \in Server, p \in Qd : IsEstablished(t, p)' <=> IsEstablished(t, p)
    BY ZenonT(60) DEF IsEstablished
  <2>2. \A t \in Server, p \in Qd : IsEstablished(t, p) => sockets[t][p].conn \in Client
    BY ZenonT(60), EstablishedFacts
  <2> QED
    BY <1>1, <2>1, <2>2 DEF Inductive, TablesAgree
<1>5. PopsHaveSocket' /\ OriginHasDescriptor'
  BY DEF Inductive, PopsHaveSocket, OriginHasDescriptor
<1> QED
  BY <1>3, <1>4, <1>5 DEF Inductive, NetStep

-----------------------------------------------------------------------------
(* The steps of the migration protocol. *)

(* Initiating a migration preserves the invariant: its entry has the       *)
(* descriptor that migrate_out_connection will look up.                    *)
LEMMA InitiateStep ==
    ASSUME Inductive, NEW s \in Server, NEW c \in Client, NEW q \in Qd, Initiate(s, c, q),
           used' \in [BudgetKind -> Nat],
           UNCHANGED <<owner, tcpVars, appState, userVars, panicked, peerVars>>
    PROVE  Inductive'
<1>1. NetStep
  <2>1. PrepareMig(s, c) \in Packet /\ PrepareMig(s, c).type = "PREPARE_MIG"
    BY DEF PrepareMig, Packet
  <2>2. \A d \in Client : ~IsStateOf(PrepareMig(s, c), d)
    BY ZenonT(60), <2>1 DEF IsStateOf
  <2> QED
    BY ZenonT(60), <2>1, <2>2, SendFacts, LinkFacts DEF Initiate
<1>2. active' = [active EXCEPT ![s][c] = OriginMigration(s, q)]
  BY ZenonT(60) DEF Initiate
<1>3. active' \in [Server -> [Client -> ActiveMigration \cup {None}]]
  BY ZenonT(60), <1>2, OriginMigrationType, ActiveType
<1>4. TypeOK'
  BY ZenonT(60), <1>1, <1>3 DEF Inductive, TypeOK, tcpVars, userVars, peerVars, NetStep, Nets
<1>5. OriginHasDescriptor'
  BY <1>2, OriginMigrationType, ActiveType DEF Inductive, OriginHasDescriptor
<1> QED
  BY ZenonT(60), <1>1, <1>4, <1>5, Frame DEF tcpVars, userVars

(* InitiateMigration preserves the invariant. *)
LEMMA InitiateMigrationStep ==
    ASSUME Inductive, NEW s \in Server, NEW q \in Qd, InitiateMigration(s, q)
    PROVE  Inductive'
<1> DEFINE c == sockets[s][q].conn
<1>1. c \in Client
  <2>1. IsEstablished(s, q)
    BY ZenonT(60) DEF InitiateMigration
  <2> QED
    BY ZenonT(60), <2>1, EstablishedFacts
<1>2. used' \in [BudgetKind -> Nat]
  <2>1. Spend("init") /\ "init" \in BudgetKind
    BY ZenonT(60) DEF InitiateMigration, BudgetKind
  <2> QED
    BY <2>1, SpendType
<1>3. CASE Initiate(s, c, q) /\ UNCHANGED panicked
  BY ZenonT(60), <1>1, <1>2, <1>3, InitiateStep DEF InitiateMigration
<1>4. CASE Panic(s, "duplicate initiate migration") /\ UNCHANGED <<active, net>>
  <2>1. TypeOK'
    BY ZenonT(60), <1>2, <1>4
    DEF InitiateMigration, Inductive, TypeOK, Panic, PanicReason, tcpVars, userVars, peerVars
  <2> QED
    BY ZenonT(60), <1>4, <2>1, NetUnchanged, Frame
    DEF InitiateMigration, Inductive, OriginHasDescriptor, tcpVars, userVars
<1> QED
  BY ZenonT(60), <1>3, <1>4 DEF InitiateMigration

(* InitiateMigrationByAddr preserves the invariant: qds has a descriptor. *)
LEMMA InitiateMigrationByAddrStep ==
    ASSUME Inductive, NEW s \in Server, NEW c \in Client, InitiateMigrationByAddr(s, c)
    PROVE  Inductive'
<1>1. qds[s][c] \in Qd
  BY ZenonT(60), QdsType DEF InitiateMigrationByAddr
<1>2. used' \in [BudgetKind -> Nat]
  <2>1. Spend("init") /\ "init" \in BudgetKind
    BY ZenonT(60) DEF InitiateMigrationByAddr, BudgetKind
  <2> QED
    BY <2>1, SpendType
<1> QED
  BY ZenonT(60), <1>1, <1>2, InitiateStep DEF InitiateMigrationByAddr

(* ReceivePrepareMig preserves the invariant: the target has no descriptor yet. *)
LEMMA ReceivePrepareMigStep ==
    ASSUME Inductive, NEW s \in Server, ReceivePrepareMig(s)
    PROVE  Inductive'
<1>1. PICK i \in 1 .. Len(net[Down(s)]) :
         LET m == net[Down(s)][i] IN
         /\ IsNext(s, i, "PREPARE_MIG")
         /\ active' = [active EXCEPT ![s][m.client] = TargetMigration(m.src)]
         /\ TakeAndSend(s, i, PrepareMigAck(s, m.client, m.src))
         /\ UNCHANGED <<owner, tcpVars, appState, userVars, panicked, peerVars, used>>
  BY ZenonT(60) DEF ReceivePrepareMig
<1> DEFINE m == net[Down(s)][i]
<1>2. m.client \in Client /\ m.src \in Server
  BY ZenonT(60), <1>1, PacketFacts DEF IsNext
<1> HIDE DEF m
<1>3. PrepareMigAck(s, m.client, m.src) \in Packet
      /\ PrepareMigAck(s, m.client, m.src).type = "PREPARE_MIG_ACK"
  BY <1>2 DEF PrepareMigAck, Packet
<1>4. NetStep
  BY ZenonT(60), <1>1, <1>3, ReplyStep DEF m
<1>5. /\ TargetMigration(m.src) \in ActiveMigration
      /\ TargetMigration(m.src).stage # "PREPARE_MIG"
  <2>1. <<>> \in Seq(1 .. MaxSeg)
    OBVIOUS
  <2> QED
    BY <1>2, <2>1 DEF TargetMigration, ActiveMigration, Stage
<1>6. active' = [active EXCEPT ![s][m.client] = TargetMigration(m.src)]
  BY ZenonT(60), <1>1 DEF m
<1>7. TypeOK'
  <2>1. active' \in [Server -> [Client -> ActiveMigration \cup {None}]]
    BY ZenonT(60), <1>2, <1>5, <1>6, ActiveType
  <2> QED
    BY ZenonT(120), <1>1, <1>4, <2>1 DEF Inductive, TypeOK, tcpVars, userVars, peerVars, NetStep, Nets
<1>8. OriginHasDescriptor'
  BY ZenonT(60), <1>2, <1>5, <1>6, ActiveType DEF Inductive, OriginHasDescriptor
<1> QED
  BY <1>1, <1>4, <1>7, <1>8, Frame DEF tcpVars, userVars

(* ReceiveReturned preserves the invariant: the descriptor comes from qds. *)
LEMMA ReceiveReturnedStep ==
    ASSUME Inductive, NEW s \in Server, ReceiveReturned(s)
    PROVE  Inductive'
<1>1. PICK i \in 1 .. Len(net[Down(s)]) :
         LET c == net[Down(s)][i].client IN
         /\ \/ /\ qds[s][c] # None
               /\ active' = [active EXCEPT ![s][c] = OriginMigration(s, qds[s][c])]
               /\ TakeAndSend(s, i, PrepareMig(s, c))
               /\ UNCHANGED panicked
            \/ /\ Panic(s, "no QD found for connection")
               /\ Take(s, i)
               /\ UNCHANGED active
         /\ UNCHANGED <<owner, tcpVars, appState, userVars, peerVars, used>>
  BY ZenonT(60) DEF ReceiveReturned
<1> DEFINE c == net[Down(s)][i].client
<1>2. c \in Client
  BY PacketFacts
<1> HIDE DEF c
<1>3. CASE /\ qds[s][c] # None
           /\ active' = [active EXCEPT ![s][c] = OriginMigration(s, qds[s][c])]
           /\ TakeAndSend(s, i, PrepareMig(s, c))
           /\ UNCHANGED panicked
  <2>1. qds[s][c] \in Qd
    BY ZenonT(60), <1>2, <1>3, QdsType
  <2>2. PrepareMig(s, c) \in Packet /\ PrepareMig(s, c).type = "PREPARE_MIG"
    BY <1>2 DEF PrepareMig, Packet
  <2>3. NetStep
    BY <1>3, <2>2, ReplyStep
  <2>4. TypeOK'
    BY ZenonT(120), <1>1, <1>2, <1>3, <2>1, <2>3, OriginMigrationType
    DEF Inductive, TypeOK, tcpVars, userVars, peerVars, NetStep, Nets
  <2>5. OriginHasDescriptor'
    BY SMTT(120), <1>2, <1>3, <2>1, OriginMigrationType, PanickedType
    DEF Inductive, OriginHasDescriptor
  <2> QED
    BY ZenonT(120), <1>1, <2>3, <2>4, <2>5, Frame DEF tcpVars, userVars
<1>4. CASE Panic(s, "no QD found for connection") /\ Take(s, i) /\ UNCHANGED active
  <2>1. NetStep
    BY ZenonT(60), <1>4, TakeStep
  <2>2. TypeOK'
    BY ZenonT(120), <1>1, <1>4, <2>1
    DEF Inductive, TypeOK, Panic, PanicReason, tcpVars, userVars, peerVars, NetStep, Nets
  <2> QED
    BY ZenonT(60), <1>1, <1>4, <2>1, <2>2, Frame DEF Inductive, OriginHasDescriptor, tcpVars, userVars
<1> QED
  BY ZenonT(60), <1>1, <1>3, <1>4 DEF c

(* ReceiveUnexpected preserves the invariant: the packet is dropped. *)
LEMMA ReceiveUnexpectedStep ==
    ASSUME Inductive, NEW s \in Server, ReceiveUnexpected(s)
    PROVE  Inductive'
<1>1. PICK i \in 1 .. Len(net[Down(s)]) :
         /\ Take(s, i)
         /\ UNCHANGED <<owner, tcpVars, migVars, userVars, panicked, peerVars, used>>
  BY ZenonT(60) DEF ReceiveUnexpected
<1>2. panicked' \in [Server -> PanicReason \cup {"no"}]
  BY <1>1, PanickedType
<1> QED
  BY ZenonT(60), <1>1, <1>2, TakeOnly

(* ReceiveUnknown preserves the invariant: the server panics. *)
LEMMA ReceiveUnknownStep ==
    ASSUME Inductive, NEW s \in Server, ReceiveUnknown(s)
    PROVE  Inductive'
<1>1. PICK i \in 1 .. Len(net[Down(s)]) :
         /\ Panic(s, "no such active migration")
         /\ Take(s, i)
         /\ UNCHANGED <<owner, tcpVars, migVars, userVars, peerVars, used>>
  BY ZenonT(60) DEF ReceiveUnknown
<1>2. panicked' \in [Server -> PanicReason \cup {"no"}]
  BY ZenonT(60), <1>1, PanicType DEF PanicReason
<1> QED
  BY ZenonT(60), <1>1, <1>2, TakeOnly

(* ReceiveConnStateAck preserves the invariant: an entry is removed. *)
LEMMA ReceiveConnStateAckStep ==
    ASSUME Inductive, NEW s \in Server, ReceiveConnStateAck(s)
    PROVE  Inductive'
<1>1. PICK i \in 1 .. Len(net[Down(s)]) :
         /\ Complete(s, net[Down(s)][i].client)
         /\ Take(s, i)
         /\ UNCHANGED <<owner, tcpVars, appState, userVars, panicked, peerVars, used>>
  BY ZenonT(60) DEF ReceiveConnStateAck
<1> DEFINE c == net[Down(s)][i].client
<1>2. c \in Client
  BY PacketFacts
<1>3. active' = [active EXCEPT ![s][c] = None]
  BY <1>1 DEF Complete
<1> HIDE DEF c
<1>4. NetStep
  BY <1>1, TakeStep
<1>5. active' \in [Server -> [Client -> ActiveMigration \cup {None}]]
  BY SMTT(120), <1>2, <1>3, ActiveType
<1>6. TypeOK'
  BY ZenonT(120), <1>1, <1>4, <1>5 DEF Inductive, TypeOK, tcpVars, userVars, peerVars, NetStep, Nets
<1>7. OriginHasDescriptor'
  BY ZenonT(60), <1>2, <1>3, ActiveType DEF Inductive, OriginHasDescriptor
<1> QED
  BY ZenonT(60), <1>1, <1>4, <1>6, <1>7, Frame DEF tcpVars, userVars

(* CONN_STATE at the target: the only copy in flight becomes the only copy *)
(* held.                                                                   *)
LEMMA ReceiveConnStateStep ==
    ASSUME Inductive, NEW s \in Server, ReceiveConnState(s)
    PROVE  Inductive'
<1>1. PICK i \in 1 .. Len(net[Down(s)]) :
         LET m == net[Down(s)][i]
             c == m.client
         IN
         /\ IsNext(s, i, "CONN_STATE")
         /\ active[s][c] # None
         /\ ready' = [ready EXCEPT ![s][c] = m.cb]
         /\ active' = [active EXCEPT ![s][c].stage = "CONN_STATE_ACK"]
         /\ appState' = [appState EXCEPT ![s][c] = IF m.app THEN "MigratedIn" ELSE @]
         /\ TakeAndSend(s, i, [type |-> "CONN_STATE_ACK", client |-> c, src |-> s, dst |-> m.src])
         /\ AssertOrPanic(s, ready[s][c] = None, "already in accept queue")
         /\ UNCHANGED <<owner, established, sockets, qds, files, userVars, peerVars, used>>
  BY ZenonT(60) DEF ReceiveConnState, MigrateIn
<1> DEFINE m == net[Down(s)][i]
           c == m.client
           ack == [type |-> "CONN_STATE_ACK", client |-> c, src |-> s, dst |-> m.src]
<1>2. /\ c \in Client /\ m.src \in Server /\ m.cb \in ControlBlock /\ m.app \in BOOLEAN
      /\ IsStateOf(m, c)
  BY ZenonT(60), <1>1, PacketFacts DEF IsNext, IsStateOf
<1>3. StateInFlight(net, c)
  BY SMTT(120), <1>2, LinkFacts DEF StateInFlight
<1>4. \A t \in Server : ready[t][c] = None /\ established[t][c] = None
  BY ZenonT(60), <1>2, <1>3 DEF Inductive, SingleOwner, Held
<1>5. ack \in Packet /\ ack.type = "CONN_STATE_ACK" /\ \A d \in Client : ~IsStateOf(ack, d)
  BY ZenonT(60), <1>2 DEF Packet, IsStateOf
<1>6. TakeAndSend(s, i, ack)
  BY ZenonT(60), <1>1
<1>7. /\ ready' = [ready EXCEPT ![s][c] = m.cb]
      /\ active' = [active EXCEPT ![s][c].stage = "CONN_STATE_ACK"]
      /\ appState' = [appState EXCEPT ![s][c] = IF m.app THEN "MigratedIn" ELSE @]
      /\ active[s][c] # None
      /\ AssertOrPanic(s, ready[s][c] = None, "already in accept queue")
  BY ZenonT(60), <1>1
<1> HIDE DEF ack
<1>8. NetStep /\ ~StateInFlight(net', c)
  BY ZenonT(60), <1>2, <1>5, <1>6, TakeAndSendFacts DEF NetStep
<1> HIDE DEF m, c
<1>9. panicked' = panicked
  BY ZenonT(60), <1>4, <1>7 DEF AssertOrPanic
<1>14. /\ active' \in Migrations
       /\ active'[s][c].stage = "CONN_STATE_ACK"
       /\ \A t \in Server, d \in Client : ~(t = s /\ d = c) => active'[t][d] = active[t][d]
  <2> DEFINE x == [active[s][c] EXCEPT !.stage = "CONN_STATE_ACK"]
  <2>1. active \in Migrations
    BY ActiveType DEF Migrations
  <2>2. c \in Client /\ active[s][c] # None
    BY ZenonT(60), <1>2, <1>7
  <2>3. active[s][c] \in ActiveMigration
    BY <2>1, <2>2 DEF Migrations
  <2>4. x \in ActiveMigration /\ x.stage = "CONN_STATE_ACK"
    BY <2>3 DEF ActiveMigration, Stage
  <2>5. active' = [active EXCEPT ![s][c] = x]
    BY ZenonT(60), <1>7
  <2> HIDE DEF x
  <2> QED
    BY SMTT(120), <2>1, <2>2, <2>4, <2>5 DEF Migrations
<1>10. TypeOK'
  <2>1. ready' \in [Server -> [Client -> ControlBlock \cup {None}]]
    BY ZenonT(120), <1>2, <1>7, ReadyType
  <2>2. active' \in [Server -> [Client -> ActiveMigration \cup {None}]]
    BY <1>14 DEF Migrations
  <2>3. appState' \in [Server -> [Client -> {"None", "Registered", "MigratedIn"}]]
    BY ZenonT(120), <1>2, <1>7, AppStateType
  <2> QED
    BY ZenonT(120), <1>1, <1>8, <1>9, <2>1, <2>2, <2>3
    DEF Inductive, TypeOK, userVars, peerVars, NetStep, Nets
<1>11. SingleOwner'
  <2>1. \A t \in Server, d \in Client : d # c => ready'[t][d] = ready[t][d]
    BY ZenonT(120), <1>2, <1>7, ReadyType
  <2>2. \A t \in Server : t # s => ready'[t][c] = None
    BY ZenonT(120), <1>2, <1>4, <1>7, ReadyType
  <2>3. established' = established
    BY ZenonT(60), <1>1
  <2>4. ASSUME NEW d \in Client
        PROVE  /\ \A t, u \in Server : Held(t, d)' /\ Held(u, d)' => t = u
               /\ \A t \in Server : ready'[t][d] = None \/ established'[t][d] = None
               /\ UniqueState(net', d)
               /\ StateInFlight(net', d) => \A t \in Server : ~Held(t, d)'
    <3>1. CASE d = c
      BY SMTT(120), <1>2, <1>4, <1>8, <2>2, <2>3, <3>1 DEF NetStep, Held
    <3>2. CASE d # c
      <4>1. \A t \in Server : Held(t, d)' <=> Held(t, d)
        BY ZenonT(60), <2>1, <2>3, <3>2 DEF Held
      <4> QED
        BY ZenonT(60), <1>8, <2>1, <2>3, <3>2, <4>1 DEF Inductive, SingleOwner, NetStep
    <3> QED
      BY ZenonT(60), <3>1, <3>2
  <2> QED
    BY ZenonT(60), <2>4 DEF SingleOwner
<1>12. TablesAgree' /\ PopsHaveSocket'
  BY ZenonT(120), <1>1 DEF Inductive, TablesAgree, PopsHaveSocket, IsEstablished, userVars
<1>13. OriginHasDescriptor'
  BY <1>14 DEF Inductive, OriginHasDescriptor
<1> QED
  BY ZenonT(60), <1>8, <1>10, <1>11, <1>12, <1>13 DEF Inductive, NetStep

(* PREPARE_MIG_ACK at the origin: the only copy held becomes the only copy *)
(* in flight.                                                              *)
LEMMA MigrateOutStep ==
    ASSUME Inductive, NEW s \in Server, NEW i \in 1 .. Len(net[Down(s)]), NEW q \in Qd,
           NEW c \in Client, NEW m \in Packet,
           m.type = "CONN_STATE" /\ m.client = c,
           IsEstablished(s, q),
           sockets[s][q].conn = c,
           MigrateOut(s, q, c),
           active' \in Migrations,
           OriginHasDescriptor',
           appState' = AppStateAfter(s, c),
           TakeAndSend(s, i, m),
           UNCHANGED <<panicked, owner, ready, files, delivered, peerVars, used>>
    PROVE  Inductive'
<1>1. /\ sockets[s][q] \in Socket /\ qds[s][c] = q
      /\ established[s][c] \in ControlBlock /\ established[s][c] # None
  BY SMTT(120), EstablishedFacts, NoneAssumption
<1>2. Held(s, c) /\ ~StateInFlight(net, c) /\ ready[s][c] = None
  BY ZenonT(60), <1>1 DEF Inductive, SingleOwner, Held
<1>3. /\ net' \in Nets /\ NoSegmentGoesUp(net') /\ UniqueState(net', c)
      /\ \A d \in Client : d # c =>
            UniqueState(net', d) /\ (StateInFlight(net', d) => StateInFlight(net, d))
  <2>1. \A d \in Client : d # c => ~IsStateOf(m, d)
    BY DEF IsStateOf
  <2> QED
    BY ZenonT(60), <1>2, <2>1, TakeAndSendFacts
<1>4. /\ sockets' = [sockets EXCEPT ![s][q].state = "MigratedOut"]
      /\ qds' = [qds EXCEPT ![s][c] = None]
      /\ established' = [established EXCEPT ![s][c] = None]
      /\ pops' = [pops EXCEPT ![s][q] = IF @ = "waiting" THEN "notified" ELSE @]
  BY SMTT(120) DEF MigrateOut, Wake
<1>5. TypeOK'
  <2>1. sockets' \in [Server -> [Qd -> Socket \cup {None}]]
    BY ZenonT(60), <1>1, <1>4, SocketsType DEF Socket
  <2>2. /\ qds' \in [Server -> [Client -> Qd \cup {None}]]
        /\ established' \in [Server -> [Client -> ControlBlock \cup {None}]]
    BY ZenonT(60), <1>4, QdsType, EstablishedType
  <2>3. pops' \in [Server -> [Qd -> {"idle", "notified", "waiting"}]]
    BY ZenonT(60), <1>4, PopsType
  <2>4. active' \in [Server -> [Client -> ActiveMigration \cup {None}]]
    BY ZenonT(60) DEF Migrations
  <2>5. appState' \in [Server -> [Client -> {"None", "Registered", "MigratedIn"}]]
    BY ZenonT(60), AppStateType DEF AppStateAfter
  <2> QED
    BY ZenonT(120), <1>3, <2>1, <2>2, <2>3, <2>4, <2>5 DEF Inductive, TypeOK, peerVars, Nets
<1>6. SingleOwner'
  <2>1. \A t \in Server, d \in Client : d # c => established'[t][d] = established[t][d]
    BY SMTT(120), <1>4, EstablishedType
  <2>2. \A t \in Server : ~Held(t, c)'
    <3>1. \A t \in Server : t # s => ready[t][c] = None /\ established'[t][c] = None
      BY ZenonT(60), <1>2, <1>4, EstablishedType DEF Inductive, SingleOwner, Held
    <3>2. established'[s][c] = None
      BY ZenonT(60), <1>4, EstablishedType
    <3> QED
      BY ZenonT(60), <1>2, <3>1, <3>2 DEF Held
  <2>3. ASSUME NEW d \in Client, d # c
        PROVE  /\ \A t \in Server : ready'[t][d] = ready[t][d] /\ established'[t][d] = established[t][d]
               /\ UniqueState(net', d)
               /\ StateInFlight(net', d) => StateInFlight(net, d)
    BY ZenonT(60), <1>3, <2>1, <2>3
  <2>4. ASSUME NEW d \in Client
        PROVE  /\ \A t, u \in Server : Held(t, d)' /\ Held(u, d)' => t = u
               /\ \A t \in Server : ready'[t][d] = None \/ established'[t][d] = None
               /\ UniqueState(net', d)
               /\ StateInFlight(net', d) => \A t \in Server : ~Held(t, d)'
    <3>1. CASE d = c
      BY ZenonT(60), <1>3, <2>2, <3>1 DEF Held
    <3>2. CASE d # c
      BY SMTT(120), <2>3, <3>2 DEF Inductive, SingleOwner, Held
    <3> QED
      BY ZenonT(60), <3>1, <3>2
  <2> QED
    BY <2>4 DEF SingleOwner
<1>7. TablesAgree'
  <2>1. ASSUME NEW t \in Server, NEW p \in Qd, IsEstablished(t, p)'
        PROVE  /\ p \in files'[t]
               /\ qds'[t][sockets'[t][p].conn] = p
               /\ established'[t][sockets'[t][p].conn] # None
    <3>1. ~(t = s /\ p = q)
      BY ZenonT(60), <1>1, <1>4, <2>1, SocketsType DEF IsEstablished, Socket
    <3>2. sockets'[t][p] = sockets[t][p] /\ IsEstablished(t, p)
      BY ZenonT(60), <1>4, <2>1, <3>1, SocketsType DEF IsEstablished
    <3>3. /\ p \in files[t] /\ qds[t][sockets[t][p].conn] = p
          /\ sockets[t][p].conn \in Client /\ established[t][sockets[t][p].conn] # None
      BY SMTT(120), <3>2, EstablishedFacts, NoneAssumption
    <3>4. ~(t = s /\ sockets[t][p].conn = c)
      BY ZenonT(60), <1>1, <3>1, <3>3
    <3>5. /\ qds'[t][sockets[t][p].conn] = qds[t][sockets[t][p].conn]
          /\ established'[t][sockets[t][p].conn] = established[t][sockets[t][p].conn]
      BY ZenonT(60), <1>4, <3>3, <3>4, QdsType, EstablishedType
    <3> QED
      BY ZenonT(60), <3>2, <3>3, <3>5
  <2>2. \A t \in Server, d \in Client : qds'[t][d] # None <=> established'[t][d] # None
    <3>1. qds'[s][c] = None /\ established'[s][c] = None
      BY ZenonT(60), <1>4, QdsType, EstablishedType
    <3>2. ASSUME NEW t \in Server, NEW d \in Client, ~(t = s /\ d = c)
          PROVE  qds'[t][d] # None <=> established'[t][d] # None
      <4>1. qds'[t][d] = qds[t][d] /\ established'[t][d] = established[t][d]
        BY ZenonT(60), <1>4, <3>2, QdsType, EstablishedType
      <4> QED
        BY ZenonT(60), <4>1 DEF Inductive, TablesAgree
    <3> QED
      BY ZenonT(60), <3>1, <3>2
  <2> QED
    BY ZenonT(60), <2>1, <2>2 DEF TablesAgree
<1>8. PopsHaveSocket'
  <2> SUFFICES ASSUME NEW t \in Server, NEW p \in Qd, pops'[t][p] # "idle"
               PROVE  sockets'[t][p] # None
    BY DEF PopsHaveSocket
  <2>1. CASE t = s /\ p = q
    BY ZenonT(120), <1>1, <1>4, <2>1, SocketUpdate
  <2>2. CASE ~(t = s /\ p = q)
    BY ZenonT(60), <1>4, <2>2, SocketsType, PopsType DEF Inductive, PopsHaveSocket
  <2> QED
    BY SMTT(60), <2>1, <2>2
<1> QED
  BY ZenonT(60), <1>3, <1>5, <1>6, <1>7, <1>8 DEF Inductive

(* ReceivePrepareMigAck preserves the invariant: panic, or MigrateOutStep. *)
LEMMA ReceivePrepareMigAckStep ==
    ASSUME Inductive, NEW s \in Server, ReceivePrepareMigAck(s)
    PROVE  Inductive'
<1>1. PICK i \in 1 .. Len(net[Down(s)]) :
        LET m == net[Down(s)][i]
            mig == active[s][m.client]
            q == mig.qd
            c == sockets[s][q].conn
            migrating == active[s][c] # None /\ active[s][c].stage = "PREPARE_MIG"
            acknowledged == Acknowledged(s, m)
        IN
        /\ IsNext(s, i, "PREPARE_MIG_ACK")
        /\ mig # None
        /\ mig.stage = "PREPARE_MIG"
        /\ \/ /\ ~IsEstablished(s, q)
              /\ Panic(s, "invalid QD for migrating out")
              /\ Take(s, i)
              /\ UNCHANGED <<sockets, qds, established, active, appState, pops>>
           \/ /\ IsEstablished(s, q)
              /\ ~migrating
              /\ Panic(s, "no migration for state")
              /\ Take(s, i)
              /\ UNCHANGED <<sockets, qds, established, active, appState, pops>>
           \/ /\ IsEstablished(s, q)
              /\ migrating
              /\ MigrateOut(s, q, c)
              /\ appState' = AppStateAfter(s, c)
              /\ active' = [acknowledged EXCEPT ![s][c].stage = "CONN_STATE"]
              /\ TakeAndSend(s, i, [type |-> "CONN_STATE", client |-> c, src |-> s,
                                    dst |-> acknowledged[s][c].dest,
                                    cb |-> ControlBlockState(established[s][c]),
                                    app |-> appState[s][c] = "Registered"])
              /\ UNCHANGED panicked
        /\ UNCHANGED <<owner, ready, files, delivered, peerVars, used>>
  BY ZenonT(60) DEF ReceivePrepareMigAck
<1>a. PICK m : m = net[Down(s)][i]
  BY Zenon
<1>b. PICK q : q = active[s][m.client].qd
  BY Zenon
<1>c. PICK c : c = sockets[s][q].conn
  BY Zenon
<1>d. PICK acknowledged : acknowledged = Acknowledged(s, m)
  BY Zenon
<1>e. PICK state : state = [type |-> "CONN_STATE", client |-> c, src |-> s,
                            dst |-> acknowledged[s][c].dest,
                            cb |-> ControlBlockState(established[s][c]),
                            app |-> appState[s][c] = "Registered"]
  BY Zenon
<1>2. m.client \in Client /\ m.src \in Server
  BY ZenonT(60), <1>1, <1>a, PacketFacts DEF IsNext
<1>3. q \in Qd /\ active[s][m.client] # None
  BY ZenonT(120), <1>1, <1>2, <1>a, <1>b DEF Inductive, OriginHasDescriptor
<1>4. CASE /\ Panic(s, "invalid QD for migrating out") \/ Panic(s, "no migration for state")
           /\ Take(s, i)
           /\ UNCHANGED <<sockets, qds, established, active, appState, pops>>
  <2>1. panicked' \in [Server -> PanicReason \cup {"no"}]
    BY ZenonT(60), <1>4, PanicType DEF PanicReason
  <2>2. UNCHANGED <<owner, tcpVars, migVars, userVars, peerVars, used>>
    BY ZenonT(60), <1>1, <1>4 DEF tcpVars, migVars, userVars
  <2> QED
    BY ZenonT(60), <1>4, <2>1, <2>2, TakeOnly
<1>5. CASE /\ IsEstablished(s, q)
           /\ active[s][c] # None
           /\ MigrateOut(s, q, c)
           /\ appState' = AppStateAfter(s, c)
           /\ active' = [acknowledged EXCEPT ![s][c].stage = "CONN_STATE"]
           /\ TakeAndSend(s, i, state)
           /\ UNCHANGED panicked
  <2>1. c \in Client /\ established[s][c] \in ControlBlock
    BY ZenonT(60), <1>3, <1>5, <1>c, EstablishedFacts
  <2>2. /\ acknowledged \in Migrations
        /\ acknowledged[s][m.client] # None
        /\ acknowledged[s][m.client].qd = q
        /\ \A t \in Server, d \in Client :
              ~(t = s /\ d = m.client) => acknowledged[t][d] = active[t][d]
    <3> DEFINE x == [active[s][m.client] EXCEPT !.dest = m.src]
    <3>1. active \in Migrations
      BY ActiveType DEF Migrations
    <3>2. active[s][m.client] \in ActiveMigration
      BY <1>2, <1>3, <3>1 DEF Migrations
    <3>3. x \in ActiveMigration /\ x.qd = q
      BY <1>2, <1>b, <3>2 DEF ActiveMigration
    <3>4. x # None
      BY <3>3, NoneAssumption
    <3>5. acknowledged = [active EXCEPT ![s][m.client] = x]
      BY <1>d DEF Acknowledged
    <3> HIDE DEF x
    <3> QED
      BY ZenonT(60), <1>2, <3>1, <3>3, <3>4, <3>5 DEF Migrations
  <2>3. acknowledged[s][c] \in ActiveMigration
    <3>1. acknowledged[s][c] # None
      BY ZenonT(60), <1>5, <2>1, <2>2
    <3> QED
      BY <2>1, <2>2, <3>1 DEF Migrations
  <2>4. state \in Packet /\ state.type = "CONN_STATE" /\ state.client = c
    <3>1. ControlBlockState(established[s][c]) \in ControlBlock
      BY ZenonT(60), <2>1 DEF ControlBlockState, ControlBlock
    <3>2. acknowledged[s][c].dest \in Server
      BY <2>3 DEF ActiveMigration
    <3>3. (appState[s][c] = "Registered") \in BOOLEAN
      OBVIOUS
    <3> QED
      BY ZenonT(60), <1>e, <2>1, <3>1, <3>2, <3>3 DEF Packet
  <2>5. /\ active' \in Migrations
        /\ active'[s][c].stage = "CONN_STATE"
        /\ \A t \in Server, d \in Client :
              ~(t = s /\ d = c) => active'[t][d] = acknowledged[t][d]
    <3> DEFINE x == [acknowledged[s][c] EXCEPT !.stage = "CONN_STATE"]
    <3>1. x \in ActiveMigration /\ x.stage = "CONN_STATE"
      BY <2>3 DEF ActiveMigration, Stage
    <3>2. active' = [acknowledged EXCEPT ![s][c] = x]
      BY <1>5
    <3> HIDE DEF x
    <3> QED
      BY ZenonT(60), <2>1, <2>2, <3>1, <3>2 DEF Migrations
  <2>6. OriginHasDescriptor'
    <3> SUFFICES ASSUME NEW t \in Server, NEW d \in Client,
                        active'[t][d] # None, active'[t][d].stage = "PREPARE_MIG"
                 PROVE  active'[t][d].qd \in Qd
      BY ZenonT(60) DEF OriginHasDescriptor
    <3>1. ~(t = s /\ d = c) /\ active'[t][d] = acknowledged[t][d]
      BY <2>5
    <3>2. CASE t = s /\ d = m.client
      BY ZenonT(60), <1>3, <2>2, <3>1, <3>2
    <3>3. CASE ~(t = s /\ d = m.client)
      BY ZenonT(60), <2>2, <3>1, <3>3 DEF Inductive, OriginHasDescriptor
    <3> QED
      BY <3>2, <3>3
  <2>7. UNCHANGED <<panicked, owner, ready, files, delivered, peerVars, used>>
    BY ZenonT(60), <1>1, <1>5
  <2> QED
    BY ZenonT(120), <1>3, <1>5, <1>c, <2>1, <2>4, <2>5, <2>6, <2>7, MigrateOutStep
<1> QED
  BY ZenonT(120), <1>1, <1>4, <1>5, <1>a, <1>b, <1>c, <1>d, <1>e

(* ReceiveSegment preserves the invariant: one control block is replaced. *)
LEMMA ReceiveSegmentStep ==
    ASSUME Inductive, NEW s \in Server, ReceiveSegment(s)
    PROVE  Inductive'
<1>1. PICK i \in 1 .. Len(net[Down(s)]) :
        \E cb \in Receive(established[s][net[Down(s)][i].client], {net[Down(s)][i].seq}) :
        LET m == net[Down(s)][i]
            c == m.client
            q == qds[s][c]
        IN
        /\ IsNext(s, i, "SEGMENT")
        /\ established[s][c] # None
        /\ established' = [established EXCEPT ![s][c] = cb]
        /\ (q # None /\ Wake(s, q)) \/ UNCHANGED pops
        /\ MayAcknowledge(c, cb)
        /\ Take(s, i)
        /\ UNCHANGED <<owner, ready, sockets, qds, files, migVars, delivered, panicked, sent, used>>
  BY ZenonT(60) DEF ReceiveSegment
<1> DEFINE m == net[Down(s)][i]
           c == m.client
           q == qds[s][c]
<1>0. PICK cb \in Receive(established[s][c], {m.seq}) :
        /\ established' = [established EXCEPT ![s][c] = cb]
        /\ (q # None /\ Wake(s, q)) \/ UNCHANGED pops
        /\ MayAcknowledge(c, cb)
  BY ZenonT(60), <1>1
<1>2. c \in Client /\ m.seq \in 1 .. MaxSeg
  BY ZenonT(60), <1>1, PacketFacts DEF IsNext
<1>3. established[s][c] \in ControlBlock /\ established[s][c] # None
  <2>1. established \in [Server -> [Client -> ControlBlock \cup {None}]]
    BY EstablishedType
  <2>2. established[s][c] # None
    BY ZenonT(60), <1>1
  <2> HIDE DEF m, c
  <2> QED
    BY <1>2, <2>1, <2>2
<1>4. cb \in ControlBlock
  BY ZenonT(60), <1>2, <1>3, ReceiveShape
<1>5. NetStep
  BY ZenonT(60), <1>1, TakeStep
<1>6. acked' \in [Client -> Nat]
  BY ZenonT(60), <1>0, <1>2, <1>4, AcknowledgeType
<1>7. /\ pops' \in [Server -> [Qd -> {"idle", "notified", "waiting"}]]
      /\ \A t \in Server, p \in Qd : pops'[t][p] # "idle" => pops[t][p] # "idle"
  <2>1. CASE q # None /\ Wake(s, q)
    <3>1. q \in Qd
      BY ZenonT(60), <1>2, <2>1, QdsType
    <3> QED
      BY ZenonT(60), <2>1, <3>1, WakeFacts
  <2>2. CASE UNCHANGED pops
    BY ZenonT(60), <2>2, PopsType
  <2> QED
    BY ZenonT(120), <1>0, <2>1, <2>2
<1>8. /\ established' = [established EXCEPT ![s][c] = cb]
      /\ UNCHANGED <<owner, ready, sockets, qds, files, active, appState, delivered, panicked, sent, used>>
  BY ZenonT(60), <1>0, <1>1 DEF migVars
<1> HIDE DEF m, c, q
<1>9. established' \in [Server -> [Client -> ControlBlock \cup {None}]]
  BY SMTT(120), <1>2, <1>4, <1>8, EstablishedType
<1>10. TypeOK'
  BY ZenonT(120), <1>5, <1>6, <1>7, <1>8, <1>9 DEF Inductive, TypeOK, NetStep, Nets
<1> QED
  BY ZenonT(60), <1>2, <1>3, <1>4, <1>5, <1>7, <1>8, <1>10, ReplaceControlBlock

(* BufferSegment preserves the invariant: only a buffer grows. *)
LEMMA BufferSegmentStep ==
    ASSUME Inductive, NEW s \in Server, BufferSegment(s)
    PROVE  Inductive'
<1>1. PICK i \in 1 .. Len(net[Down(s)]) :
        LET m == net[Down(s)][i]
            c == m.client
        IN
        /\ IsNext(s, i, "SEGMENT")
        /\ active[s][c] # None
        /\ active' = [active EXCEPT ![s][c].buffer = Append(@, m.seq)]
        /\ Take(s, i)
        /\ UNCHANGED <<owner, tcpVars, appState, userVars, panicked, peerVars, used>>
  BY ZenonT(60) DEF BufferSegment
<1> DEFINE m == net[Down(s)][i]
           c == m.client
           b == Append(active[s][c].buffer, m.seq)
           x == [active[s][c] EXCEPT !.buffer = b]
<1>2. c \in Client /\ m.seq \in 1 .. MaxSeg
  BY ZenonT(60), <1>1, PacketFacts DEF IsNext
<1>3. active \in Migrations /\ active[s][c] # None
  BY ZenonT(60), <1>1, ActiveType DEF Migrations
<1>4. active' = [active EXCEPT ![s][c] = x]
  BY ZenonT(60), <1>1
<1>5. NetStep
  BY ZenonT(60), <1>1, TakeStep
<1> HIDE DEF m, c
<1>6. active[s][c] \in ActiveMigration
  BY <1>2, <1>3 DEF Migrations
<1>7. active[s][c].buffer \in Seq(1 .. MaxSeg)
  BY <1>6 DEF ActiveMigration
<1>8. b \in Seq(1 .. MaxSeg)
  BY <1>2, <1>7
<1> HIDE DEF b
<1>9. x \in ActiveMigration /\ x.stage = active[s][c].stage /\ x.qd = active[s][c].qd
  BY ZenonT(60), <1>6, <1>8 DEF ActiveMigration
<1> HIDE DEF x
<1>10. /\ active' \in Migrations
       /\ active'[s][c] = x
       /\ \A t \in Server, d \in Client : ~(t = s /\ d = c) => active'[t][d] = active[t][d]
  BY <1>2, <1>3, <1>4, <1>9 DEF Migrations
<1>11. TypeOK'
  BY ZenonT(120), <1>1, <1>5, <1>10
  DEF Inductive, TypeOK, Migrations, tcpVars, userVars, peerVars, NetStep, Nets
<1>12. OriginHasDescriptor'
  BY <1>2, <1>3, <1>9, <1>10 DEF Inductive, OriginHasDescriptor
<1> QED
  BY ZenonT(60), <1>1, <1>5, <1>11, <1>12, Frame DEF tcpVars, userVars

(* DropSegment preserves the invariant. *)
LEMMA DropSegmentStep ==
    ASSUME Inductive, NEW s \in Server, DropSegment(s)
    PROVE  Inductive'
<1>1. PICK i \in 1 .. Len(net[Down(s)]) :
         /\ Take(s, i)
         /\ UNCHANGED <<owner, tcpVars, migVars, userVars, panicked, peerVars, used>>
  BY ZenonT(60) DEF DropSegment
<1>2. panicked' \in [Server -> PanicReason \cup {"no"}]
  BY ZenonT(60), <1>1, PanickedType
<1> QED
  BY <1>1, <1>2, TakeOnly

(* A step of the application that changes no table but appState. *)
LEMMA AppStep ==
    ASSUME Inductive, appState' \in [Server -> [Client -> {"None", "Registered", "MigratedIn"}]],
           Spend("app"), UNCHANGED <<owner, net, tcpVars, active, userVars, panicked, peerVars>>
    PROVE  Inductive'
<1>1. used' \in [BudgetKind -> Nat]
  BY SpendType DEF BudgetKind
<1>2. TypeOK'
  BY ZenonT(60), <1>1 DEF Inductive, TypeOK, tcpVars, userVars, peerVars
<1> QED
  BY ZenonT(60), <1>2, NetUnchanged, Frame DEF Inductive, OriginHasDescriptor, tcpVars, userVars

(* RegisterApplicationState preserves the invariant. *)
LEMMA RegisterStep ==
    ASSUME Inductive, NEW s \in Server, NEW q \in Qd, RegisterApplicationState(s, q)
    PROVE  Inductive'
<1>1. sockets[s][q].conn \in Client
  BY EstablishedFacts DEF RegisterApplicationState
<1>2. appState' \in [Server -> [Client -> {"None", "Registered", "MigratedIn"}]]
  BY ZenonT(60), <1>1, AppStateType DEF RegisterApplicationState
<1> QED
  BY ZenonT(60), <1>2, AppStep DEF RegisterApplicationState

(* GetMigratedApplicationState preserves the invariant. *)
LEMMA GetStep ==
    ASSUME Inductive, NEW s \in Server, NEW q \in Qd, GetMigratedApplicationState(s, q)
    PROVE  Inductive'
<1>1. sockets[s][q].conn \in Client
  BY SMTT(120), EstablishedFacts DEF GetMigratedApplicationState
<1>2. appState' \in [Server -> [Client -> {"None", "Registered", "MigratedIn"}]]
  BY ZenonT(60), <1>1, AppStateType DEF GetMigratedApplicationState
<1> QED
  BY ZenonT(60), <1>2, AppStep DEF GetMigratedApplicationState

(* Pop preserves the invariant: the descriptor is in the table. *)
LEMMA PopStep ==
    ASSUME Inductive, NEW s \in Server, NEW q \in Qd, Pop(s, q)
    PROVE  Inductive'
<1>1. /\ pops' = [pops EXCEPT ![s][q] = "notified"]
      /\ sockets[s][q] # None
      /\ UNCHANGED <<owner, net, tcpVars, migVars, delivered, panicked, peerVars, used>>
  BY ZenonT(60) DEF Pop
<1>2. pops' \in [Server -> [Qd -> {"idle", "notified", "waiting"}]]
  BY SMTT(120), <1>1, PopsType
<1>3. TypeOK'
  BY ZenonT(120), <1>1, <1>2 DEF Inductive, TypeOK, tcpVars, migVars, peerVars
<1>4. SingleOwner'
  BY ZenonT(60), <1>1, HoldersKept DEF tcpVars
<1>5. TablesAgree'
  BY ZenonT(60), <1>1, TablesKept DEF tcpVars
<1>6. PopsHaveSocket'
  BY ZenonT(60), <1>1, PopsType DEF Inductive, PopsHaveSocket, tcpVars
<1>7. OriginHasDescriptor' /\ NoSegmentGoesUp(net')
  BY ZenonT(60), <1>1 DEF Inductive, OriginHasDescriptor, migVars
<1> QED
  BY ZenonT(60), <1>3, <1>4, <1>5, <1>6, <1>7 DEF Inductive

(* The pop coroutine of an established descriptor reads its control block. *)
LEMMA PollPopStep ==
    ASSUME Inductive, NEW s \in Server, NEW q \in Qd, PollPop(s, q)
    PROVE  Inductive'
<1>1. /\ pops[s][q] = "notified"
      /\ UNCHANGED <<owner, net, ready, sockets, qds, files, migVars, panicked, peerVars, used>>
  BY ZenonT(60) DEF PollPop
<1>2. ASSUME NEW v \in {"idle", "waiting"}, pops' = [pops EXCEPT ![s][q] = v]
      PROVE  /\ pops' \in [Server -> [Qd -> {"idle", "notified", "waiting"}]]
             /\ \A t \in Server, p \in Qd : pops'[t][p] # "idle" => pops[t][p] # "idle"
  BY SMTT(120), <1>1, <1>2, PopsType
<1>3. CASE /\ \E v \in {"idle", "waiting"} : pops' = [pops EXCEPT ![s][q] = v]
           /\ UNCHANGED <<established, delivered>>
  <2>1. /\ pops' \in [Server -> [Qd -> {"idle", "notified", "waiting"}]]
        /\ \A t \in Server, p \in Qd : pops'[t][p] # "idle" => pops[t][p] # "idle"
    BY ZenonT(120), <1>2, <1>3
  <2>2. TypeOK'
    BY ZenonT(120), <1>1, <1>3, <2>1 DEF Inductive, TypeOK, migVars, peerVars
  <2>3. SingleOwner'
    BY ZenonT(60), <1>1, <1>3, HoldersKept
  <2>4. TablesAgree'
    BY ZenonT(60), <1>1, <1>3, TablesKept
  <2>5. PopsHaveSocket' /\ OriginHasDescriptor' /\ NoSegmentGoesUp(net')
    BY <1>1, <2>1 DEF Inductive, PopsHaveSocket, OriginHasDescriptor, migVars
  <2> QED
    BY <2>2, <2>3, <2>4, <2>5 DEF Inductive
<1>4. CASE LET c == sockets[s][q].conn
               cb == established[s][c]
           IN  /\ IsEstablished(s, q)
               /\ cb.queue # <<>>
               /\ pops' = [pops EXCEPT ![s][q] = "idle"]
               /\ established' = [established EXCEPT ![s][c].queue = Tail(@)]
               /\ delivered' = [delivered EXCEPT ![c] = Append(@, Head(cb.queue))]
  <2>1. PICK c : c = sockets[s][q].conn
    BY Zenon
  <2>2. c \in Client /\ established[s][c] \in ControlBlock
    BY ZenonT(60), <1>4, <2>1, EstablishedFacts
  <2>3. PICK tl, hd, x : /\ tl = Tail(established[s][c].queue)
                         /\ hd = Head(established[s][c].queue)
                         /\ x = [established[s][c] EXCEPT !.queue = tl]
    BY Zenon
  <2>4. /\ established' = [established EXCEPT ![s][c] = x]
        /\ delivered' = [delivered EXCEPT ![c] = Append(@, hd)]
    BY ZenonT(60), <1>4, <2>1, <2>3
  <2>5. hd \in Nat /\ tl \in Seq(Nat)
    <3>1. established[s][c].queue \in Seq(Nat) /\ established[s][c].queue # <<>>
      BY ZenonT(60), <1>4, <2>1, <2>2 DEF ControlBlock
    <3> QED
      BY SMTT(120), <2>3, <3>1
  <2>6. x \in ControlBlock
    BY ZenonT(60), <2>2, <2>3, <2>5 DEF ControlBlock
  <2>7. established[s][c] # None
    BY <2>2, NoneAssumption
  <2>8. /\ pops' \in [Server -> [Qd -> {"idle", "notified", "waiting"}]]
        /\ \A t \in Server, p \in Qd : pops'[t][p] # "idle" => pops[t][p] # "idle"
    BY ZenonT(60), <1>2, <1>4
  <2>9. established' \in [Server -> [Client -> ControlBlock \cup {None}]]
    <3>1. established \in [Server -> [Client -> ControlBlock \cup {None}]]
      BY EstablishedType
    <3> QED
      BY SMTT(120), <2>2, <2>4, <2>6, <3>1
  <2>10. delivered' \in [Client -> Seq(Nat)]
    <3>1. delivered \in [Client -> Seq(Nat)]
      BY DeliveredType
    <3>2. Append(delivered[c], hd) \in Seq(Nat)
      BY SMTT(120), <2>2, <2>5, <3>1
    <3> QED
      BY SMTT(120), <2>2, <2>4, <3>1, <3>2
  <2>11. TypeOK'
    BY ZenonT(120), <1>1, <2>8, <2>9, <2>10 DEF Inductive, TypeOK, migVars, peerVars
  <2>12. NetStep /\ UNCHANGED <<ready, sockets, qds, files, active>>
    BY SMTT(120), <1>1, NetUnchanged DEF migVars
  <2> QED
    BY ZenonT(120), <2>2, <2>4, <2>6, <2>7, <2>8, <2>11, <2>12, ReplaceControlBlock
<1> QED
  BY ZenonT(60), <1>3, <1>4 DEF PollPop

(* Close preserves the invariant: it needs that no pop is outstanding. *)
LEMMA CloseStep ==
    ASSUME Inductive, NEW s \in Server, NEW q \in Qd, Close(s, q)
    PROVE  Inductive'
<1>1. /\ pops[s][q] = "idle"
      /\ Spend("close")
      /\ sockets' = [sockets EXCEPT ![s][q] = None]
      /\ files' = IF IsEstablished(s, q) THEN [files EXCEPT ![s] = @ \ {q}] ELSE files
      /\ UNCHANGED <<owner, net, ready, established, qds, migVars, userVars, panicked, peerVars>>
  BY ZenonT(60) DEF Close
<1>2. used' \in [BudgetKind -> Nat]
  BY SMTT(120), <1>1, SpendType DEF BudgetKind
<1>3. /\ sockets' \in [Server -> [Qd -> Socket \cup {None}]]
      /\ sockets'[s][q] = None
      /\ \A t \in Server, p \in Qd : ~(t = s /\ p = q) => sockets'[t][p] = sockets[t][p]
  BY SMTT(120), <1>1, SocketsType
<1>4. /\ files' \in [Server -> SUBSET Qd]
      /\ \A t \in Server, p \in Qd : ~(t = s /\ p = q) => (p \in files'[t] <=> p \in files[t])
  BY ZenonT(60), <1>1, FilesType
<1>5. TypeOK'
  BY ZenonT(120), <1>1, <1>2, <1>3, <1>4 DEF Inductive, TypeOK, migVars, userVars, peerVars
<1>6. SingleOwner'
  BY SMTT(120), <1>1 DEF Inductive, SingleOwner, Held
<1>7. TablesAgree'
  <2>1. qds' = qds /\ established' = established
    BY <1>1
  <2>2. TablesAgree
    BY DEF Inductive
  <2>3. \A t \in Server, c \in Client : qds'[t][c] # None <=> established'[t][c] # None
    BY ZenonT(60), <2>1, <2>2 DEF TablesAgree
  <2>4. ASSUME NEW t \in Server, NEW p \in Qd, IsEstablished(t, p)'
        PROVE  /\ p \in files'[t]
               /\ qds'[t][sockets'[t][p].conn] = p
               /\ established'[t][sockets'[t][p].conn] # None
    <3>1. ~(t = s /\ p = q)
      BY ZenonT(60), <2>4, <1>3 DEF IsEstablished
    <3>2. sockets'[t][p] = sockets[t][p]
      BY ZenonT(60), <3>1, <1>3
    <3>3. IsEstablished(t, p)
      BY ZenonT(60), <2>4, <3>2 DEF IsEstablished
    <3>4. /\ p \in files[t]
          /\ qds[t][sockets[t][p].conn] = p
          /\ established[t][sockets[t][p].conn] # None
      BY ZenonT(120), <3>3, <2>2 DEF TablesAgree
    <3> QED
      BY ZenonT(60), <3>1, <3>2, <3>4, <1>4, <2>1
  <2> QED
    BY ZenonT(60), <2>3, <2>4 DEF TablesAgree
<1>8. PopsHaveSocket' /\ OriginHasDescriptor' /\ NoSegmentGoesUp(net')
  <2>1. PopsHaveSocket'
    BY SMTT(120), <1>1, <1>3 DEF Inductive, PopsHaveSocket, userVars
  <2>2. OriginHasDescriptor' /\ NoSegmentGoesUp(net')
    BY ZenonT(60), <1>1 DEF Inductive, OriginHasDescriptor, migVars
  <2> QED
    BY ZenonT(60), <2>1, <2>2
<1> QED
  BY <1>5, <1>6, <1>7, <1>8 DEF Inductive

(* accept moves the control block from the accept queue to the established *)
(* table of the same server, under a descriptor that was free.             *)
LEMMA AcceptStep ==
    ASSUME Inductive, NEW s \in Server, NEW c \in Client, NEW q \in Qd, Accept(s, c, q)
    PROVE  Inductive'
<1>1. PICK cb \in Receive(ready[s][c], Buffered(s, c)) :
         established' = [established EXCEPT ![s][c] = cb] /\ MayAcknowledge(c, cb)
  BY ZenonT(60) DEF Accept
<1>2. /\ ready[s][c] # None
      /\ q \notin files[s]
      /\ established' = [established EXCEPT ![s][c] = cb]
      /\ MayAcknowledge(c, cb)
      /\ ready' = [ready EXCEPT ![s][c] = None]
      /\ active' = [active EXCEPT ![s][c] = None]
      /\ AssertOrPanic(s, qds[s][c] = None, "duplicate entry in qds table")
      /\ UNCHANGED <<owner, net, appState, userVars, sent, used>>
  BY ZenonT(60), <1>1 DEF Accept
<1>3. /\ sockets' = [sockets EXCEPT ![s][q] = [state |-> "Established", conn |-> c]]
      /\ qds' = [qds EXCEPT ![s][c] = q]
      /\ files' = [files EXCEPT ![s] = @ \cup {q}]
  BY ZenonT(60) DEF Accept
<1>4. ready[s][c] \in ControlBlock
  <2>1. ready \in [Server -> [Client -> ControlBlock \cup {None}]] /\ ready[s][c] # None
    BY ZenonT(120), <1>2, ReadyType
  <2> QED
    BY <2>1
<1>5. Buffered(s, c) \in SUBSET (1 .. MaxSeg)
  BY BufferedType
<1>6. cb \in ControlBlock /\ cb # None
  <2>1. cb \in ControlBlock
    BY ZenonT(60), <1>4, <1>5, ReceiveShape
  <2> QED
    BY ZenonT(60), <2>1, NoneAssumption
<1>7. established[s][c] = None /\ qds[s][c] = None
  BY ZenonT(120), <1>2 DEF Inductive, SingleOwner, TablesAgree
<1>8. panicked' = panicked
  BY <1>2, <1>7 DEF AssertOrPanic
<1>9. acked' \in [Client -> Nat]
  BY ZenonT(60), <1>2, <1>6, AcknowledgeType
<1>10. /\ established' \in [Server -> [Client -> ControlBlock \cup {None}]]
       /\ established'[s][c] = cb
       /\ \A t \in Server, d \in Client : ~(t = s /\ d = c) => established'[t][d] = established[t][d]
  BY ZenonT(120), <1>2, <1>6, EstablishedType
<1>11. /\ ready' \in [Server -> [Client -> ControlBlock \cup {None}]]
       /\ ready'[s][c] = None
       /\ \A t \in Server, d \in Client : ~(t = s /\ d = c) => ready'[t][d] = ready[t][d]
  BY ZenonT(120), <1>2, ReadyType
<1>12. /\ active' \in [Server -> [Client -> ActiveMigration \cup {None}]]
       /\ active'[s][c] = None
       /\ \A t \in Server, d \in Client : ~(t = s /\ d = c) => active'[t][d] = active[t][d]
  BY ZenonT(120), <1>2, ActiveType
<1>13. PICK new \in Socket : new = [state |-> "Established", conn |-> c] /\ new # None
  <2>1. [state |-> "Established", conn |-> c] \in Socket
    BY SMTT(120) DEF Socket
  <2> QED
    BY <2>1, NoneAssumption
<1>14. /\ sockets' \in [Server -> [Qd -> Socket \cup {None}]]
       /\ sockets'[s][q] = new
       /\ \A t \in Server, p \in Qd : ~(t = s /\ p = q) => sockets'[t][p] = sockets[t][p]
  BY SMTT(120), <1>3, <1>13, SocketsType
<1>15. /\ qds' \in [Server -> [Client -> Qd \cup {None}]]
       /\ qds'[s][c] = q
       /\ \A t \in Server, d \in Client : ~(t = s /\ d = c) => qds'[t][d] = qds[t][d]
  BY SMTT(120), <1>3, QdsType
<1>16. /\ files' \in [Server -> SUBSET Qd]
       /\ q \in files'[s]
       /\ \A t \in Server : files[t] \subseteq files'[t]
  BY SMTT(120), <1>3, FilesType
<1>17. TypeOK'
  BY ZenonT(120), <1>2, <1>8, <1>9, <1>10, <1>11, <1>12, <1>14, <1>15, <1>16
  DEF Inductive, TypeOK, userVars
<1>18. SingleOwner'
  <2>1. ASSUME NEW t \in Server, NEW d \in Client
        PROVE  Held(t, d)' <=> Held(t, d)
    <3>1. CASE t = s /\ d = c
      BY ZenonT(120), <1>2, <1>6, <1>10, <3>1 DEF Held
    <3>2. CASE ~(t = s /\ d = c)
      BY ZenonT(60), <1>10, <1>11, <3>2 DEF Held
    <3> QED
      BY <3>1, <3>2
  <2>2. \A t \in Server, d \in Client : ready'[t][d] = None \/ established'[t][d] = None
    BY SMTT(120), <1>10, <1>11 DEF Inductive, SingleOwner
  <2> QED
    BY ZenonT(120), <1>2, <2>1, <2>2 DEF Inductive, SingleOwner
<1>19. TablesAgree'
  <2>1. ASSUME NEW t \in Server, NEW p \in Qd, IsEstablished(t, p)'
        PROVE  /\ p \in files'[t]
               /\ qds'[t][sockets'[t][p].conn] = p
               /\ established'[t][sockets'[t][p].conn] # None
    <3>1. CASE t = s /\ p = q
      <4>1. sockets'[t][p].conn = c
        <5>1. new.conn = c
          BY ZenonT(60), <1>13
        <5>2. sockets'[s][q] = new
          BY ZenonT(60), <1>14
        <5> QED
          BY ZenonT(60), <3>1, <5>1, <5>2
      <4>2. q \in files'[s] /\ qds'[s][c] = q /\ established'[s][c] # None
        BY ZenonT(60), <1>6, <1>10, <1>15, <1>16
      <4> QED
        BY ZenonT(60), <3>1, <4>1, <4>2
    <3>2. CASE ~(t = s /\ p = q)
      <4>1. sockets'[t][p] = sockets[t][p] /\ IsEstablished(t, p)
        BY ZenonT(60), <1>14, <2>1, <3>2 DEF IsEstablished
      <4>2. /\ p \in files[t] /\ qds[t][sockets[t][p].conn] = p
            /\ sockets[t][p].conn \in Client /\ established[t][sockets[t][p].conn] # None
        BY SMTT(120), <4>1, EstablishedFacts, NoneAssumption
      <4>3. ~(t = s /\ sockets[t][p].conn = c)
        BY ZenonT(60), <1>7, <4>2
      <4>4. /\ qds'[t][sockets[t][p].conn] = qds[t][sockets[t][p].conn]
            /\ established'[t][sockets[t][p].conn] = established[t][sockets[t][p].conn]
        BY ZenonT(60), <1>10, <1>15, <4>2, <4>3
      <4> QED
        BY ZenonT(60), <1>16, <4>1, <4>2, <4>4
    <3> QED
      BY ZenonT(60), <3>1, <3>2
  <2>2. \A t \in Server, d \in Client : qds'[t][d] # None <=> established'[t][d] # None
    <3>1. q # None
      BY ConstantAssumption
    <3>2. ASSUME NEW t \in Server, NEW d \in Client, ~(t = s /\ d = c)
          PROVE  qds'[t][d] # None <=> established'[t][d] # None
      <4>1. qds'[t][d] = qds[t][d] /\ established'[t][d] = established[t][d]
        BY ZenonT(60), <1>10, <1>15, <3>2
      <4> QED
        BY ZenonT(60), <4>1 DEF Inductive, TablesAgree
    <3> QED
      BY ZenonT(60), <1>6, <1>10, <1>15, <3>1, <3>2
  <2> QED
    BY ZenonT(60), <2>1, <2>2 DEF TablesAgree
<1>20. PopsHaveSocket'
  BY ZenonT(120), <1>2, <1>13, <1>14 DEF Inductive, PopsHaveSocket, userVars
<1>21. OriginHasDescriptor'
  BY <1>12 DEF Inductive, OriginHasDescriptor
<1>22. NoSegmentGoesUp(net')
  BY ZenonT(60), <1>2 DEF Inductive
<1> QED
  BY SMTT(120), <1>17, <1>18, <1>19, <1>20, <1>21, <1>22 DEF Inductive

(* A step that changes no variable preserves the invariant. *)
LEMMA InductiveStutter ==
    ASSUME Inductive, UNCHANGED vars
    PROVE  Inductive'
<1>1. TypeOK'
  BY ZenonT(60) DEF Inductive, TypeOK, vars, tcpVars, migVars, userVars, peerVars
<1> QED
  BY ZenonT(60), <1>1, NetUnchanged, Frame
  DEF Inductive, OriginHasDescriptor, vars, tcpVars, migVars, userVars

(* Every step preserves the invariant: one lemma per action. *)
LEMMA InductiveNext == Inductive /\ [Next]_vars => Inductive'
<1> SUFFICES ASSUME Inductive, [Next]_vars
             PROVE  Inductive'
  OBVIOUS
<1>1. ASSUME NEW c \in Client, ClientSend(c) \/ ClientRetransmit(c)
      PROVE  Inductive'
  BY <1>1, ClientSendStep, ClientRetransmitStep
<1>2. ASSUME NEW s \in Server, SwitchForward(s)
      PROVE  Inductive'
  BY <1>2, SwitchForwardStep
<1>3. ASSUME NEW s \in Server, Migrate(s)
      PROVE  Inductive'
  BY SMTT(120), <1>3, ReceivePrepareMigStep, ReceiveReturnedStep, ReceivePrepareMigAckStep,
     ReceiveConnStateStep, ReceiveConnStateAckStep, ReceiveUnexpectedStep, ReceiveUnknownStep
  DEF Migrate
<1>4. ASSUME NEW s \in Server, Data(s)
      PROVE  Inductive'
  BY SMTT(120), <1>4, ReceiveSegmentStep, BufferSegmentStep, DropSegmentStep DEF Data
<1>5. ASSUME NEW s \in Server, User(s)
      PROVE  Inductive'
  BY ZenonT(60), <1>5, InitiateMigrationStep, PopStep, PollPopStep, CloseStep, RegisterStep, GetStep, AcceptStep
  DEF User
<1>6. ASSUME NEW s \in Server, Policy(s)
      PROVE  Inductive'
  BY <1>6, InitiateMigrationByAddrStep DEF Policy
<1>7. ASSUME NEW l \in Link, Lose(l)
      PROVE  Inductive'
  BY <1>7, LoseStep
<1>8. CASE UNCHANGED vars
  BY <1>8, InductiveStutter
<1> QED
  BY SMTT(120), <1>1, <1>2, <1>3, <1>4, <1>5, <1>6, <1>7, <1>8 DEF Next

(* The inductive invariant holds in every reachable state of the protocol. *)
THEOREM InductiveCorrect == Spec => []Inductive
BY InductiveInit, InductiveNext, PTL DEF Spec

(* Type correctness: every table of TcpPeer and TcpMigPeer, the owner      *)
(* registers and every packet in flight keep their types.                  *)
THEOREM TypeCorrect == Spec => []TypeOK
<1>1. Inductive => TypeOK
  BY DEF Inductive
<1> QED
  BY <1>1, InductiveCorrect, PTL

(* A connection is never at two servers, nor at one and in flight: state   *)
(* that migrate_out_connection has sent is no longer used where it was.    *)
THEOREM SingleOwnerCorrect == Spec => []SingleOwner
<1>1. Inductive => SingleOwner
  BY DEF Inductive
<1> QED
  BY <1>1, InductiveCorrect, PTL

(* The tables sockets, qds and established of TcpPeer agree, so an         *)
(* established descriptor always finds its connection.                     *)
THEOREM TablesAgreeCorrect == Spec => []TablesAgree
<1>1. Inductive => TablesAgree
  BY DEF Inductive
<1> QED
  BY <1>1, InductiveCorrect, PTL
-----------------------------------------------------------------------------
(* Application state. *)

(* A step that leaves the tables of connections and of application state   *)
(* alone.                                                                  *)
LEMMA AppFrame ==
    ASSUME AppStateWithConnection, UNCHANGED <<appState, ready, established>>
    PROVE  AppStateWithConnection'
BY DEF AppStateWithConnection, Held

(* A step that changes one entry of both kinds of table at most. *)
LEMMA AppUpdate ==
    ASSUME AppStateWithConnection, NEW s \in Server, NEW c \in Client,
           \A t \in Server, d \in Client : ~(t = s /\ d = c) =>
               appState'[t][d] = appState[t][d] /\ Held(t, d)' = Held(t, d),
           appState'[s][c] # "None" => Held(s, c)'
    PROVE  AppStateWithConnection'
BY DEF AppStateWithConnection

LEMMA AppReceivePrepareMigAck ==
    ASSUME Inductive, AppStateWithConnection, NEW s \in Server, ReceivePrepareMigAck(s)
    PROVE  AppStateWithConnection'
<1>1. CASE UNCHANGED <<appState, ready, established>>
  BY ZenonT(60), <1>1, AppFrame
<1>2. ASSUME NEW q, IsEstablished(s, q), MigrateOut(s, q, sockets[s][q].conn), q \in Qd,
             appState' = AppStateAfter(s, sockets[s][q].conn), UNCHANGED ready
      PROVE  AppStateWithConnection'
  <2>1. PICK c : c = sockets[s][q].conn
    BY Zenon
  <2>2. c \in Client
    BY <1>2, <2>1, EstablishedFacts
  <2>3. appState' = [appState EXCEPT ![s][c] = "None"] /\ established' = [established EXCEPT ![s][c] = None]
    BY ZenonT(60), <1>2, <2>1 DEF AppStateAfter, MigrateOut
  <2>4. appState'[s][c] = "None"
    BY <2>2, <2>3, AppStateType
  <2>5. ASSUME NEW t \in Server, NEW d \in Client, ~(t = s /\ d = c)
        PROVE  appState'[t][d] = appState[t][d] /\ established'[t][d] = established[t][d] /\ ready'[t][d] = ready[t][d]
    BY <1>2, <2>2, <2>3, <2>5, AppStateType, EstablishedType
  <2> QED
    BY <2>2, <2>4, <2>5, AppUpdate DEF Held
<1>3. ASSUME NEW i \in 1 .. Len(net[Down(s)]), IsNext(s, i, "PREPARE_MIG_ACK"),
             active[s][net[Down(s)][i].client] # None,
             active[s][net[Down(s)][i].client].stage = "PREPARE_MIG"
      PROVE  active[s][net[Down(s)][i].client].qd \in Qd
  <2>1. net[Down(s)][i].client \in Client
    BY ZenonT(60), <1>3, PacketFacts DEF IsNext
  <2> QED
    BY ZenonT(60), <1>3, <2>1 DEF Inductive, OriginHasDescriptor
<1> QED
  BY ZenonT(120), <1>1, <1>2, <1>3 DEF ReceivePrepareMigAck

LEMMA AppReceiveConnState ==
    ASSUME Inductive, AppStateWithConnection, NEW s \in Server, ReceiveConnState(s)
    PROVE  AppStateWithConnection'
<1>1. PICK i \in 1 .. Len(net[Down(s)]) :
        /\ IsNext(s, i, "CONN_STATE")
        /\ MigrateIn(s, net[Down(s)][i].client, net[Down(s)][i].cb)
        /\ appState' = [appState EXCEPT ![s][net[Down(s)][i].client] = IF net[Down(s)][i].app THEN "MigratedIn" ELSE @]
        /\ UNCHANGED established
  BY ZenonT(60) DEF ReceiveConnState
<1>2. PICK m : m = net[Down(s)][i]
  BY Zenon
<1>3. m.client \in Client /\ m.cb \in ControlBlock
  BY ZenonT(60), <1>1, <1>2, PacketFacts DEF IsNext
<1>4. PICK c \in Client : c = m.client
  BY <1>3
<1>5. /\ ready' = [ready EXCEPT ![s][c] = m.cb]
      /\ appState' = [appState EXCEPT ![s][c] = IF m.app THEN "MigratedIn" ELSE @]
  BY ZenonT(60), <1>1, <1>2, <1>4 DEF MigrateIn
<1>6. ready'[s][c] = m.cb
  BY <1>5, ReadyType
<1>7. Held(s, c)'
  BY ZenonT(60), <1>3, <1>6, NoneAssumption DEF Held
<1>8. ASSUME NEW t \in Server, NEW d \in Client, ~(t = s /\ d = c)
      PROVE  appState'[t][d] = appState[t][d] /\ established'[t][d] = established[t][d] /\ ready'[t][d] = ready[t][d]
  BY <1>1, <1>5, <1>8, AppStateType
<1> QED
  BY <1>7, <1>8, AppUpdate DEF Held

(* A segment, accept and a pop keep the connection where it is. *)
LEMMA AppHeld ==
    ASSUME AppStateWithConnection, UNCHANGED appState,
           \A t \in Server, d \in Client : Held(t, d) => Held(t, d)'
    PROVE  AppStateWithConnection'
BY DEF AppStateWithConnection

LEMMA AppApplication ==
    ASSUME Inductive, AppStateWithConnection, NEW s \in Server, NEW q \in Qd,
           RegisterApplicationState(s, q) \/ GetMigratedApplicationState(s, q)
    PROVE  AppStateWithConnection'
<1>1. PICK c : c = sockets[s][q].conn
  BY Zenon
<1>2. IsEstablished(s, q) /\ UNCHANGED <<ready, established>>
  BY ZenonT(60) DEF RegisterApplicationState, GetMigratedApplicationState, tcpVars
<1>3. c \in Client /\ established[s][c] # None
  BY ZenonT(60), <1>1, <1>2, EstablishedFacts DEF Inductive, TablesAgree
<1>4. \E v : appState' = [appState EXCEPT ![s][c] = v]
  BY ZenonT(60), <1>1 DEF RegisterApplicationState, GetMigratedApplicationState
<1>5. Held(s, c)'
  BY <1>2, <1>3 DEF Held
<1>6. ASSUME NEW t \in Server, NEW d \in Client, ~(t = s /\ d = c)
      PROVE  appState'[t][d] = appState[t][d] /\ Held(t, d)' = Held(t, d)
  <2>1. PICK v : appState' = [appState EXCEPT ![s][c] = v]
    BY Zenon, <1>4
  <2>2. appState'[t][d] = appState[t][d]
    BY ZenonT(60), <1>6, <2>1, AppStateType
  <2>3. Held(t, d)' = Held(t, d)
    BY ZenonT(60), <1>2 DEF Held
  <2> QED
    BY ZenonT(60), <2>2, <2>3
<1> QED
  BY <1>3, <1>5, <1>6, AppUpdate

(* A connection that keeps its descriptor in qds keeps its control block. *)
LEMMA AppSameQds ==
    ASSUME Inductive, Inductive', AppStateWithConnection, UNCHANGED <<appState, ready, qds>>
    PROVE  AppStateWithConnection'
<1>1. \A t \in Server, d \in Client : established[t][d] # None => established'[t][d] # None
  BY DEF Inductive, TablesAgree
<1> QED
  BY ZenonT(60), <1>1, AppHeld DEF Held

LEMMA AppAccept ==
    ASSUME Inductive, AppStateWithConnection, NEW s \in Server, NEW c \in Client, NEW q \in Qd,
           Accept(s, c, q)
    PROVE  AppStateWithConnection'
<1>1. PICK cb \in Receive(ready[s][c], Buffered(s, c)) : established' = [established EXCEPT ![s][c] = cb]
  BY ZenonT(60) DEF Accept
<1>2. /\ ready[s][c] # None
      /\ established' = [established EXCEPT ![s][c] = cb]
      /\ ready' = [ready EXCEPT ![s][c] = None]
      /\ UNCHANGED appState
  BY ZenonT(60), <1>1 DEF Accept
<1>3. ready[s][c] \in ControlBlock
  BY <1>2, ReadyType
<1>4. cb \in ControlBlock
  <2>1. Buffered(s, c) \in SUBSET (1 .. MaxSeg)
    BY ZenonT(60), BufferedType
  <2> QED
    BY ZenonT(60), <1>3, <2>1, ReceiveShape
<1>5. established'[s][c] # None
  BY <1>2, <1>4, NoneAssumption, EstablishedType
<1>6. \A t \in Server, d \in Client : ~(t = s /\ d = c) =>
          ready'[t][d] = ready[t][d] /\ established'[t][d] = established[t][d]
  BY ZenonT(60), <1>2, ReadyType, EstablishedType
<1> QED
  BY <1>2, <1>5, <1>6, AppHeld DEF Held

LEMMA AppNext == Inductive /\ Inductive' /\ AppStateWithConnection /\ [Next]_vars => AppStateWithConnection'
<1> SUFFICES ASSUME Inductive, Inductive', AppStateWithConnection, [Next]_vars
             PROVE  AppStateWithConnection'
  BY ZenonT(60)
<1>1. ASSUME NEW c \in Client, ClientSend(c) \/ ClientRetransmit(c)
      PROVE  AppStateWithConnection'
  BY <1>1, AppFrame DEF ClientSend, ClientRetransmit, tcpVars, migVars
<1>2. ASSUME NEW s \in Server, SwitchForward(s)
      PROVE  AppStateWithConnection'
  BY <1>2, AppFrame DEF SwitchForward, tcpVars, migVars
<1>3. ASSUME NEW s \in Server, Migrate(s)
      PROVE  AppStateWithConnection'
  <2>1. ASSUME \/ ReceivePrepareMig(s) \/ ReceiveReturned(s) \/ ReceiveConnStateAck(s)
               \/ ReceiveUnexpected(s) \/ ReceiveUnknown(s)
        PROVE  UNCHANGED <<appState, ready, established>>
    BY ZenonT(60), <2>1 DEF ReceivePrepareMig, ReceiveReturned, ReceiveConnStateAck, ReceiveUnexpected,
                       ReceiveUnknown, tcpVars, migVars
  <2> QED
    BY ZenonT(60), <1>3, <2>1, AppFrame, AppReceivePrepareMigAck, AppReceiveConnState DEF Migrate
<1>4. ASSUME NEW s \in Server, Data(s)
      PROVE  AppStateWithConnection'
  <2>1. ASSUME BufferSegment(s) \/ DropSegment(s) \/ ReceiveSegment(s)
        PROVE  UNCHANGED <<appState, ready, qds>>
    BY ZenonT(60), <2>1 DEF BufferSegment, DropSegment, ReceiveSegment, tcpVars, migVars
  <2> QED
    BY ZenonT(60), <1>4, <2>1, AppSameQds DEF Data
<1>5. ASSUME NEW s \in Server, User(s)
      PROVE  AppStateWithConnection'
  <2>1. ASSUME NEW q \in Qd, InitiateMigration(s, q) \/ Pop(s, q) \/ PollPop(s, q) \/ Close(s, q)
        PROVE  UNCHANGED <<appState, ready, qds>>
    BY ZenonT(60), <2>1 DEF InitiateMigration, Pop, PollPop, Close, tcpVars, migVars
  <2> QED
    BY ZenonT(60), <1>5, <2>1, AppSameQds, AppApplication, AppAccept DEF User
<1>6. ASSUME NEW s \in Server, Policy(s)
      PROVE  AppStateWithConnection'
  BY <1>6, AppFrame DEF Policy, InitiateMigrationByAddr, tcpVars
<1>7. ASSUME NEW l \in Link, Lose(l)
      PROVE  AppStateWithConnection'
  BY <1>7, AppFrame DEF Lose, tcpVars, migVars
<1>8. CASE UNCHANGED vars
  BY <1>8, AppFrame DEF vars, tcpVars, migVars
<1> QED
  BY ZenonT(120), <1>1, <1>2, <1>3, <1>4, <1>5, <1>6, <1>7, <1>8 DEF Next

(* Application state is only where its connection is: send_tcp_state takes *)
(* it along, and no step leaves it behind or brings it alone.              *)
THEOREM AppStateWithConnectionCorrect == Spec => []AppStateWithConnection
<1>1. Init => AppStateWithConnection
  BY DEF Init, AppStateWithConnection
<1> QED
  BY <1>1, InductiveCorrect, AppNext, PTL DEF Spec
-----------------------------------------------------------------------------
(* Pop coroutines. *)

(* A step that changes no socket and puts no pop coroutine to sleep. *)
LEMMA PopFrame ==
    ASSUME NoPopLeftBehind, UNCHANGED sockets,
           \A s \in Server, q \in Qd : pops'[s][q] = "waiting" => pops[s][q] = "waiting"
    PROVE  NoPopLeftBehind'
BY DEF NoPopLeftBehind

(* Waking one leaves the others as they are. *)
LEMMA WokenPops ==
    ASSUME Inductive, NEW s \in Server, NEW q \in Qd, Wake(s, q)
    PROVE  /\ pops'[s][q] # "waiting"
           /\ \A t \in Server, p \in Qd : pops'[t][p] = "waiting" => pops[t][p] = "waiting"
<1>1. pops \in [Server -> [Qd -> {"idle", "notified", "waiting"}]]
  BY PopsType
<1> QED
  BY <1>1 DEF Wake

LEMMA PopReceivePrepareMigAck ==
    ASSUME Inductive, NoPopLeftBehind, NEW s \in Server, ReceivePrepareMigAck(s)
    PROVE  NoPopLeftBehind'
<1>1. CASE UNCHANGED <<sockets, pops>>
  BY <1>1, PopFrame
<1>2. ASSUME NEW q \in Qd, IsEstablished(s, q), MigrateOut(s, q, sockets[s][q].conn)
      PROVE  NoPopLeftBehind'
  <2>1. Wake(s, q) /\ sockets' = [sockets EXCEPT ![s][q].state = "MigratedOut"]
    BY ZenonT(60), <1>2 DEF MigrateOut
  <2>2. \A t \in Server, p \in Qd : ~(t = s /\ p = q) => sockets'[t][p] = sockets[t][p]
    BY ZenonT(60), <1>2, <2>1, EstablishedFacts, SocketUpdate
  <2> QED
    BY <2>1, <2>2, WokenPops DEF NoPopLeftBehind
<1>3. ASSUME NEW i \in 1 .. Len(net[Down(s)]), IsNext(s, i, "PREPARE_MIG_ACK"),
             active[s][net[Down(s)][i].client] # None,
             active[s][net[Down(s)][i].client].stage = "PREPARE_MIG"
      PROVE  active[s][net[Down(s)][i].client].qd \in Qd
  <2>1. net[Down(s)][i].client \in Client
    BY ZenonT(60), <1>3, PacketFacts DEF IsNext
  <2> QED
    BY ZenonT(60), <1>3, <2>1 DEF Inductive, OriginHasDescriptor
<1> QED
  BY ZenonT(120), <1>1, <1>2, <1>3 DEF ReceivePrepareMigAck

LEMMA PopReceiveSegment ==
    ASSUME Inductive, NoPopLeftBehind, NEW s \in Server, ReceiveSegment(s)
    PROVE  NoPopLeftBehind'
<1>1. UNCHANGED sockets
  BY ZenonT(60) DEF ReceiveSegment
<1>2. CASE UNCHANGED pops
  BY <1>1, <1>2, PopFrame
<1>3. ASSUME NEW c \in Client, qds[s][c] # None, Wake(s, qds[s][c])
      PROVE  NoPopLeftBehind'
  <2>1. qds[s][c] \in Qd
    BY <1>3, QdsType
  <2> QED
    BY <1>1, <1>3, <2>1, WokenPops, PopFrame
<1>4. \A i \in 1 .. Len(net[Down(s)]) : net[Down(s)][i].client \in Client
  BY ZenonT(60), PacketFacts
<1> QED
  BY ZenonT(120), <1>2, <1>3, <1>4 DEF ReceiveSegment

LEMMA PopUser ==
    ASSUME Inductive, NoPopLeftBehind, NEW s \in Server, NEW q \in Qd,
           Pop(s, q) \/ PollPop(s, q) \/ Close(s, q) \/ \E c \in Client : Accept(s, c, q)
    PROVE  NoPopLeftBehind'
<1>1. /\ pops \in [Server -> [Qd -> {"idle", "notified", "waiting"}]]
      /\ sockets \in [Server -> [Qd -> Socket \cup {None}]]
  BY SocketsType, PopsType
<1>2. CASE Pop(s, q)
  <2>1. pops' = [pops EXCEPT ![s][q] = "notified"] /\ UNCHANGED sockets
    BY ZenonT(60), <1>2 DEF Pop, tcpVars
  <2> QED
    BY ZenonT(60), <1>1, <2>1, PopFrame
<1>3. CASE PollPop(s, q)
  <2>1. UNCHANGED sockets
    BY ZenonT(60), <1>3 DEF PollPop
  <2>2. CASE pops' = [pops EXCEPT ![s][q] = "idle"]
    BY <1>1, <2>1, <2>2, PopFrame
  <2>3. CASE IsEstablished(s, q) /\ pops' = [pops EXCEPT ![s][q] = "waiting"]
    BY ZenonT(60), <1>1, <2>1, <2>3 DEF IsEstablished, NoPopLeftBehind
  <2> QED
    BY ZenonT(60), <1>3, <2>2, <2>3 DEF PollPop
<1>4. CASE Close(s, q)
  <2>1. sockets' = [sockets EXCEPT ![s][q] = None] /\ UNCHANGED pops
    BY ZenonT(60), <1>4 DEF Close, userVars
  <2> QED
    BY <1>1, <2>1 DEF NoPopLeftBehind
<1>5. ASSUME NEW c \in Client, Accept(s, c, q)
      PROVE  NoPopLeftBehind'
  <2>1. sockets' = [sockets EXCEPT ![s][q] = [state |-> "Established", conn |-> c]] /\ UNCHANGED pops
    BY ZenonT(60), <1>5 DEF Accept, userVars
  <2> QED
    BY <1>1, <2>1 DEF NoPopLeftBehind
<1> QED
  BY ZenonT(60), <1>2, <1>3, <1>4, <1>5

LEMMA PopNext == Inductive /\ NoPopLeftBehind /\ [Next]_vars => NoPopLeftBehind'
<1> SUFFICES ASSUME Inductive, NoPopLeftBehind, [Next]_vars
             PROVE  NoPopLeftBehind'
  OBVIOUS
<1>1. CASE UNCHANGED <<sockets, pops>>
  BY <1>1, PopFrame
<1>2. ASSUME NEW c \in Client, ClientSend(c) \/ ClientRetransmit(c)
      PROVE  UNCHANGED <<sockets, pops>>
  BY ZenonT(60), <1>2 DEF ClientSend, ClientRetransmit, tcpVars, userVars
<1>3. ASSUME NEW s \in Server, SwitchForward(s) \/ Policy(s)
      PROVE  UNCHANGED <<sockets, pops>>
  BY ZenonT(60), <1>3 DEF SwitchForward, Policy, InitiateMigrationByAddr, tcpVars, userVars
<1>4. ASSUME NEW s \in Server, Migrate(s)
      PROVE  NoPopLeftBehind'
  <2>1. ASSUME \/ ReceivePrepareMig(s) \/ ReceiveReturned(s) \/ ReceiveConnStateAck(s)
               \/ ReceiveUnexpected(s) \/ ReceiveUnknown(s) \/ ReceiveConnState(s)
        PROVE  UNCHANGED <<sockets, pops>>
    BY ZenonT(60), <2>1 DEF ReceivePrepareMig, ReceiveReturned, ReceiveConnStateAck, ReceiveUnexpected,
                       ReceiveUnknown, ReceiveConnState, tcpVars, userVars
  <2> QED
    BY ZenonT(60), <1>1, <1>4, <2>1, PopReceivePrepareMigAck DEF Migrate
<1>5. ASSUME NEW s \in Server, Data(s)
      PROVE  NoPopLeftBehind'
  <2>1. ASSUME BufferSegment(s) \/ DropSegment(s)
        PROVE  UNCHANGED <<sockets, pops>>
    BY ZenonT(60), <2>1 DEF BufferSegment, DropSegment, tcpVars, userVars
  <2> QED
    BY ZenonT(60), <1>1, <1>5, <2>1, PopReceiveSegment DEF Data
<1>6. ASSUME NEW s \in Server, User(s)
      PROVE  NoPopLeftBehind'
  <2>1. ASSUME NEW q \in Qd, \/ InitiateMigration(s, q) \/ RegisterApplicationState(s, q)
                             \/ GetMigratedApplicationState(s, q)
        PROVE  UNCHANGED <<sockets, pops>>
    BY ZenonT(60), <2>1 DEF InitiateMigration, RegisterApplicationState, GetMigratedApplicationState,
                       tcpVars, userVars
  <2> QED
    BY ZenonT(60), <1>1, <1>6, <2>1, PopUser DEF User
<1>7. ASSUME NEW l \in Link, Lose(l)
      PROVE  UNCHANGED <<sockets, pops>>
  BY ZenonT(60), <1>7 DEF Lose, tcpVars, userVars
<1>8. ASSUME UNCHANGED vars
      PROVE  UNCHANGED <<sockets, pops>>
  BY <1>8 DEF vars, tcpVars, userVars
<1> QED
  BY ZenonT(120), <1>1, <1>2, <1>3, <1>4, <1>5, <1>6, <1>7, <1>8 DEF Next

(* A pop never sleeps on a connection that has migrated out: the wake-up   *)
(* in migrate_out_connection comes with the change of the socket's state.  *)
THEOREM NoPopLeftBehindCorrect == Spec => []NoPopLeftBehind
<1>1. Init => NoPopLeftBehind
  BY DEF Init, NoPopLeftBehind
<1> QED
  BY <1>1, InductiveCorrect, PopNext, PTL DEF Spec

=============================================================================
