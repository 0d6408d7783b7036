---------------------------- MODULE TcpMigLemmas ----------------------------
(***************************************************************************)
(* Lemmas for the proofs about TcpMig: the types of its tables, what       *)
(* removing a packet from a link and adding one does to the CONN_STATEs in *)
(* flight, and what the invariant says of packets, sockets and buffers.    *)
(***************************************************************************)
EXTENDS TcpMig, TLAPS

Nets == [Link -> Seq(Packet)]

Removed(n, l, i) == [n EXCEPT ![l] = Without(@, i)]

Added(n, l, m) == [n EXCEPT ![l] = Append(@, m)]

(* What the inductive invariant says of the type of one table. *)
LEMMA OwnerType == Inductive => owner \in [Client -> Server]
BY DEF Inductive, TypeOK

LEMMA NetType == Inductive => net \in [Link -> Seq(Packet)]
BY DEF Inductive, TypeOK

LEMMA ReadyType == Inductive => ready \in [Server -> [Client -> ControlBlock \cup {None}]]
BY DEF Inductive, TypeOK

LEMMA EstablishedType == Inductive => established \in [Server -> [Client -> ControlBlock \cup {None}]]
BY DEF Inductive, TypeOK

LEMMA SocketsType == Inductive => sockets \in [Server -> [Qd -> Socket \cup {None}]]
BY DEF Inductive, TypeOK

LEMMA QdsType == Inductive => qds \in [Server -> [Client -> Qd \cup {None}]]
BY DEF Inductive, TypeOK

LEMMA FilesType == Inductive => files \in [Server -> SUBSET Qd]
BY DEF Inductive, TypeOK

LEMMA ActiveType == Inductive => active \in [Server -> [Client -> ActiveMigration \cup {None}]]
BY DEF Inductive, TypeOK

LEMMA AppStateType == Inductive => appState \in [Server -> [Client -> {"None", "Registered", "MigratedIn"}]]
BY DEF Inductive, TypeOK

LEMMA PopsType == Inductive => pops \in [Server -> [Qd -> {"idle", "notified", "waiting"}]]
BY DEF Inductive, TypeOK

LEMMA PanickedType == Inductive => panicked \in [Server -> PanicReason \cup {"no"}]
BY DEF Inductive, TypeOK

LEMMA SentType == Inductive => sent \in [Client -> 0 .. MaxSeg]
BY DEF Inductive, TypeOK

LEMMA AckedType == Inductive => acked \in [Client -> Nat]
BY DEF Inductive, TypeOK

LEMMA DeliveredType == Inductive => delivered \in [Client -> Seq(Nat)]
BY DEF Inductive, TypeOK

LEMMA UsedType == Inductive => used \in [BudgetKind -> Nat]
BY DEF Inductive, TypeOK

(* Links are distinct by direction and by server. *)
LEMMA LinkFacts ==
    /\ \A s \in Server : Up(s) \in Link /\ Down(s) \in Link
    /\ \A s, t \in Server : Up(s) # Down(t)
BY DEF Link, Up, Down

(* The elements of a sequence of packets are packets. *)
LEMMA ElementType ==
    ASSUME NEW S, NEW q \in Seq(S)
    PROVE  \A i \in 1 .. Len(q) : q[i] \in S
OBVIOUS

(* Without takes out one element and keeps the order of the others. *)
LEMMA WithoutFacts ==
    ASSUME NEW S, NEW q \in Seq(S), NEW i \in 1 .. Len(q)
    PROVE  /\ Without(q, i) \in Seq(S)
           /\ Len(Without(q, i)) = Len(q) - 1
           /\ \A j \in 1 .. Len(q) - 1 : Without(q, i)[j] = q[IF j < i THEN j ELSE j + 1]
<1>1. Len(q) \in Nat /\ Len(q) - 1 \in Nat
  OBVIOUS
<1>2. \A j \in 1 .. Len(q) - 1 : (IF j < i THEN q[j] ELSE q[j + 1]) \in S
  BY <1>1
<1>3. Without(q, i) \in [1 .. Len(q) - 1 -> S]
  BY <1>2 DEF Without
<1>4. Without(q, i) \in Seq(S) /\ Len(Without(q, i)) = Len(q) - 1
  BY <1>1, <1>3
<1> QED
  BY <1>4 DEF Without

(* Taking a packet off a link leaves well-typed links, duplicates no       *)
(* CONN_STATE, and takes the only CONN_STATE of a connection away.         *)
LEMMA RemovedFacts ==
    ASSUME NEW n \in Nets, NEW l \in Link, NEW i \in 1 .. Len(n[l])
    PROVE  /\ Removed(n, l, i) \in Nets
           /\ NoSegmentGoesUp(n) => NoSegmentGoesUp(Removed(n, l, i))
           /\ \A c \in Client : UniqueState(n, c) => UniqueState(Removed(n, l, i), c)
           /\ \A c \in Client : StateInFlight(Removed(n, l, i), c) => StateInFlight(n, c)
           /\ \A c \in Client : UniqueState(n, c) /\ IsStateOf(n[l][i], c)
                 => ~StateInFlight(Removed(n, l, i), c)
<1> DEFINE r == Removed(n, l, i)
           old(k, j) == IF k = l /\ ~(j < i) THEN j + 1 ELSE j
<1>1. n[l] \in Seq(Packet) /\ \A k \in Link : n[k] \in Seq(Packet)
  BY DEF Nets
<1>2. /\ Without(n[l], i) \in Seq(Packet)
      /\ Len(Without(n[l], i)) = Len(n[l]) - 1
      /\ \A j \in 1 .. Len(n[l]) - 1 : Without(n[l], i)[j] = n[l][IF j < i THEN j ELSE j + 1]
  BY ZenonT(60), <1>1, WithoutFacts
<1>3. r \in Nets
  BY <1>2 DEF Nets, Removed
<1>4. r[l] = Without(n[l], i) /\ \A k \in Link : k # l => r[k] = n[k]
  BY DEF Nets, Removed
<1>5. \A k \in Link : \A j \in 1 .. Len(r[k]) :
         /\ old(k, j) \in 1 .. Len(n[k])
         /\ r[k][j] = n[k][old(k, j)]
         /\ k = l => old(k, j) # i
  <2> SUFFICES ASSUME NEW k \in Link, NEW j \in 1 .. Len(r[k])
               PROVE  /\ old(k, j) \in 1 .. Len(n[k])
                      /\ r[k][j] = n[k][old(k, j)]
                      /\ k = l => old(k, j) # i
    OBVIOUS
  <2>1. Len(n[k]) \in Nat
    BY <1>1
  <2>2. CASE k = l
    BY <2>1, <2>2, <1>2, <1>4
  <2>3. CASE k # l
    BY <2>1, <2>3, <1>4
  <2> QED
    BY <2>2, <2>3
<1>6. \A k \in Link : \A j, h \in 1 .. Len(r[k]) : old(k, j) = old(k, h) => j = h
  OBVIOUS
<1> HIDE DEF r, old
<1>7. NoSegmentGoesUp(n) => NoSegmentGoesUp(r)
  BY <1>5, LinkFacts DEF NoSegmentGoesUp
<1>8. ASSUME NEW c \in Client, UniqueState(n, c)
      PROVE  UniqueState(r, c)
  <2> SUFFICES ASSUME NEW k \in Link, NEW h \in Link,
                      NEW x \in 1 .. Len(r[k]), NEW y \in 1 .. Len(r[h]),
                      IsStateOf(r[k][x], c), IsStateOf(r[h][y], c)
               PROVE  k = h /\ x = y
    BY DEF UniqueState
  <2>1. IsStateOf(n[k][old(k, x)], c) /\ IsStateOf(n[h][old(h, y)], c)
    BY <1>5
  <2>2. old(k, x) \in 1 .. Len(n[k]) /\ old(h, y) \in 1 .. Len(n[h])
    BY <1>5
  <2>3. k = h /\ old(k, x) = old(h, y)
    BY ZenonT(60), <1>8, <2>1, <2>2 DEF UniqueState
  <2> QED
    BY <2>3, <1>6
<1>9. ASSUME NEW c \in Client, StateInFlight(r, c)
      PROVE  StateInFlight(n, c)
  BY <1>5, <1>9 DEF StateInFlight
<1>10. ASSUME NEW c \in Client, UniqueState(n, c), IsStateOf(n[l][i], c)
       PROVE  ~StateInFlight(r, c)
  <2>1. ASSUME NEW k \in Link, NEW j \in 1 .. Len(r[k]), IsStateOf(r[k][j], c)
        PROVE  FALSE
    <3>1. IsStateOf(n[k][old(k, j)], c) /\ old(k, j) \in 1 .. Len(n[k])
      BY <2>1, <1>5
    <3>2. k = l /\ old(k, j) = i
      BY <3>1, <1>10 DEF UniqueState
    <3> QED
      BY <3>2, <2>1, <1>5
  <2> QED
    BY <2>1 DEF StateInFlight
<1> QED
  BY <1>3, <1>7, <1>8, <1>9, <1>10 DEF r

(* Sending a packet: only a CONN_STATE adds one. *)
LEMMA AddedFacts ==
    ASSUME NEW n \in Nets, NEW l \in Link, NEW m \in Packet
    PROVE  /\ Added(n, l, m) \in Nets
           /\ NoSegmentGoesUp(n) /\ (m.type # "SEGMENT" \/ \A s \in Server : l # Up(s))
                 => NoSegmentGoesUp(Added(n, l, m))
           /\ \A c \in Client : ~IsStateOf(m, c) =>
                 /\ UniqueState(n, c) => UniqueState(Added(n, l, m), c)
                 /\ StateInFlight(Added(n, l, m), c) => StateInFlight(n, c)
           /\ \A c \in Client : ~StateInFlight(n, c) => UniqueState(Added(n, l, m), c)
<1> DEFINE r == Added(n, l, m)
           isNew(k, j) == k = l /\ j = Len(n[l]) + 1
<1>1. Len(n[l]) \in Nat /\ n[l] \in Seq(Packet)
  BY DEF Nets
<1>2. r \in Nets
  BY <1>1 DEF Nets, Added
<1>3. r[l] = Append(n[l], m) /\ \A k \in Link : k # l => r[k] = n[k]
  BY DEF Nets, Added
<1>4. \A k \in Link : \A j \in 1 .. Len(r[k]) :
         \/ isNew(k, j) /\ r[k][j] = m
         \/ ~isNew(k, j) /\ j \in 1 .. Len(n[k]) /\ r[k][j] = n[k][j]
  BY <1>1, <1>3
<1>5. \A k, h \in Link : \A i, j : isNew(k, i) /\ isNew(h, j) => k = h /\ i = j
  OBVIOUS
<1>6. \A k \in Link, j \in Nat : isNew(k, j) => k = l
  OBVIOUS
<1> HIDE DEF r, isNew
<1>7. ASSUME NoSegmentGoesUp(n), m.type # "SEGMENT" \/ \A s \in Server : l # Up(s)
      PROVE  NoSegmentGoesUp(r)
  <2> SUFFICES ASSUME NEW s \in Server, NEW j \in 1 .. Len(r[Up(s)])
               PROVE  r[Up(s)][j].type # "SEGMENT"
    BY DEF NoSegmentGoesUp
  <2>1. Up(s) \in Link /\ r[Up(s)] \in Seq(Packet) /\ j \in Nat
    BY LinkFacts, <1>2 DEF Nets
  <2>2. CASE isNew(Up(s), j) /\ r[Up(s)][j] = m
    BY <2>1, <2>2, <1>6, <1>7
  <2>3. CASE j \in 1 .. Len(n[Up(s)]) /\ r[Up(s)][j] = n[Up(s)][j]
    BY <2>3, <1>7 DEF NoSegmentGoesUp
  <2> QED
    BY <2>1, <2>2, <2>3, <1>4
<1>8. ASSUME NEW c \in Client, ~IsStateOf(m, c)
      PROVE  /\ UniqueState(n, c) => UniqueState(r, c)
             /\ StateInFlight(r, c) => StateInFlight(n, c)
  BY <1>4, <1>8 DEF UniqueState, StateInFlight
<1>9. ASSUME NEW c \in Client, ~StateInFlight(n, c)
      PROVE  UniqueState(r, c)
  BY <1>4, <1>5, <1>9 DEF UniqueState, StateInFlight
<1> QED
  BY <1>2, <1>7, <1>8, <1>9 DEF r

(* Receiving segments appends the next k of them and leaves a control block. *)
LEMMA ReceiveShape ==
    ASSUME NEW cb \in ControlBlock, NEW segs \in SUBSET (1 .. MaxSeg), NEW new \in Receive(cb, segs)
    PROVE  /\ new \in ControlBlock
           /\ \E k \in 0 .. MaxSeg :
                 /\ new.next = cb.next + k
                 /\ new.queue = cb.queue \o [j \in 1 .. k |-> cb.next + j]
<1> DEFINE all == {n \in cb.outOfOrder \cup segs : n > cb.next}
<1>1. cb.next \in Nat /\ cb.queue \in Seq(Nat) /\ cb.outOfOrder \subseteq 1 .. MaxSeg
  BY DEF ControlBlock
<1>2. all \subseteq 1 .. MaxSeg
  BY ZenonT(60), <1>1
<1>3. PICK k \in 0 .. MaxSeg :
         new = [next |-> cb.next + k, queue |-> cb.queue \o [j \in 1 .. k |-> cb.next + j],
                outOfOrder |-> all \ 1 .. (cb.next + k)]
  BY ZenonT(60) DEF Receive
<1> HIDE DEF all
<1>4. k \in Nat
  BY ConstantAssumption
<1>5. PICK fresh : fresh = [j \in 1 .. k |-> cb.next + j]
  BY Zenon
<1>6. fresh \in Seq(Nat)
  BY <1>1, <1>4, <1>5
<1>7. cb.queue \o fresh \in Seq(Nat)
  BY <1>1, <1>6
<1>8. PICK queue \in Seq(Nat), later \in SUBSET (1 .. MaxSeg) :
         queue = cb.queue \o fresh /\ later = all \ 1 .. (cb.next + k)
  BY ZenonT(60), <1>2, <1>7
<1>9. new = [next |-> cb.next + k, queue |-> queue, outOfOrder |-> later]
  BY ZenonT(60), <1>3, <1>5, <1>8
<1>10. new \in ControlBlock
  BY <1>1, <1>4, <1>9 DEF ControlBlock
<1> QED
  BY ZenonT(60), <1>3, <1>10

(* The fields of a received packet. *)
LEMMA PacketFacts ==
    ASSUME Inductive, NEW s \in Server, NEW i \in 1 .. Len(net[Down(s)])
    PROVE  LET m == net[Down(s)][i] IN
           /\ m \in Packet
           /\ m.client \in Client
           /\ m.type \in {"PREPARE_MIG", "PREPARE_MIG_ACK", "CONN_STATE", "CONN_STATE_ACK"} => m.src \in Server
           /\ m.type = "CONN_STATE" => m.cb \in ControlBlock /\ m.app \in BOOLEAN
           /\ m.type = "SEGMENT" => m.seq \in 1 .. MaxSeg
<1>1. net[Down(s)] \in Seq(Packet)
  BY LinkFacts, NetType
<1>2. net[Down(s)][i] \in Packet
  BY <1>1
<1> QED
  BY <1>2 DEF Packet

(* What TcpMigPeer::initiate_migration creates is typed. *)
LEMMA OriginMigrationType ==
    ASSUME NEW s \in Server, NEW q \in Qd
    PROVE  OriginMigration(s, q) \in ActiveMigration /\ OriginMigration(s, q).qd = q
<1>1. DefaultDest(s) \in Server
  BY ConstantAssumption DEF DefaultDest
<1>2. <<>> \in Seq(1 .. MaxSeg)
  OBVIOUS
<1> QED
  BY <1>1, <1>2 DEF OriginMigration, ActiveMigration, Stage

(* What an established descriptor leads to. *)
LEMMA EstablishedFacts ==
    ASSUME Inductive, NEW s \in Server, NEW q \in Qd, IsEstablished(s, q)
    PROVE  /\ sockets[s][q] \in Socket
           /\ sockets[s][q].conn \in Client
           /\ q \in files[s]
           /\ qds[s][sockets[s][q].conn] = q
           /\ established[s][sockets[s][q].conn] \in ControlBlock
<1>1. sockets[s][q] \in Socket
  BY SocketsType DEF IsEstablished
<1>2. sockets[s][q].conn \in Client
  BY SMTT(120), <1>1 DEF Socket
<1>3. q \in files[s] /\ qds[s][sockets[s][q].conn] = q /\ established[s][sockets[s][q].conn] # None
  BY DEF Inductive, TablesAgree
<1>4. established[s][sockets[s][q].conn] \in ControlBlock
  BY <1>2, <1>3, EstablishedType
<1> QED
  BY <1>1, <1>2, <1>3, <1>4

Migrations == [Server -> [Client -> ActiveMigration \cup {None}]]

(* Marking one socket as migrated out. *)
LEMMA SocketUpdate ==
    ASSUME Inductive, NEW s \in Server, NEW q \in Qd, sockets[s][q] \in Socket,
           sockets' = [sockets EXCEPT ![s][q].state = "MigratedOut"]
    PROVE  /\ sockets' \in [Server -> [Qd -> Socket \cup {None}]]
           /\ sockets'[s][q] # None /\ sockets'[s][q].state = "MigratedOut"
           /\ \A t \in Server, p \in Qd : ~(t = s /\ p = q) => sockets'[t][p] = sockets[t][p]
<1> DEFINE x == [sockets[s][q] EXCEPT !.state = "MigratedOut"]
<1>1. x \in Socket /\ x.state = "MigratedOut"
  BY DEF Socket
<1>2. sockets' = [sockets EXCEPT ![s] = [sockets[s] EXCEPT ![q] = x]]
  BY SocketsType
<1>3. x # None
  BY <1>1, NoneAssumption
<1>4. sockets \in [Server -> [Qd -> Socket \cup {None}]]
  BY SocketsType
<1> HIDE DEF x
<1> QED
  BY <1>1, <1>2, <1>3, <1>4

(* What a migration has buffered are segments. *)
LEMMA BufferedType ==
    ASSUME Inductive, NEW s \in Server, NEW c \in Client
    PROVE  Buffered(s, c) \in SUBSET (1 .. MaxSeg)
<1>1. CASE active[s][c] = None
  BY <1>1 DEF Buffered
<1>2. CASE active[s][c] # None
  <2>1. active[s][c] \in ActiveMigration
    BY <1>2, ActiveType
  <2>2. active[s][c].buffer \in Seq(1 .. MaxSeg)
    BY <2>1 DEF ActiveMigration
  <2>3. PICK b \in Seq(1 .. MaxSeg) : b = active[s][c].buffer
    BY <2>2
  <2>4. \A i \in 1 .. Len(b) : b[i] \in 1 .. MaxSeg
    BY ZenonT(60), ElementType
  <2> QED
    BY SMTT(120), <1>2, <2>3, <2>4 DEF Buffered
<1> QED
  BY <1>1, <1>2

(* A step that leaves the tables alone keeps what they say. *)
LEMMA HoldersKept ==
    ASSUME Inductive, UNCHANGED <<net, ready, established>>
    PROVE  SingleOwner'
BY SMTT(120) DEF Inductive, SingleOwner, Held

LEMMA TablesKept ==
    ASSUME Inductive, UNCHANGED <<established, sockets, qds, files>>
    PROVE  TablesAgree'
BY SMTT(120) DEF Inductive, TablesAgree, IsEstablished

(* The invariant holds initially. *)
LEMMA InductiveInit == Init => Inductive
<1> SUFFICES ASSUME Init
             PROVE  Inductive
  OBVIOUS
<1>1. NewControlBlock \in ControlBlock /\ NewControlBlock # None
  <2>1. <<>> \in Seq(Nat)
    OBVIOUS
  <2>2. NewControlBlock \in ControlBlock
    BY <2>1 DEF NewControlBlock, ControlBlock
  <2> QED
    BY <2>2, NoneAssumption
<1>2. /\ ready \in [Server -> [Client -> ControlBlock \cup {None}]]
      /\ \A s \in Server, c \in Client : ready[s][c] # None => owner[c] = s
      /\ \A s \in Server, c \in Client : established[s][c] = None /\ qds[s][c] = None
  BY <1>1 DEF Init
<1>3. net \in [Link -> Seq(Packet)] /\ \A l \in Link : Len(net[l]) = 0
  <2>1. <<>> \in Seq(Packet) /\ Len(<<>>) = 0
    OBVIOUS
  <2> QED
    BY <2>1 DEF Init
<1>4. TypeOK
  <2>1. delivered \in [Client -> Seq(Nat)]
    <3>1. <<>> \in Seq(Nat)
      OBVIOUS
    <3> QED
      BY <3>1 DEF Init
  <2> QED
    BY SMTT(120), <1>2, <1>3, <2>1, ConstantAssumption DEF Init, TypeOK
<1>5. SingleOwner
  BY SMTT(120), <1>2, <1>3 DEF SingleOwner, Held, UniqueState, StateInFlight
<1>6. TablesAgree
  BY SMTT(120), <1>2 DEF Init, TablesAgree, IsEstablished
<1>7. NoSegmentGoesUp(net)
  BY <1>3, LinkFacts DEF NoSegmentGoesUp
<1>8. OriginHasDescriptor /\ PopsHaveSocket
  BY SMTT(120) DEF Init, OriginHasDescriptor, PopsHaveSocket
<1> QED
  BY <1>4, <1>5, <1>6, <1>7, <1>8 DEF Inductive

=============================================================================
