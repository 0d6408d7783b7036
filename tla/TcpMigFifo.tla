----------------------------- MODULE TcpMigFifo -----------------------------
(***************************************************************************)
(* Migration over links that keep the order of their packets and lose      *)
(* none, of connections that no application closes: the switch and the     *)
(* servers agree where every connection is, no segment is lost, and no     *)
(* message makes a server panic.                                           *)
(***************************************************************************)
EXTENDS TcpMigView

Reliable == Fifo /\ Budget["lose"] = 0 /\ Budget["close"] = 0

(* The stage of the migration of c at s. *)
StageAt(s, c) == IF active[s][c] = None THEN "None" ELSE active[s][c].stage

IsOrigin(s, c) ==
    StageAt(s, c) = "PREPARE_MIG" /\ established[s][c] # None /\ active[s][c].qd = qds[s][c]

(* What the servers know of c. *)
View(c) == [stage   |-> [s \in Server |-> StageAt(s, c)],
            held    |-> {s \in Server : Held(s, c)},
            origins |-> {s \in Server : IsOrigin(s, c)},
            waiting |-> {s \in Server : ready[s][c] # None}]

(* An established connection has its descriptor. *)
Descriptors(c) ==
    \A s \in Server : established[s][c] # None =>
        IsEstablished(s, qds[s][c]) /\ sockets[s][qds[s][c]].conn = c

(* The origin of a migration has buffered nothing. *)
OriginsBufferNothing(c) ==
    \A s \in Server : StageAt(s, c) \in {"PREPARE_MIG", "CONN_STATE"} => active[s][c].buffer = <<>>

Agreed(c) == Protocol(net, owner[c], c, View(c))

(* The inductive invariant of reliable executions, besides Inductive. *)
Orderly ==
    /\ \A c \in Client : Agreed(c) /\ Descriptors(c) /\ OriginsBufferNothing(c)
    /\ OnlyUsersPanic

(* The fields of a view. *)
LEMMA ViewFields ==
    \A c \in Client, u \in Server :
        /\ View(c).stage[u] = StageAt(u, c)
        /\ u \in View(c).held <=> Held(u, c)
        /\ u \in View(c).origins <=> IsOrigin(u, c)
        /\ u \in View(c).waiting <=> ready[u][c] # None
BY DEF View

LEMMA ViewFieldsAfter ==
    (\A c \in Client, u \in Server :
        /\ View(c).stage[u] = StageAt(u, c)
        /\ u \in View(c).held <=> Held(u, c)
        /\ u \in View(c).origins <=> IsOrigin(u, c)
        /\ u \in View(c).waiting <=> ready[u][c] # None)'
BY ViewFields, PTL

(* Views are typed, and the control block is in one place. *)
LEMMA ViewFacts ==
    ASSUME Inductive, NEW c \in Client
    PROVE  View(c) \in Views /\ Single(net, c, View(c))
<1>1. \A s \in Server : StageAt(s, c) \in Stage \cup {"None"}
  BY DEF Inductive, TypeOK, StageAt, ActiveMigration
<1>2. View(c) \in Views
  BY ZenonT(60), <1>1 DEF View, Views
<1>3. \A s, t \in View(c).held : s = t
  BY DEF View, Inductive, SingleOwner
<1>4. View(c).origins \subseteq View(c).held /\ View(c).waiting \subseteq View(c).held
  BY DEF View, IsOrigin, Held
<1>5. \A s \in View(c).origins : s \notin View(c).waiting /\ View(c).stage[s] = "PREPARE_MIG"
  BY DEF View, IsOrigin, Inductive, SingleOwner
<1>6. ASSUME NEW l \in Link, NEW m \in Packet, At(net, l, m), IsStateOf(m, c)
      PROVE  View(c).held = {}
  <2>1. StateInFlight(net, c)
    BY ZenonT(60), <1>6 DEF At, StateInFlight
  <2> QED
    BY <2>1 DEF View, Inductive, SingleOwner
<1> QED
  BY ZenonT(60), <1>2, <1>3, <1>4, <1>5, <1>6 DEF Single

LEMMA ViewTyped == Inductive => \A c \in Client : View(c) \in Views
BY ViewFacts

LEMMA ViewTypedAfter == Inductive' => (\A c \in Client : View(c) \in Views)'
BY ViewTyped, PTL

(* The tables change only for connection c at server s. *)
ChangeAt(s, c) ==
    \A t \in Server, d \in Client : ~(t = s /\ d = c) =>
        /\ active'[t][d] = active[t][d] /\ ready'[t][d] = ready[t][d]
        /\ established'[t][d] = established[t][d] /\ qds'[t][d] = qds[t][d]

LEMMA ChangedViews ==
    ASSUME NEW s \in Server, NEW c \in Client, ChangeAt(s, c)
    PROVE  /\ \A d \in Client : d # c => View(d)' = View(d)
           /\ SameBut(View(c), View(c)', s)
<1>1. ASSUME NEW t \in Server, NEW d \in Client, ~(t = s /\ d = c)
      PROVE  /\ StageAt(t, d)' = StageAt(t, d) /\ (Held(t, d)' <=> Held(t, d))
             /\ IsOrigin(t, d)' <=> IsOrigin(t, d)
             /\ ready'[t][d] # None <=> ready[t][d] # None
  BY <1>1 DEF ChangeAt, StageAt, Held, IsOrigin
<1>2. ASSUME NEW d \in Client, d # c
      PROVE  View(d)' = View(d)
  <2>1. [t \in Server |-> StageAt(t, d)'] = [t \in Server |-> StageAt(t, d)]
    BY <1>1, <1>2
  <2>2. {t \in Server : Held(t, d)'} = {t \in Server : Held(t, d)}
    BY <1>1, <1>2
  <2>3. {t \in Server : IsOrigin(t, d)'} = {t \in Server : IsOrigin(t, d)}
    BY ZenonT(60), <1>1, <1>2
  <2>4. {t \in Server : ready'[t][d] # None} = {t \in Server : ready[t][d] # None}
    BY <1>1, <1>2
  <2> QED
    BY ZenonT(60), <2>1, <2>2, <2>3, <2>4 DEF View
<1>3. ASSUME NEW u \in Server, u # s
      PROVE  SameAt(View(c), View(c)', u)
  <2>1. /\ View(c).stage[u] = StageAt(u, c)
        /\ u \in View(c).held <=> Held(u, c)
        /\ u \in View(c).origins <=> IsOrigin(u, c)
        /\ u \in View(c).waiting <=> ready[u][c] # None
    BY ZenonT(60), ViewFields
  <2>2. /\ View(c)'.stage[u] = StageAt(u, c)'
        /\ u \in View(c)'.held <=> Held(u, c)'
        /\ u \in View(c)'.origins <=> IsOrigin(u, c)'
        /\ u \in View(c)'.waiting <=> ready'[u][c] # None
    BY ZenonT(60), ViewFieldsAfter
  <2>3. ~(u = s /\ c = c)
    BY <1>3
  <2> QED
    BY ZenonT(60), <1>1, <2>1, <2>2, <2>3 DEF SameAt
<1> QED
  BY ZenonT(60), <1>2, <1>3 DEF SameBut

(* r is n but for packets that concern no migration of d. *)
Quiet(n, r, o, d) == r \in Nets /\ InOrder(r, o, d) /\ SameControl(n, r, d)

LEMMA QuietTaken ==
    ASSUME NEW n \in Nets, NEW l \in Link, NEW d \in Client, NEW o, InOrder(n, o, d),
           NEW h, IsHead(n, l, h), ~IsToken(h, d), ~IsRelease(h, d)
    PROVE  Quiet(n, Removed(n, l, 1), o, d)
<1>1. PICK e : e = Removed(n, l, 1)
  OBVIOUS
<1>2. Taken(n, l, h, e, o, d)
  BY ZenonT(60), <1>1, HeadIsTaken
<1>3. SameControl(n, e, d)
  BY ZenonT(60), <1>2 DEF SameControl, Taken
<1> QED
  BY <1>1, <1>2, <1>3 DEF Quiet, Taken

LEMMA QuietSent ==
    ASSUME NEW n \in Nets, NEW l \in Link, NEW d \in Client, NEW o, InOrder(n, o, d),
           NEW x \in Packet, ~IsToken(x, d), ~IsRelease(x, d), IsSegment(x, d) => l = Down(o) /\ o \in Server
    PROVE  Quiet(n, Added(n, l, x), o, d)
<1>1. PICK r : r = Added(n, l, x)
  OBVIOUS
<1>2. MaySend(n, o, d, l, x)
  BY ZenonT(60) DEF MaySend
<1>3. Sent(n, l, x, r, o, d)
  BY ZenonT(60), <1>1, <1>2, PacketIsSent
<1>4. SameControl(n, r, d)
  BY ZenonT(60), <1>3 DEF SameControl, Sent
<1> QED
  BY <1>1, <1>3, <1>4 DEF Quiet, Sent

(* The first packet of a link is the one that arrives. *)
LEMMA Arrival ==
    ASSUME Inductive, Reliable, NEW l \in Link, NEW i \in Arrivals(l)
    PROVE  /\ i = 1 /\ IsHead(net, l, net[l][i])
           /\ net[l][i] \in Packet /\ net[l][i].client \in Client
<1>1. net[l] \in Seq(Packet)
  BY ZenonT(60), NetType
<1>2. i = 1 /\ i \in 1 .. Len(net[l])
  BY DEF Arrivals, Reliable
<1>3. net[l][i] \in Packet
  BY <1>1, <1>2
<1>4. net[l][i].client \in Client
  BY <1>3 DEF Packet
<1> QED
  BY ZenonT(60), <1>2, <1>3, <1>4 DEF IsHead

(* Only packets of c come and go. *)
NetTouches(c) ==
    \/ net' = net
    \/ \E l \in Link, x \in Packet : x.client = c /\ net' = Added(net, l, x)
    \/ \E k \in Link : \E h : IsHead(net, k, h) /\ h.client = c /\ net' = Removed(net, k, 1)
    \/ \E k, l \in Link, x \in Packet : \E h :
          /\ IsHead(net, k, h) /\ h.client = c
          /\ x.client = c /\ net' = Added(Removed(net, k, 1), l, x)

LEMMA OthersQuiet ==
    ASSUME Inductive, NEW c \in Client, NetTouches(c), NEW d \in Client, d # c, InOrder(net, owner[d], d)
    PROVE  Quiet(net, net', owner[d], d)
<1>1. net \in Nets
  BY NetType DEF Nets
<1>2. \A m : m.client = c => ~IsToken(m, d) /\ ~IsRelease(m, d) /\ ~IsSegment(m, d)
  BY DEF IsToken, IsRelease, IsSegment
<1>3. CASE net' = net
  BY ZenonT(60), <1>1, <1>3 DEF Quiet, SameControl
<1>4. CASE \E l \in Link, x \in Packet : x.client = c /\ net' = Added(net, l, x)
  BY ZenonT(60), <1>1, <1>2, <1>4, QuietSent
<1>5. CASE \E k \in Link : \E h : IsHead(net, k, h) /\ h.client = c /\ net' = Removed(net, k, 1)
  BY ZenonT(60), <1>1, <1>2, <1>5, QuietTaken
<1>6. CASE \E k, l \in Link, x \in Packet : \E h :
              /\ IsHead(net, k, h) /\ h.client = c
              /\ x.client = c /\ net' = Added(Removed(net, k, 1), l, x)
  <2>0. PICK k \in Link, l \in Link, x \in Packet :
              \E h : /\ IsHead(net, k, h) /\ h.client = c
                    /\ x.client = c /\ net' = Added(Removed(net, k, 1), l, x)
    BY ZenonT(60), <1>6
  <2>1. PICK h : /\ IsHead(net, k, h) /\ h.client = c
                 /\ x.client = c /\ net' = Added(Removed(net, k, 1), l, x)
    BY ZenonT(60), <2>0
  <2>2. PICK e : e = Removed(net, k, 1)
    OBVIOUS
  <2>3. Quiet(net, e, owner[d], d)
    BY ZenonT(60), <1>1, <1>2, <2>1, <2>2, QuietTaken
  <2>4. Quiet(e, net', owner[d], d)
    BY ZenonT(60), <1>2, <2>1, <2>2, <2>3, QuietSent DEF Quiet
  <2> QED
    BY ZenonT(60), <2>3, <2>4 DEF Quiet, SameControl
<1> QED
  BY ZenonT(60), <1>3, <1>4, <1>5, <1>6 DEF NetTouches

(* A step that concerns no migration of d. *)
LEMMA AgreedFrame ==
    ASSUME NEW d \in Client, Agreed(d), Quiet(net, net', owner[d], d),
           owner'[d] = owner[d], View(d)' = View(d)
    PROVE  Agreed(d)'
BY ZenonT(60), ProtocolFrame DEF Agreed, Quiet

(* A step of the migration of c at s. *)
LEMMA StepAt ==
    ASSUME Inductive, Orderly, NEW s \in Server, NEW c \in Client,
           ChangeAt(s, c), NetTouches(c), \A d \in Client : d # c => owner'[d] = owner[d],
           Agreed(c)', \A d \in Client : Descriptors(d)', OnlyUsersPanic',
           StageAt(s, c)' \in {"PREPARE_MIG", "CONN_STATE"} => active'[s][c].buffer = <<>>
    PROVE  Orderly'
<1>1. ASSUME NEW d \in Client, d # c
      PROVE  Agreed(d)'
  <2>1. Agreed(d) /\ InOrder(net, owner[d], d)
    BY ZenonT(60) DEF Orderly, Agreed, Protocol
  <2>2. View(d)' = View(d)
    BY ZenonT(60), <1>1, ChangedViews
  <2> QED
    BY ZenonT(60), <1>1, <2>1, <2>2, OthersQuiet, AgreedFrame
<1>2. ASSUME NEW d \in Client
      PROVE  OriginsBufferNothing(d)'
  <2> SUFFICES ASSUME NEW t \in Server, StageAt(t, d)' \in {"PREPARE_MIG", "CONN_STATE"}
               PROVE  active'[t][d].buffer = <<>>
    BY ZenonT(60) DEF OriginsBufferNothing
  <2>1. CASE ~(t = s /\ d = c)
    BY <2>1 DEF ChangeAt, StageAt, Orderly, OriginsBufferNothing
  <2>2. CASE t = s /\ d = c
    BY <2>2
  <2> QED
    BY <2>1, <2>2
<1> QED
  BY ZenonT(60), <1>1, <1>2 DEF Orderly

(* A step that concerns no migration. *)
LEMMA StepFrame ==
    ASSUME Orderly, UNCHANGED owner, \A d \in Client : View(d)' = View(d),
           \A d \in Client : Quiet(net, net', owner[d], d),
           \A d \in Client : Descriptors(d)', \A d \in Client : OriginsBufferNothing(d)',
           OnlyUsersPanic'
    PROVE  Orderly'
BY ZenonT(60), AgreedFrame DEF Orderly

(* The descriptors of a step that changes none. *)
LEMMA DescriptorsFrame ==
    ASSUME Orderly, UNCHANGED <<sockets, qds>>,
           \A s \in Server, d \in Client : established'[s][d] # None => established[s][d] # None
    PROVE  \A d \in Client : Descriptors(d)'
BY DEF Orderly, Descriptors, IsEstablished

(* A new entry x for c at s. *)
LEMMA NewMigration ==
    ASSUME Inductive, NEW s \in Server, NEW c \in Client, NEW x \in ActiveMigration,
           active' = [active EXCEPT ![s][c] = x], UNCHANGED <<ready, established, qds>>
    PROVE  /\ ChangeAt(s, c)
           /\ active'[s][c] = x /\ StageAt(s, c)' = x.stage
<1>1. active \in [Server -> [Client -> ActiveMigration \cup {None}]]
  BY ActiveType
<1>2. active'[s][c] = x /\ \A t \in Server, d \in Client : ~(t = s /\ d = c) => active'[t][d] = active[t][d]
  BY <1>1
<1>3. x # None
  BY ZenonT(60), NoneAssumption
<1> QED
  BY ZenonT(60), <1>2, <1>3 DEF ChangeAt, StageAt

(* The view of c after a step at s. *)
LEMMA ViewAfter ==
    ASSUME Inductive, Inductive', NEW s \in Server, NEW c \in Client, ChangeAt(s, c)
    PROVE  /\ View(c) \in Views /\ View(c)' \in Views /\ Single(net, c, View(c))
           /\ SameBut(View(c), View(c)', s)
           /\ View(c).stage[s] = StageAt(s, c) /\ View(c)'.stage[s] = StageAt(s, c)'
           /\ s \in View(c).held <=> Held(s, c)
           /\ s \in View(c)'.held <=> Held(s, c)'
           /\ s \in View(c).origins <=> IsOrigin(s, c)
           /\ s \in View(c)'.origins <=> IsOrigin(s, c)'
           /\ s \in View(c).waiting <=> ready[s][c] # None
           /\ s \in View(c)'.waiting <=> ready'[s][c] # None
<1>1. View(c) \in Views /\ Single(net, c, View(c)) /\ SameBut(View(c), View(c)', s)
  BY ZenonT(60), ViewFacts, ChangedViews
<1>2. View(c)' \in Views
  BY ZenonT(60), ViewTypedAfter
<1>3. /\ View(c).stage[s] = StageAt(s, c)
      /\ s \in View(c).held <=> Held(s, c)
      /\ s \in View(c).origins <=> IsOrigin(s, c)
      /\ s \in View(c).waiting <=> ready[s][c] # None
  BY ZenonT(60), ViewFields
<1>4. /\ View(c)'.stage[s] = StageAt(s, c)'
      /\ s \in View(c)'.held <=> Held(s, c)'
      /\ s \in View(c)'.origins <=> IsOrigin(s, c)'
      /\ s \in View(c)'.waiting <=> ready'[s][c] # None
  BY ZenonT(60), ViewFieldsAfter
<1> QED
  BY ZenonT(60), <1>1, <1>2, <1>3, <1>4

(* A step that leaves the tables of TcpPeer alone. *)
LEMMA SameDescriptors ==
    ASSUME Orderly, UNCHANGED <<established, sockets, qds>>
    PROVE  \A d \in Client : Descriptors(d)'
BY ZenonT(60), DescriptorsFrame

(* Initiating a migration. *)
LEMMA OrderlyInitiate ==
    ASSUME Inductive, Inductive', Orderly,
           NEW s \in Server, NEW c \in Client, NEW q \in Qd, Initiate(s, c, q),
           active[s][c] = None, established[s][c] # None, qds[s][c] = q,
           UNCHANGED <<owner, ready, established, sockets, qds, panicked>>
    PROVE  Orderly'
<1>1. OriginMigration(s, q) \in ActiveMigration /\ OriginMigration(s, q).qd = q
      /\ OriginMigration(s, q).stage = "PREPARE_MIG" /\ OriginMigration(s, q).buffer = <<>>
  BY OriginMigrationType DEF OriginMigration
<1>2. /\ ChangeAt(s, c)
      /\ active'[s][c] = OriginMigration(s, q) /\ StageAt(s, c)' = "PREPARE_MIG"
  BY ZenonT(60), <1>1, NewMigration DEF Initiate
<1>3. IsOrigin(s, c)' /\ Held(s, c)' /\ Held(s, c) /\ StageAt(s, c) = "None" /\ ~IsOrigin(s, c)
  BY <1>1, <1>2 DEF IsOrigin, Held, StageAt
<1>4. net \in Nets /\ owner[c] \in Server /\ Up(s) \in Link
  BY LinkFacts, OwnerType, NetType DEF Nets
<1>5. net' = Added(net, Up(s), PrepareMig(s, c)) /\ PrepareMig(s, c) \in Packet /\ PrepareMig(s, c).client = c
  BY DEF Initiate, Added, PrepareMig, Packet
<1>6. Protocol(net', owner[c], c, View(c)')
  <2>1. Protocol(net, owner[c], c, View(c))
    BY DEF Orderly, Agreed
  <2> QED
    BY ZenonT(60), <1>2, <1>3, <1>4, <1>5, <2>1, ViewAfter, Initiated
<1>7. Agreed(c)'
  BY <1>6 DEF Agreed
<1>8. NetTouches(c)
  BY ZenonT(60), <1>4, <1>5 DEF NetTouches
<1>9. OnlyUsersPanic'
  BY ZenonT(60) DEF Orderly, OnlyUsersPanic
<1> QED
  BY ZenonT(60), <1>1, <1>2, <1>7, <1>8, <1>9, SameDescriptors, StepAt

(* The application initiates a migration, or panics when it asks twice. *)
LEMMA OrderlyInitiateMigration ==
    ASSUME Inductive, Inductive', Orderly, NEW s \in Server, NEW q \in Qd, InitiateMigration(s, q)
    PROVE  Orderly'
<1>1. PICK c : c = sockets[s][q].conn
  OBVIOUS
<1>2. IsEstablished(s, q) /\ UNCHANGED <<owner, tcpVars>>
  BY ZenonT(60) DEF InitiateMigration
<1>3. c \in Client /\ qds[s][c] = q /\ established[s][c] # None
  <2>1. c \in Client /\ qds[s][c] = q /\ established[s][c] \in ControlBlock
    BY ZenonT(60), <1>1, <1>2, EstablishedFacts
  <2> QED
    BY ZenonT(60), <2>1, NoneAssumption
<1>4. CASE active[s][c] = None /\ Initiate(s, c, q) /\ UNCHANGED panicked
  BY ZenonT(60), <1>2, <1>3, <1>4, OrderlyInitiate DEF tcpVars
<1>5. CASE Panic(s, "duplicate initiate migration") /\ UNCHANGED <<active, net>>
  <2>1. OnlyUsersPanic'
    BY ZenonT(60), <1>5 DEF Orderly, OnlyUsersPanic, Panic, Inductive, TypeOK
  <2>2. \A d \in Client : View(d)' = View(d)
    BY ZenonT(60), <1>2, <1>5 DEF View, StageAt, Held, IsOrigin, tcpVars
  <2>3. \A d \in Client : OriginsBufferNothing(d)'
    BY ZenonT(60), <1>5 DEF Orderly, OriginsBufferNothing, StageAt
  <2>4. \A d \in Client : Quiet(net, net', owner[d], d)
    BY ZenonT(60), <1>5, NetType DEF Quiet, SameControl, Orderly, Agreed, Protocol, Nets
  <2> QED
    BY ZenonT(60), <1>2, <2>1, <2>2, <2>3, <2>4, SameDescriptors, StepFrame DEF tcpVars
<1> QED
  BY ZenonT(60), <1>1, <1>4, <1>5 DEF InitiateMigration

(* The load policy initiates one. *)
LEMMA OrderlyInitiateMigrationByAddr ==
    ASSUME Inductive, Inductive', Orderly, NEW s \in Server, NEW c \in Client, InitiateMigrationByAddr(s, c)
    PROVE  Orderly'
<1>1. qds[s][c] \in Qd
  BY QdsType DEF InitiateMigrationByAddr
<1> QED
  BY ZenonT(60), <1>1, OrderlyInitiate DEF InitiateMigrationByAddr, tcpVars

(* The packet that s receives is the first of its link. *)
LEMMA Received ==
    ASSUME Inductive, Reliable, NEW s \in Server, NEW i \in 1 .. Len(net[Down(s)]), NEW type, IsNext(s, i, type)
    PROVE  /\ i = 1 /\ IsHead(net, Down(s), net[Down(s)][i])
           /\ net[Down(s)][i] \in Packet /\ net[Down(s)][i].client \in Client
           /\ net[Down(s)][i].type = type
<1>1. Down(s) \in Link /\ i \in Arrivals(Down(s)) /\ net[Down(s)][i].type = type
  BY ZenonT(60), LinkFacts DEF IsNext
<1> QED
  BY ZenonT(60), <1>1, Arrival

(* It answers. *)
LEMMA Answered ==
    ASSUME Inductive, NEW s \in Server, NEW h, IsHead(net, Down(s), h), NEW x \in Packet,
           NEW c \in Client, h.client = c, x.client = c, TakeAndSend(s, 1, x)
    PROVE  net' = Added(Removed(net, Down(s), 1), Up(s), x) /\ NetTouches(c)
<1>1. Down(s) \in Link /\ Up(s) \in Link /\ Down(s) # Up(s)
  BY ZenonT(60), LinkFacts
<1>2. net' = Added(Removed(net, Down(s), 1), Up(s), x)
  BY ZenonT(60), <1>1, NetType DEF TakeAndSend, Added, Removed
<1>3. \E k, l \in Link, y \in Packet : \E g :
          /\ IsHead(net, k, g) /\ g.client = c
          /\ y.client = c /\ net' = Added(Removed(net, k, 1), l, y)
  BY <1>1, <1>2
<1> QED
  BY ZenonT(60), <1>2, <1>3 DEF NetTouches

(* The protocol of c before a step. *)
LEMMA AgreedBefore ==
    ASSUME Inductive, Orderly, NEW c \in Client
    PROVE  net \in Nets /\ owner[c] \in Server /\ Protocol(net, owner[c], c, View(c))
BY ZenonT(60), OwnerType, NetType DEF Nets, Orderly, Agreed

(* PREPARE_MIG where no migration is active. *)
LEMMA OrderlyReceivePrepareMig ==
    ASSUME Inductive, Inductive', Orderly, Reliable, NEW s \in Server, ReceivePrepareMig(s)
    PROVE  Orderly'
<1>1. PICK i \in 1 .. Len(net[Down(s)]) :
         LET m == net[Down(s)][i] IN
         /\ IsNext(s, i, "PREPARE_MIG")
         /\ active[s][m.client] = None
         /\ active' = [active EXCEPT ![s][m.client] = TargetMigration(m.src)]
         /\ TakeAndSend(s, i, PrepareMigAck(s, m.client, m.src))
         /\ UNCHANGED <<owner, tcpVars, appState, userVars, panicked, peerVars, used>>
  BY ZenonT(60) DEF ReceivePrepareMig
<1>2. PICK h, c : h = net[Down(s)][i] /\ c = h.client
  OBVIOUS
<1>3. /\ i = 1 /\ IsHead(net, Down(s), h) /\ h \in Packet /\ c \in Client /\ h.type = "PREPARE_MIG"
      /\ active[s][c] = None /\ active' = [active EXCEPT ![s][c] = TargetMigration(h.src)]
      /\ TakeAndSend(s, 1, PrepareMigAck(s, c, h.src))
      /\ UNCHANGED <<owner, ready, established, sockets, qds, panicked>>
  BY ZenonT(60), <1>1, <1>2, Received DEF tcpVars
<1>4. IsPrepare(h, c) /\ h.src \in Server
  BY ZenonT(60), <1>2, <1>3 DEF IsPrepare, Packet
<1> DEFINE x == TargetMigration(h.src)
           a == PrepareMigAck(s, c, h.src)
<1>5. x \in ActiveMigration /\ x.stage = "PREPARE_MIG_ACK"
  <2>1. <<>> \in Seq(1 .. MaxSeg)
    OBVIOUS
  <2> QED
    BY <1>4, <2>1 DEF TargetMigration, ActiveMigration, Stage
<1>6. a \in Packet /\ a.client = c
  BY ZenonT(60), <1>3, <1>4 DEF PrepareMigAck, Packet
<1> HIDE DEF x
<1>7. ChangeAt(s, c) /\ StageAt(s, c)' = "PREPARE_MIG_ACK" /\ StageAt(s, c) = "None"
  <2>1. active' = [active EXCEPT ![s][c] = x]
    BY ZenonT(60), <1>3 DEF x
  <2>2. UNCHANGED <<ready, established, qds>> /\ c \in Client
    BY <1>3
  <2>3. ChangeAt(s, c) /\ StageAt(s, c)' = x.stage
    BY ZenonT(60), <1>5, <2>1, <2>2, NewMigration
  <2> QED
    BY ZenonT(60), <1>3, <1>5, <2>3 DEF StageAt
<1>8. net' = Added(Removed(net, Down(s), 1), Up(s), a) /\ NetTouches(c)
  <2> HIDE DEF a
  <2>1. TakeAndSend(s, 1, a)
    BY ZenonT(60), <1>3 DEF a
  <2> QED
    BY ZenonT(60), <1>2, <1>3, <1>6, <2>1, Answered
<1>9. Protocol(net', owner[c], c, View(c)')
  BY ZenonT(60), <1>3, <1>4, <1>7, <1>8, AgreedBefore, ViewAfter, PrepareTaken
<1>10. Agreed(c)' /\ OnlyUsersPanic'
  BY ZenonT(60), <1>3, <1>9 DEF Agreed, Orderly, OnlyUsersPanic
<1> QED
  BY ZenonT(60), <1>3, <1>7, <1>8, <1>10, SameDescriptors, StepAt

(* PREPARE_MIG where a migration is active: it is the server's own. *)
LEMMA OrderlyReceiveReturned ==
    ASSUME Inductive, Inductive', Orderly, Reliable, NEW s \in Server, ReceiveReturned(s)
    PROVE  Orderly'
<1>1. PICK i \in 1 .. Len(net[Down(s)]) :
         LET m == net[Down(s)][i]
             c == m.client
             hasConn == m.src = s /\ qds[s][c] # None /\ established[s][c] # None
         IN
         /\ IsNext(s, i, "PREPARE_MIG")
         /\ active[s][c] # None
         /\ \/ /\ hasConn
               /\ active' = [active EXCEPT ![s][c] = OriginMigration(s, qds[s][c])]
               /\ TakeAndSend(s, i, PrepareMig(s, c))
               /\ UNCHANGED panicked
            \/ /\ ~hasConn
               /\ Panic(s, "no QD found for connection")
               /\ Take(s, i)
               /\ UNCHANGED active
         /\ UNCHANGED <<owner, tcpVars, appState, userVars, peerVars, used>>
  BY ZenonT(60) DEF ReceiveReturned
<1>2. PICK h, c : h = net[Down(s)][i] /\ c = h.client
  OBVIOUS
<1>3. /\ i = 1 /\ IsHead(net, Down(s), h) /\ h \in Packet /\ c \in Client /\ h.type = "PREPARE_MIG"
      /\ active[s][c] # None
      /\ UNCHANGED <<owner, ready, established, sockets, qds>>
  BY ZenonT(60), <1>1, <1>2, Received DEF tcpVars
<1>4. IsPrepare(h, c) /\ View(c).stage[s] = StageAt(s, c) /\ StageAt(s, c) # "None"
  <2>1. active[s][c] \in ActiveMigration
    BY <1>3, ActiveType
  <2>2. active[s][c].stage # "None"
    BY ZenonT(60), <2>1 DEF ActiveMigration, Stage
  <2> QED
    BY ZenonT(60), <1>2, <1>3, <2>2, ViewFields DEF IsPrepare, StageAt
<1>5. h.src = s /\ IsOrigin(s, c)
  <2>1. h.src = owner[c] /\ owner[c] \in View(c).origins /\ owner[c] = s
    <3>1. /\ net \in Nets /\ owner[c] \in Server /\ Protocol(net, owner[c], c, View(c))
          /\ View(c) \in Views /\ Single(net, c, View(c)) /\ View(c).stage[s] # "None"
      BY ZenonT(60), <1>3, <1>4, AgreedBefore, ViewFacts
    <3> QED
      BY SMTT(120), <1>3, <1>4, <3>1, PrepareArrives
  <2> QED
    BY ZenonT(60), <1>3, <2>1, ViewFields
<1>6. established[s][c] # None /\ qds[s][c] # None /\ qds[s][c] \in Qd
  <2>1. established[s][c] # None /\ qds[s][c] # None
    BY ZenonT(60), <1>3, <1>5 DEF IsOrigin, Inductive, TablesAgree
  <2> QED
    BY <1>3, <2>1, QdsType
<1>7. /\ active' = [active EXCEPT ![s][c] = OriginMigration(s, qds[s][c])]
      /\ TakeAndSend(s, 1, PrepareMig(s, c))
      /\ UNCHANGED panicked
  BY ZenonT(60), <1>1, <1>2, <1>3, <1>5, <1>6
<1> DEFINE x == OriginMigration(s, qds[s][c])
           a == PrepareMig(s, c)
<1>8. x \in ActiveMigration /\ x.stage = "PREPARE_MIG" /\ x.buffer = <<>> /\ x.qd = qds[s][c]
  BY ZenonT(60), <1>6, OriginMigrationType DEF OriginMigration
<1>9. a \in Packet /\ a.client = c
  BY <1>3 DEF PrepareMig, Packet
<1> HIDE DEF x
<1>10. ChangeAt(s, c) /\ StageAt(s, c)' = "PREPARE_MIG" /\ active'[s][c] = x
  <2>1. active' = [active EXCEPT ![s][c] = x]
    BY <1>7 DEF x
  <2>2. UNCHANGED <<ready, established, qds>> /\ c \in Client
    BY <1>3
  <2>3. x \in ActiveMigration
    BY <1>8
  <2>4. ChangeAt(s, c) /\ active'[s][c] = x /\ StageAt(s, c)' = x.stage
    BY ZenonT(60), <2>1, <2>2, <2>3, NewMigration
  <2> QED
    BY <1>8, <2>4
<1>11. IsOrigin(s, c)'
  BY ZenonT(60), <1>3, <1>6, <1>8, <1>10 DEF IsOrigin
<1>12. net' = Added(Removed(net, Down(s), 1), Up(s), a) /\ NetTouches(c)
  <2> HIDE DEF a
  <2>1. TakeAndSend(s, 1, a)
    BY <1>7 DEF a
  <2> QED
    BY ZenonT(60), <1>2, <1>3, <1>9, <2>1, Answered
<1>13. Protocol(net', owner[c], c, View(c)')
  BY ZenonT(60), <1>3, <1>4, <1>10, <1>11, <1>12, AgreedBefore, ViewAfter, PrepareReturned
<1>14. Agreed(c)' /\ OnlyUsersPanic'
  BY ZenonT(60), <1>3, <1>7, <1>13 DEF Agreed, Orderly, OnlyUsersPanic
<1> QED
  BY ZenonT(60), <1>3, <1>8, <1>10, <1>12, <1>14, SameDescriptors, StepAt

(* PREPARE_MIG_ACK at the origin: it has the connection under the          *)
(* descriptor it stored, so the state goes to the server that answered.    *)
LEMMA OrderlyReceivePrepareMigAck ==
    ASSUME Inductive, Inductive', Orderly, Reliable, NEW s \in Server, ReceivePrepareMigAck(s)
    PROVE  Orderly'
<1>1. PICK i \in 1 .. Len(net[Down(s)]) :
        LET m == net[Down(s)][i]
            mig == active[s][m.client]
            q == mig.qd
            c == sockets[s][q].conn
            migrating == active[s][c] # None /\ active[s][c].stage = "PREPARE_MIG"
            acknowledged == Acknowledged(s, m)
        IN
        /\ IsNext(s, i, "PREPARE_MIG_ACK")
        /\ mig # None
        /\ mig.stage = "PREPARE_MIG"
        /\ \/ /\ ~IsEstablished(s, q)
              /\ Panic(s, "invalid QD for migrating out")
              /\ Take(s, i)
              /\ UNCHANGED <<sockets, qds, established, active, appState, pops>>
           \/ /\ IsEstablished(s, q)
              /\ ~migrating
              /\ Panic(s, "no migration for state")
              /\ Take(s, i)
              /\ UNCHANGED <<sockets, qds, established, active, appState, pops>>
           \/ /\ IsEstablished(s, q)
              /\ migrating
              /\ MigrateOut(s, q, c)
              /\ appState' = AppStateAfter(s, c)
              /\ active' = [acknowledged EXCEPT ![s][c].stage = "CONN_STATE"]
              /\ TakeAndSend(s, i, [type |-> "CONN_STATE", client |-> c, src |-> s,
                                    dst |-> acknowledged[s][c].dest,
                                    cb |-> ControlBlockState(established[s][c]),
                                    app |-> appState[s][c] = "Registered"])
              /\ UNCHANGED panicked
        /\ UNCHANGED <<owner, ready, files, delivered, peerVars, used>>
  BY ZenonT(60) DEF ReceivePrepareMigAck
<1>2. PICK h, c : h = net[Down(s)][i] /\ c = h.client
  OBVIOUS
<1>3. PICK q : q = active[s][c].qd
  OBVIOUS
<1>4. /\ i = 1 /\ IsHead(net, Down(s), h) /\ h \in Packet /\ c \in Client /\ h.type = "PREPARE_MIG_ACK"
      /\ active[s][c] # None /\ active[s][c].stage = "PREPARE_MIG"
      /\ owner' = owner /\ ready' = ready
  BY ZenonT(60), <1>1, <1>2, Received
<1>5. IsAck(h, c) /\ h.src \in Server
  BY ZenonT(60), <1>2, <1>4 DEF IsAck, Packet
<1>6. IsOrigin(s, c) /\ established[s][c] \in ControlBlock /\ established[s][c] # None /\ q = qds[s][c] /\ q \in Qd
  <2>1. s \in View(c).origins
    BY ZenonT(60), <1>4, <1>5, AgreedBefore, ViewFacts, AckArrives
  <2>2. IsOrigin(s, c)
    BY ZenonT(60), <1>4, <2>1, ViewFields
  <2>3. established[s][c] # None /\ q = qds[s][c] /\ established[s][c] \in ControlBlock
    BY ZenonT(60), <1>3, <1>4, <2>2, EstablishedType DEF IsOrigin
  <2>4. q \in Qd
    BY ZenonT(60), <1>3, <1>4 DEF Inductive, OriginHasDescriptor
  <2> QED
    BY ZenonT(60), <2>2, <2>3, <2>4
<1>7. IsEstablished(s, q) /\ sockets[s][q].conn = c
  BY ZenonT(60), <1>4, <1>6 DEF Orderly, Descriptors
<1>8. PICK acknowledged : acknowledged = Acknowledged(s, h)
  OBVIOUS
<1>9. PICK x : x = [type |-> "CONN_STATE", client |-> c, src |-> s, dst |-> acknowledged[s][c].dest,
                    cb |-> ControlBlockState(established[s][c]), app |-> appState[s][c] = "Registered"]
  BY Zenon
<1>10. /\ MigrateOut(s, q, c)
       /\ active' = [acknowledged EXCEPT ![s][c].stage = "CONN_STATE"]
       /\ TakeAndSend(s, 1, x)
       /\ UNCHANGED panicked
  BY ZenonT(120), <1>1, <1>2, <1>3, <1>4, <1>7, <1>8, <1>9
<1>11. /\ acknowledged[s][c].dest = h.src
       /\ active'[s][c].stage = "CONN_STATE" /\ active'[s][c] # None
       /\ active'[s][c].buffer = active[s][c].buffer
       /\ \A t \in Server, d \in Client : ~(t = s /\ d = c) => active'[t][d] = active[t][d]
  <2> DEFINE y == [active[s][c] EXCEPT !.dest = h.src]
             z == [y EXCEPT !.stage = "CONN_STATE"]
  <2>1. active \in Migrations
    BY ActiveType DEF Migrations
  <2>2. active[s][c] \in ActiveMigration
    BY <1>4, <2>1 DEF Migrations
  <2>3. y \in ActiveMigration /\ y.dest = h.src /\ y.buffer = active[s][c].buffer
    BY <1>5, <2>2 DEF ActiveMigration
  <2>4. z \in ActiveMigration /\ z.stage = "CONN_STATE" /\ z.buffer = y.buffer
    <3> HIDE DEF y
    <3> QED
      BY <2>3 DEF ActiveMigration, Stage
  <2>5. z # None
    BY <2>4, NoneAssumption
  <2>6. acknowledged = [active EXCEPT ![s][c] = y]
    BY ZenonT(60), <1>2, <1>8 DEF Acknowledged
  <2> HIDE DEF y
  <2>7. acknowledged \in Migrations /\ acknowledged[s][c] = y
        /\ \A t \in Server, d \in Client : ~(t = s /\ d = c) => acknowledged[t][d] = active[t][d]
    BY ZenonT(60), <1>4, <2>1, <2>3, <2>6 DEF Migrations
  <2>8. active' = [acknowledged EXCEPT ![s][c] = z]
    BY <1>10, <2>7
  <2> HIDE DEF z
  <2>9. active'[s][c] = z
        /\ \A t \in Server, d \in Client : ~(t = s /\ d = c) => active'[t][d] = acknowledged[t][d]
    BY ZenonT(60), <1>4, <2>4, <2>7, <2>8 DEF Migrations
  <2> QED
    BY ZenonT(60), <2>3, <2>4, <2>5, <2>7, <2>9
<1>12. /\ established' = [established EXCEPT ![s][c] = None] /\ qds' = [qds EXCEPT ![s][c] = None]
       /\ sockets' = [sockets EXCEPT ![s][q].state = "MigratedOut"]
  BY <1>10 DEF MigrateOut
<1>13. ChangeAt(s, c)
  <2>1. \A t \in Server, d \in Client : ~(t = s /\ d = c) =>
           established'[t][d] = established[t][d] /\ qds'[t][d] = qds[t][d]
    BY ZenonT(60), <1>4, <1>12, EstablishedType, QdsType
  <2> QED
    BY ZenonT(60), <1>4, <1>11, <2>1 DEF ChangeAt
<1>14. StageAt(s, c)' = "CONN_STATE" /\ active'[s][c].buffer = <<>>
  <2>1. active[s][c].buffer = <<>>
    BY <1>4 DEF Orderly, OriginsBufferNothing, StageAt
  <2> QED
    BY ZenonT(60), <1>11, <2>1 DEF StageAt
<1>15. x \in Packet /\ IsStateOf(x, c) /\ x.src = s /\ x.dst = h.src /\ x.client = c
  <2>1. ControlBlockState(established[s][c]) \in ControlBlock
    BY <1>6 DEF ControlBlockState, ControlBlock
  <2>2. (appState[s][c] = "Registered") \in BOOLEAN
    OBVIOUS
  <2> QED
    BY ZenonT(60), <1>4, <1>5, <1>9, <1>11, <2>1, <2>2 DEF Packet, IsStateOf
<1>16. net' = Added(Removed(net, Down(s), 1), Up(s), x) /\ NetTouches(c)
  <2>1. h.client = c /\ x.client = c
    BY ZenonT(60), <1>2, <1>15
  <2> QED
    BY ZenonT(60), <1>4, <1>10, <1>15, <2>1, Answered
<1>17. Protocol(net', owner[c], c, View(c)')
  <2>1. net \in Nets /\ owner[c] \in Server /\ Protocol(net, owner[c], c, View(c))
    BY ZenonT(60), <1>4, AgreedBefore
  <2>2. /\ View(c) \in Views /\ View(c)' \in Views /\ Single(net, c, View(c))
        /\ SameBut(View(c), View(c)', s) /\ View(c)'.stage[s] = "CONN_STATE"
    BY ZenonT(60), <1>4, <1>13, <1>14, ViewAfter
  <2> QED
    BY ZenonT(60), <1>4, <1>5, <1>15, <1>16, <2>1, <2>2, AckTaken
<1>18. Agreed(c)' /\ OnlyUsersPanic'
  BY ZenonT(60), <1>4, <1>10, <1>17 DEF Agreed, Orderly, OnlyUsersPanic
<1>19. ASSUME NEW d \in Client
       PROVE  Descriptors(d)'
  <2> SUFFICES ASSUME NEW t \in Server, established'[t][d] # None
               PROVE  IsEstablished(t, qds[t][d])' /\ sockets'[t][qds'[t][d]].conn = d
    BY DEF Descriptors
  <2>1. ~(t = s /\ d = c)
    <3>1. established'[s][c] = None
      BY ZenonT(60), <1>4, <1>12, EstablishedType
    <3> QED
      BY ZenonT(60), <3>1
  <2>2. established[t][d] # None /\ qds'[t][d] = qds[t][d]
    BY ZenonT(60), <1>13, <2>1 DEF ChangeAt
  <2>3. IsEstablished(t, qds[t][d]) /\ sockets[t][qds[t][d]].conn = d
    BY ZenonT(60), <2>2 DEF Orderly, Descriptors
  <2>4. qds[t][d] \in Qd
    <3>1. qds[t][d] # None
      BY ZenonT(60), <2>2 DEF Inductive, TablesAgree
    <3> QED
      BY ZenonT(60), <3>1, QdsType
  <2>5. ~(t = s /\ qds[t][d] = q)
    BY ZenonT(60), <1>7, <2>1, <2>3
  <2>6. q \in Qd /\ sockets[s][q] \in Socket
    BY ZenonT(60), <1>6, <1>7, EstablishedFacts
  <2>7. \A u \in Server, p \in Qd : ~(u = s /\ p = q) => sockets'[u][p] = sockets[u][p]
    <3>1. sockets' = [sockets EXCEPT ![s][q].state = "MigratedOut"]
      BY <1>12
    <3> QED
      BY ZenonT(120), <2>6, <3>1, SocketUpdate
  <2>8. sockets'[t][qds[t][d]] = sockets[t][qds[t][d]]
    BY ZenonT(60), <2>4, <2>5, <2>7
  <2> QED
    BY ZenonT(60), <2>2, <2>3, <2>8 DEF IsEstablished
<1> QED
  BY ZenonT(60), <1>4, <1>13, <1>14, <1>16, <1>18, <1>19, StepAt

(* CONN_STATE at the target, where nothing waits for accept. *)
LEMMA OrderlyReceiveConnState ==
    ASSUME Inductive, Inductive', Orderly, Reliable, NEW s \in Server, ReceiveConnState(s)
    PROVE  Orderly'
<1>1. PICK i \in 1 .. Len(net[Down(s)]) :
        LET m == net[Down(s)][i]
            c == m.client
        IN
        /\ IsNext(s, i, "CONN_STATE")
        /\ active[s][c] # None
        /\ active[s][c].stage = "PREPARE_MIG_ACK"
        /\ MigrateIn(s, c, m.cb)
        /\ active' = [active EXCEPT ![s][c].stage = "CONN_STATE_ACK"]
        /\ appState' = [appState EXCEPT ![s][c] = IF m.app THEN "MigratedIn" ELSE @]
        /\ TakeAndSend(s, i, [type |-> "CONN_STATE_ACK", client |-> c, src |-> s, dst |-> m.src])
        /\ AssertOrPanic(s, ready[s][c] = None, "already in accept queue")
        /\ UNCHANGED <<owner, established, sockets, qds, files, userVars, peerVars, used>>
  BY ZenonT(60) DEF ReceiveConnState
<1>2. PICK h, c : h = net[Down(s)][i] /\ c = h.client
  OBVIOUS
<1> DEFINE x == [type |-> "CONN_STATE_ACK", client |-> c, src |-> s, dst |-> h.src]
<1>3. /\ i = 1 /\ IsHead(net, Down(s), h) /\ h \in Packet /\ c \in Client /\ h.type = "CONN_STATE"
      /\ active[s][c] # None
      /\ MigrateIn(s, c, h.cb)
      /\ active' = [active EXCEPT ![s][c].stage = "CONN_STATE_ACK"]
      /\ TakeAndSend(s, 1, x)
      /\ AssertOrPanic(s, ready[s][c] = None, "already in accept queue")
      /\ UNCHANGED <<owner, established, sockets, qds>>
  BY ZenonT(60), <1>1, <1>2, Received
<1>4. IsStateOf(h, c) /\ h.src \in Server /\ h.cb \in ControlBlock
  BY ZenonT(60), <1>2, <1>3 DEF IsStateOf, Packet
<1>5. x \in Packet /\ IsRelease(x, c) /\ x.src = s /\ x.dst = h.src /\ x.client = c
  BY ZenonT(60), <1>3, <1>4 DEF Packet, IsRelease
<1> HIDE DEF x
<1>6. ready[s][c] = None /\ UNCHANGED panicked
  <2>1. Down(s) \in Link /\ At(net, Down(s), h)
    BY ZenonT(60), LinkFacts, <1>3 DEF IsHead, At
  <2>2. View(c).held = {}
    BY ZenonT(60), <1>3, <1>4, <2>1, ViewFacts DEF Single
  <2>3. ~Held(s, c)
    BY ZenonT(60), <1>3, <2>2, ViewFields
  <2>4. ready[s][c] = None
    BY <2>3 DEF Held
  <2> QED
    BY ZenonT(60), <1>3, <2>4 DEF AssertOrPanic
<1>7. /\ active'[s][c].stage = "CONN_STATE_ACK" /\ active'[s][c] # None
      /\ \A t \in Server, d \in Client : ~(t = s /\ d = c) => active'[t][d] = active[t][d]
  <2> DEFINE z == [active[s][c] EXCEPT !.stage = "CONN_STATE_ACK"]
  <2> c \in Client /\ active[s][c] # None
    BY ZenonT(60), <1>3
  <2>0. active \in Migrations
    BY ActiveType DEF Migrations
  <2>1. active[s][c] \in ActiveMigration
    BY <2>0 DEF Migrations
  <2>2. z \in ActiveMigration /\ z.stage = "CONN_STATE_ACK"
    BY <2>1 DEF ActiveMigration, Stage
  <2>3. z # None
    BY <2>2, NoneAssumption
  <2>4. active' = [active EXCEPT ![s][c] = z]
    BY ZenonT(60), <1>3
  <2> HIDE DEF z
  <2>5. active'[s][c] = z /\ \A t \in Server, d \in Client : ~(t = s /\ d = c) => active'[t][d] = active[t][d]
    BY ZenonT(60), <2>0, <2>2, <2>4 DEF Migrations
  <2> QED
    BY <2>2, <2>3, <2>5
<1>8. /\ ready'[s][c] # None
      /\ \A t \in Server, d \in Client : ~(t = s /\ d = c) => ready'[t][d] = ready[t][d]
  <2>1. ready \in [Server -> [Client -> ControlBlock \cup {None}]]
    BY ZenonT(60), ReadyType
  <2>2. ready' = [ready EXCEPT ![s][c] = h.cb]
    BY ZenonT(60), <1>3 DEF MigrateIn
  <2>3. ready'[s][c] = h.cb /\ \A t \in Server, d \in Client : ~(t = s /\ d = c) => ready'[t][d] = ready[t][d]
    BY ZenonT(60), <1>3, <2>1, <2>2
  <2> QED
    BY <1>4, <2>3, NoneAssumption
<1>9. ChangeAt(s, c) /\ StageAt(s, c)' = "CONN_STATE_ACK" /\ Held(s, c)'
  BY ZenonT(60), <1>3, <1>7, <1>8 DEF ChangeAt, StageAt, Held
<1>10. net' = Added(Removed(net, Down(s), 1), Up(s), x) /\ NetTouches(c)
  <2>1. h.client = c /\ x.client = c
    BY <1>2, <1>5
  <2> QED
    BY ZenonT(60), <1>3, <1>5, <2>1, Answered
<1>11. Protocol(net', owner[c], c, View(c)')
  <2>1. /\ net \in Nets /\ owner[c] \in Server /\ Protocol(net, owner[c], c, View(c))
        /\ View(c) \in Views /\ View(c)' \in Views /\ SameBut(View(c), View(c)', s)
    BY ZenonT(60), <1>3, <1>9, AgreedBefore, ViewAfter
  <2>2. View(c)'.stage[s] = "CONN_STATE_ACK" /\ s \in View(c)'.held /\ s \in View(c)'.waiting
    BY ZenonT(60), <1>3, <1>8, <1>9, ViewAfter
  <2>3. c \in Client /\ h \in Packet /\ IsHead(net, Down(s), h)
    BY ZenonT(60), <1>3
  <2> QED
    BY ZenonT(60), <1>4, <1>5, <1>10, <2>1, <2>2, <2>3, StateTaken
<1>12. Agreed(c)' /\ OnlyUsersPanic'
  BY ZenonT(60), <1>3, <1>6, <1>11 DEF Agreed, Orderly, OnlyUsersPanic
<1>13. \A d \in Client : Descriptors(d)'
  BY ZenonT(60), <1>3, SameDescriptors
<1>14. owner' = owner /\ StageAt(s, c)' \notin {"PREPARE_MIG", "CONN_STATE"}
  BY ZenonT(60), <1>3, <1>9
<1> QED
  BY ZenonT(60), <1>3, <1>9, <1>10, <1>12, <1>13, <1>14, StepAt

(* CONN_STATE_ACK at the origin. *)
LEMMA OrderlyReceiveConnStateAck ==
    ASSUME Inductive, Inductive', Orderly, Reliable, NEW s \in Server, ReceiveConnStateAck(s)
    PROVE  Orderly'
<1>1. PICK i \in 1 .. Len(net[Down(s)]) :
        LET c == net[Down(s)][i].client IN
        /\ IsNext(s, i, "CONN_STATE_ACK")
        /\ active[s][c] # None
        /\ active[s][c].stage = "CONN_STATE"
        /\ Complete(s, c)
        /\ Take(s, i)
        /\ UNCHANGED <<owner, tcpVars, appState, userVars, panicked, peerVars, used>>
  BY ZenonT(60) DEF ReceiveConnStateAck
<1>2. PICK h, c : h = net[Down(s)][i] /\ c = h.client
  OBVIOUS
<1>3. /\ i = 1 /\ IsHead(net, Down(s), h) /\ h \in Packet /\ c \in Client /\ h.type = "CONN_STATE_ACK"
      /\ active' = [active EXCEPT ![s][c] = None]
      /\ Take(s, 1)
      /\ UNCHANGED <<owner, ready, established, sockets, qds, panicked>>
  BY ZenonT(60), <1>1, <1>2, Received DEF tcpVars, Complete
<1>4. IsRelease(h, c)
  BY ZenonT(60), <1>2, <1>3 DEF IsRelease
<1>5. ChangeAt(s, c) /\ StageAt(s, c)' = "None"
  <2>1. active'[s][c] = None /\ \A t \in Server, d \in Client : ~(t = s /\ d = c) => active'[t][d] = active[t][d]
    BY <1>3, ActiveType
  <2> QED
    BY <1>3, <2>1 DEF ChangeAt, StageAt
<1>6. net' = Removed(net, Down(s), 1) /\ Down(s) \in Link /\ NetTouches(c)
  <2>1. net' = Removed(net, Down(s), 1) /\ Down(s) \in Link
    BY ZenonT(60), <1>3, LinkFacts DEF Take, Removed
  <2> QED
    BY ZenonT(60), <1>2, <1>3, <2>1 DEF NetTouches
<1>7. View(c)'.held = View(c).held
  BY <1>3 DEF View, Held
<1>8. Protocol(net', owner[c], c, View(c)')
  BY ZenonT(60), <1>3, <1>4, <1>5, <1>6, <1>7, AgreedBefore, ViewAfter, ReleaseTaken
<1>9. Agreed(c)' /\ OnlyUsersPanic'
  BY ZenonT(60), <1>3, <1>8 DEF Agreed, Orderly, OnlyUsersPanic
<1> QED
  BY ZenonT(60), <1>3, <1>5, <1>6, <1>9, SameDescriptors, StepAt

(* Every other message is the one the receiver waits for. *)
LEMMA ExpectedArrives ==
    ASSUME Inductive, Orderly, NEW s \in Server, NEW h \in Packet, IsHead(net, Down(s), h),
           h.type \in {"PREPARE_MIG_ACK", "CONN_STATE", "CONN_STATE_ACK"}
    PROVE  active[s][h.client] # None /\ h.type = Expected[active[s][h.client].stage]
<1>1. PICK c : c = h.client
  OBVIOUS
<1>2. c \in Client
  BY <1>1 DEF Packet
<1>3. /\ net \in Nets /\ owner[c] \in Server /\ Protocol(net, owner[c], c, View(c))
      /\ View(c) \in Views /\ Single(net, c, View(c)) /\ View(c).stage[s] = StageAt(s, c)
  BY ZenonT(60), <1>2, AgreedBefore, ViewFacts, ViewFields
<1>4. CASE h.type = "PREPARE_MIG_ACK"
  <2>1. IsAck(h, c)
    BY ZenonT(60), <1>1, <1>4 DEF IsAck
  <2>2. s \in View(c).origins
    BY ZenonT(60), <1>2, <1>3, <2>1, AckArrives
  <2>3. StageAt(s, c) = "PREPARE_MIG"
    BY ZenonT(60), <1>2, <2>2, ViewFields DEF IsOrigin
  <2> QED
    BY <1>1, <1>4, <2>3 DEF StageAt, Expected
<1>5. CASE h.type = "CONN_STATE"
  <2>1. IsStateOf(h, c)
    BY ZenonT(60), <1>1, <1>5 DEF IsStateOf
  <2>2. StageAt(s, c) = "PREPARE_MIG_ACK"
    BY SMTT(120), <1>2, <1>3, <2>1, StateArrives
  <2> QED
    BY <1>1, <1>5, <2>2 DEF StageAt, Expected
<1>6. CASE h.type = "CONN_STATE_ACK"
  <2>1. IsRelease(h, c)
    BY ZenonT(60), <1>1, <1>6 DEF IsRelease
  <2>2. StageAt(s, c) = "CONN_STATE"
    BY SMTT(120), <1>2, <1>3, <2>1, ReleaseArrives
  <2> QED
    BY <1>1, <1>6, <2>2 DEF StageAt, Expected
<1> QED
  BY ZenonT(60), <1>4, <1>5, <1>6

LEMMA NothingUnexpected ==
    ASSUME Inductive, Orderly, Reliable, NEW s \in Server, ReceiveUnexpected(s) \/ ReceiveUnknown(s)
    PROVE  FALSE
<1>1. PICK i \in 1 .. Len(net[Down(s)]) :
        LET m == net[Down(s)][i] IN
        /\ m.type \in {"PREPARE_MIG_ACK", "CONN_STATE", "CONN_STATE_ACK"}
        /\ IsNext(s, i, m.type)
        /\ active[s][m.client] # None => m.type # Expected[active[s][m.client].stage]
  BY ZenonT(60) DEF ReceiveUnexpected, ReceiveUnknown
<1>2. PICK h : h = net[Down(s)][i]
  OBVIOUS
<1>3. IsHead(net, Down(s), h) /\ h \in Packet
  BY ZenonT(60), <1>1, <1>2, Received
<1> QED
  BY ZenonT(60), <1>1, <1>2, <1>3, ExpectedArrives

(* The switch forwards a packet of c. *)
LEMMA OrderlySwitchForward ==
    ASSUME Inductive, Inductive', Orderly, Reliable, NEW s \in Server, SwitchForward(s)
    PROVE  Orderly'
<1>1. PICK i \in Arrivals(Up(s)) :
        \E t \in IF net[Up(s)][i].type = "PREPARE_MIG" THEN Server ELSE {net[Up(s)][i].dst} :
            /\ net' = [net EXCEPT ![Up(s)] = Without(@, i), ![Down(t)] = Append(@, net[Up(s)][i])]
            /\ owner' = OwnerAfter(net[Up(s)][i], t)
            /\ UNCHANGED <<tcpVars, migVars, userVars, panicked, peerVars, used>>
  BY ZenonT(60) DEF SwitchForward
<1>2. PICK h, c : h = net[Up(s)][i] /\ c = h.client
  OBVIOUS
<1>3. PICK t \in IF h.type = "PREPARE_MIG" THEN Server ELSE {h.dst} :
            /\ net' = [net EXCEPT ![Up(s)] = Without(@, i), ![Down(t)] = Append(@, h)]
            /\ owner' = OwnerAfter(h, t)
            /\ UNCHANGED <<tcpVars, migVars, panicked>>
  BY ZenonT(60), <1>1, <1>2
<1>4. i = 1 /\ IsHead(net, Up(s), h) /\ h \in Packet /\ c \in Client /\ Up(s) \in Link
  <2>1. Up(s) \in Link
    BY LinkFacts
  <2> QED
    BY ZenonT(60), <1>2, <2>1, Arrival
<1>5. h.type # "SEGMENT"
  <2>1. 1 \in 1 .. Len(net[Up(s)]) /\ h = net[Up(s)][1]
    BY <1>4 DEF IsHead
  <2> QED
    BY <2>1 DEF Inductive, NoSegmentGoesUp
<1>6. t \in Server /\ (~IsPrepare(h, c) => t = h.dst) /\ (IsToken(h, c) \/ IsRelease(h, c))
  BY ZenonT(60), <1>2, <1>3, <1>4, <1>5 DEF Packet, IsPrepare, IsToken, IsRelease
<1>7. net' = Added(Removed(net, Up(s), 1), Down(t), h) /\ Down(t) \in Link
  <2>1. Down(t) \in Link /\ Up(s) # Down(t)
    BY <1>6, LinkFacts
  <2> QED
    BY ZenonT(60), <1>3, <1>4, <2>1, NetType DEF Added, Removed
<1>8. owner'[c] = (IF IsAck(h, c) THEN h.src ELSE owner[c]) /\ \A d \in Client : d # c => owner'[d] = owner[d]
  BY ZenonT(60), <1>2, <1>3, <1>4, OwnerType DEF OwnerAfter, IsAck
<1>9. UNCHANGED <<active, ready, established, sockets, qds, panicked>>
  BY ZenonT(60), <1>3 DEF tcpVars, migVars
<1>10. ChangeAt(s, c) /\ View(c)' = View(c)
  BY <1>9 DEF ChangeAt, View, StageAt, Held, IsOrigin
<1>11. Protocol(net', owner'[c], c, View(c))
  <2>1. /\ net \in Nets /\ owner[c] \in Server /\ Protocol(net, owner[c], c, View(c))
        /\ View(c) \in Views
    BY ZenonT(60), <1>4, AgreedBefore, ViewFacts
  <2>2. CASE IsToken(h, c)
    BY ZenonT(60), <1>4, <1>6, <1>7, <1>8, <2>1, <2>2, TokenForwarded
  <2>3. CASE IsRelease(h, c)
    <3>1. ~IsPrepare(h, c) /\ ~IsAck(h, c)
      BY <2>3 DEF IsRelease, IsPrepare, IsAck
    <3> QED
      BY ZenonT(60), <1>4, <1>6, <1>7, <1>8, <2>1, <2>3, <3>1, ReleaseForwarded
  <2> QED
    BY ZenonT(60), <1>6, <2>2, <2>3
<1>12. Agreed(c)' /\ OnlyUsersPanic'
  BY ZenonT(60), <1>9, <1>10, <1>11 DEF Agreed, Orderly, OnlyUsersPanic
<1>13. NetTouches(c)
  BY ZenonT(60), <1>2, <1>4, <1>7 DEF NetTouches
<1>14. StageAt(s, c)' \in {"PREPARE_MIG", "CONN_STATE"} => active'[s][c].buffer = <<>>
  BY ZenonT(60), <1>4, <1>9 DEF Orderly, OriginsBufferNothing, StageAt
<1>15. \A d \in Client : Descriptors(d)'
  BY <1>9, SameDescriptors
<1> QED
  BY ZenonT(60), <1>4, <1>8, <1>10, <1>12, <1>13, <1>14, <1>15, StepAt

(* A server accepts a connection that has migrated in, or its first one. *)
LEMMA OrderlyAccept ==
    ASSUME Inductive, Inductive', Orderly, NEW s \in Server, NEW c \in Client, NEW q \in Qd, Accept(s, c, q)
    PROVE  Orderly'
<1>1. /\ ready[s][c] # None /\ q \notin files[s]
      /\ ready' = [ready EXCEPT ![s][c] = None]
      /\ active' = [active EXCEPT ![s][c] = None]
      /\ qds' = [qds EXCEPT ![s][c] = q]
      /\ sockets' = [sockets EXCEPT ![s][q] = [state |-> "Established", conn |-> c]]
      /\ AssertOrPanic(s, qds[s][c] = None, "duplicate entry in qds table")
      /\ owner' = owner /\ net' = net
  BY ZenonT(60) DEF Accept
<1>2. \A t \in Server, d \in Client : ~(t = s /\ d = c) => established'[t][d] = established[t][d]
  <2>1. PICK x : established' = [established EXCEPT ![s][c] = x]
    BY ZenonT(60) DEF Accept
  <2> QED
    BY ZenonT(60), <2>1, EstablishedType
<1>3. ready'[s][c] = None /\ \A t \in Server, d \in Client : ~(t = s /\ d = c) => ready'[t][d] = ready[t][d]
  <2>1. ready \in [Server -> [Client -> ControlBlock \cup {None}]]
    BY ReadyType
  <2>2. ready' = [ready EXCEPT ![s][c] = None]
    BY ZenonT(60), <1>1
  <2> QED
    BY <2>1, <2>2
<1>4. active'[s][c] = None /\ \A t \in Server, d \in Client : ~(t = s /\ d = c) => active'[t][d] = active[t][d]
  <2>1. active \in [Server -> [Client -> ActiveMigration \cup {None}]]
    BY ActiveType
  <2>2. active' = [active EXCEPT ![s][c] = None]
    BY ZenonT(60), <1>1
  <2> QED
    BY <2>1, <2>2
<1>5. qds'[s][c] = q /\ \A t \in Server, d \in Client : ~(t = s /\ d = c) => qds'[t][d] = qds[t][d]
  <2>1. qds \in [Server -> [Client -> Qd \cup {None}]]
    BY QdsType
  <2>2. qds' = [qds EXCEPT ![s][c] = q]
    BY ZenonT(60), <1>1
  <2> QED
    BY ZenonT(60), <2>1, <2>2
<1>6. ChangeAt(s, c) /\ StageAt(s, c)' = "None"
  BY ZenonT(60), <1>2, <1>3, <1>4, <1>5 DEF ChangeAt, StageAt
<1>7. Held(s, c)'
  <2>1. qds'[s][c] # None
    BY ZenonT(60), <1>5, ConstantAssumption
  <2> QED
    BY ZenonT(60), <2>1 DEF Held, Inductive, TablesAgree
<1>8. UNCHANGED panicked
  <2>1. established[s][c] = None
    BY ZenonT(60), <1>1 DEF Inductive, SingleOwner
  <2>2. qds[s][c] = None
    BY <2>1 DEF Inductive, TablesAgree
  <2> QED
    BY ZenonT(60), <1>1, <2>2 DEF AssertOrPanic
<1>9. Protocol(net', owner[c], c, View(c)')
  <2>1. /\ net \in Nets /\ owner[c] \in Server /\ Protocol(net, owner[c], c, View(c))
        /\ View(c) \in Views /\ View(c)' \in Views /\ SameBut(View(c), View(c)', s)
        /\ Single(net, c, View(c))
    BY ZenonT(60), <1>6, AgreedBefore, ViewAfter
  <2>2. View(c)'.stage[s] = "None" /\ s \in View(c)'.held /\ s \in View(c).waiting
    <3>1. ready[s][c] # None
      BY ZenonT(60), <1>1
    <3> QED
      BY ZenonT(60), <1>6, <1>7, <3>1, ViewAfter
  <2> QED
    BY ZenonT(60), <1>1, <2>1, <2>2, AcceptedProtocol
<1>10. Agreed(c)' /\ OnlyUsersPanic' /\ NetTouches(c)
  BY ZenonT(60), <1>1, <1>8, <1>9 DEF Agreed, Orderly, OnlyUsersPanic, NetTouches
<1>11. /\ sockets'[s][q] = [state |-> "Established", conn |-> c]
       /\ \A t \in Server, p \in Qd : ~(t = s /\ p = q) => sockets'[t][p] = sockets[t][p]
  <2>1. sockets \in [Server -> [Qd -> Socket \cup {None}]]
    BY SocketsType
  <2>2. PICK x : x = [state |-> "Established", conn |-> c]
    BY ZenonT(60)
  <2>3. sockets' = [sockets EXCEPT ![s][q] = x]
    BY ZenonT(60), <1>1, <2>2
  <2>4. sockets'[s][q] = x /\ \A t \in Server, p \in Qd : ~(t = s /\ p = q) => sockets'[t][p] = sockets[t][p]
    BY <2>1, <2>3
  <2> QED
    BY ZenonT(60), <2>2, <2>4
<1>12. ASSUME NEW d \in Client
       PROVE  Descriptors(d)'
  <2> SUFFICES ASSUME NEW t \in Server, established'[t][d] # None
               PROVE  IsEstablished(t, qds[t][d])' /\ sockets'[t][qds'[t][d]].conn = d
    BY ZenonT(60) DEF Descriptors
  <2>1. CASE t = s /\ d = c
    <3>1. [state |-> "Established", conn |-> c] \in Socket
      BY DEF Socket
    <3>2. PICK x : /\ x = [state |-> "Established", conn |-> c]
                   /\ x # None /\ x.state = "Established" /\ x.conn = c
      BY <3>1, NoneAssumption
    <3>3. sockets'[s][q] = x /\ qds'[s][c] = q
      BY ZenonT(60), <1>5, <1>11, <3>2
    <3>4. IsEstablished(s, q)'
      BY ZenonT(60), <3>2, <3>3 DEF IsEstablished
    <3> QED
      BY ZenonT(60), <2>1, <3>2, <3>3, <3>4
  <2>2. CASE ~(t = s /\ d = c)
    <3>1. established[t][d] # None /\ qds'[t][d] = qds[t][d]
      BY ZenonT(60), <1>2, <1>5, <2>2
    <3>2. IsEstablished(t, qds[t][d]) /\ sockets[t][qds[t][d]].conn = d
      BY ZenonT(60), <3>1 DEF Orderly, Descriptors
    <3>3. qds[t][d] \in Qd
      <4>1. qds[t][d] # None
        BY ZenonT(60), <3>1 DEF Inductive, TablesAgree
      <4> QED
        BY ZenonT(60), <4>1, QdsType
    <3>4. ~(t = s /\ qds[t][d] = q)
      <4>1. qds[t][d] \in files[t]
        BY ZenonT(60), <3>2, <3>3 DEF Inductive, TablesAgree
      <4> QED
        BY ZenonT(60), <1>1, <4>1
    <3>5. sockets'[t][qds[t][d]] = sockets[t][qds[t][d]]
      BY ZenonT(60), <1>11, <3>3, <3>4
    <3> QED
      BY ZenonT(60), <3>1, <3>2, <3>5 DEF IsEstablished
  <2> QED
    BY ZenonT(60), <2>1, <2>2
<1> QED
  BY ZenonT(60), <1>1, <1>4, <1>6, <1>10, <1>12, StepAt DEF StageAt

(* A step that leaves who holds what alone. *)
LEMMA SameViews ==
    ASSUME Inductive, Inductive', NEW d \in Client, UNCHANGED <<ready, qds>>,
           \A t \in Server : StageAt(t, d)' = StageAt(t, d)
                             /\ (active[t][d] # None => active'[t][d].qd = active[t][d].qd)
    PROVE  View(d)' = View(d)
<1>1. \A t \in Server : established'[t][d] # None <=> established[t][d] # None
  BY ZenonT(60) DEF Inductive, TablesAgree
<1>2. \A t \in Server : /\ Held(t, d)' <=> Held(t, d)
                        /\ IsOrigin(t, d)' <=> IsOrigin(t, d)
                        /\ ready'[t][d] # None <=> ready[t][d] # None
  BY ZenonT(60), <1>1 DEF Held, IsOrigin, StageAt
<1>3. [t \in Server |-> StageAt(t, d)'] = [t \in Server |-> StageAt(t, d)]
  OBVIOUS
<1>4. {t \in Server : Held(t, d)'} = {t \in Server : Held(t, d)}
  BY ZenonT(60), <1>2
<1>5. {t \in Server : IsOrigin(t, d)'} = {t \in Server : IsOrigin(t, d)}
  BY ZenonT(60), <1>2
<1>6. {t \in Server : ready'[t][d] # None} = {t \in Server : ready[t][d] # None}
  BY <1>2
<1> QED
  BY ZenonT(60), <1>3, <1>4, <1>5, <1>6 DEF View

(* A step on data. *)
LEMMA OrderlyData ==
    ASSUME Inductive, Inductive', Orderly, UNCHANGED <<owner, active, ready, qds, sockets, panicked>>,
           \A d \in Client : Quiet(net, net', owner[d], d)
    PROVE  Orderly'
<1>1. \A d \in Client : View(d)' = View(d)
  BY ZenonT(60), SameViews DEF StageAt
<1>2. \A t \in Server, d \in Client : established'[t][d] # None => established[t][d] # None
  BY ZenonT(60) DEF Inductive, TablesAgree
<1>3. \A d \in Client : Descriptors(d)'
  BY <1>2, DescriptorsFrame
<1>4. \A d \in Client : OriginsBufferNothing(d)'
  BY ZenonT(60) DEF Orderly, OriginsBufferNothing, StageAt
<1>5. OnlyUsersPanic'
  BY ZenonT(60) DEF Orderly, OnlyUsersPanic
<1> QED
  BY ZenonT(60), <1>1, <1>3, <1>4, <1>5, StepFrame

(* Nothing is received or sent. *)
LEMMA QuietStill ==
    ASSUME Inductive, Orderly, net' = net
    PROVE  \A d \in Client : Quiet(net, net', owner[d], d)
BY ZenonT(60), AgreedBefore DEF Quiet, SameControl, Protocol

(* A client sends a segment to the owner. *)
LEMMA QuietToOwner ==
    ASSUME Inductive, Orderly, NEW c \in Client, NEW n \in 1 .. MaxSeg, ToOwner(c, n)
    PROVE  \A d \in Client : Quiet(net, net', owner[d], d)
<1> DEFINE x == [type |-> "SEGMENT", client |-> c, seq |-> n]
<1>1. x \in Packet /\ x.type = "SEGMENT" /\ x.client = c
  BY DEF Packet
<1>2. net' = Added(net, Down(owner[c]), x)
  BY ZenonT(60) DEF ToOwner, Added
<1> HIDE DEF x
<1>3. ASSUME NEW d \in Client
      PROVE  Quiet(net, net', owner[d], d)
  <2>1. net \in Nets /\ owner[c] \in Server /\ owner[d] \in Server /\ InOrder(net, owner[d], d)
    BY ZenonT(60), AgreedBefore DEF Protocol
  <2>2. Down(owner[c]) \in Link
    BY ZenonT(60), <2>1, LinkFacts
  <2>3. ~IsToken(x, d) /\ ~IsRelease(x, d) /\ (IsSegment(x, d) => Down(owner[c]) = Down(owner[d]))
    BY <1>1 DEF IsToken, IsRelease, IsSegment
  <2> QED
    BY ZenonT(60), <1>1, <1>2, <2>1, <2>2, <2>3, QuietSent
<1> QED
  BY ZenonT(60), <1>3

LEMMA OrderlyClient ==
    ASSUME Inductive, Inductive', Orderly, NEW c \in Client, ClientSend(c) \/ ClientRetransmit(c)
    PROVE  Orderly'
<1>1. UNCHANGED <<owner, active, ready, qds, sockets, panicked>>
  BY ZenonT(60) DEF ClientSend, ClientRetransmit, tcpVars, migVars
<1>2. sent[c] \in 0 .. MaxSeg /\ acked[c] \in Nat /\ MaxSeg \in Nat
  BY ConstantAssumption, SentType, AckedType
<1>3. CASE ClientSend(c)
  <2>1. sent[c] + 1 \in 1 .. MaxSeg /\ ToOwner(c, sent[c] + 1)
    BY <1>2, <1>3 DEF ClientSend
  <2> QED
    BY ZenonT(60), <1>1, <2>1, QuietToOwner, OrderlyData
<1>4. CASE ClientRetransmit(c)
  <2>1. PICK n \in (acked[c] + 1) .. sent[c] : ToOwner(c, n)
    BY ZenonT(60), <1>4 DEF ClientRetransmit
  <2>2. n \in 1 .. MaxSeg
    BY <1>2
  <2> QED
    BY ZenonT(60), <1>1, <2>1, <2>2, QuietToOwner, OrderlyData
<1> QED
  BY <1>3, <1>4

(* A server takes a segment. *)
LEMMA QuietSegment ==
    ASSUME Inductive, Orderly, Reliable, NEW s \in Server, NEW i \in 1 .. Len(net[Down(s)]),
           IsNext(s, i, "SEGMENT"), Take(s, i)
    PROVE  \A d \in Client : Quiet(net, net', owner[d], d)
<1>1. PICK h : h = net[Down(s)][i]
  OBVIOUS
<1>2. i = 1 /\ IsHead(net, Down(s), h) /\ h \in Packet /\ h.type = "SEGMENT"
  BY ZenonT(60), <1>1, Received
<1>3. Down(s) \in Link
  BY LinkFacts
<1>4. net' = Removed(net, Down(s), 1)
  BY ZenonT(60), <1>2 DEF Take, Removed
<1>5. ASSUME NEW d \in Client
      PROVE  Quiet(net, net', owner[d], d)
  <2>1. net \in Nets /\ InOrder(net, owner[d], d)
    BY ZenonT(60), AgreedBefore DEF Protocol
  <2>2. ~IsToken(h, d) /\ ~IsRelease(h, d)
    BY <1>2 DEF IsToken, IsRelease
  <2> QED
    BY ZenonT(60), <1>2, <1>3, <1>4, <2>1, <2>2, QuietTaken
<1> QED
  BY <1>5

LEMMA OrderlyReceiveSegment ==
    ASSUME Inductive, Inductive', Orderly, Reliable, NEW s \in Server, ReceiveSegment(s) \/ DropSegment(s)
    PROVE  Orderly'
<1>1. PICK i \in 1 .. Len(net[Down(s)]) : IsNext(s, i, "SEGMENT") /\ Take(s, i)
  BY ZenonT(60) DEF ReceiveSegment, DropSegment
<1>2. UNCHANGED <<owner, active, ready, qds, sockets, panicked>>
  BY ZenonT(60) DEF ReceiveSegment, DropSegment, tcpVars, migVars
<1> QED
  BY ZenonT(60), <1>1, <1>2, QuietSegment, OrderlyData

(* A segment arrives where the connection is, or will be. *)
LEMMA SegmentArrives ==
    ASSUME NEW n \in Nets, NEW o \in Server, NEW c \in Client, NEW v \in Views,
           Protocol(n, o, c, v),
           NEW s \in Server, NEW h \in Packet, IsHead(n, Down(s), h), IsSegment(h, c)
    PROVE  s \in v.origins \/ v.stage[s] = "PREPARE_MIG_ACK" \/ (o = s /\ AtRest(o, v))
<1>1. Down(s) \in Link
  BY LinkFacts
<1>2. o = s \/ \E m \in Packet : At(n, Down(s), m) /\ IsAck(m, c)
  <2>1. 1 \in 1 .. Len(n[Down(s)]) /\ h = n[Down(s)][1] /\ SegmentsFollow(n, o, c)
    BY ZenonT(60) DEF IsHead, Protocol, InOrder
  <2>2. o = s \/ \E j \in 1 .. Len(n[Down(s)]) : IsAck(n[Down(s)][j], c)
    BY ZenonT(60), <2>1 DEF SegmentsFollow
  <2>3. \A j \in 1 .. Len(n[Down(s)]) : n[Down(s)][j] \in Packet
    <3>1. n[Down(s)] \in Seq(Packet)
      BY ZenonT(60), <1>1 DEF Nets
    <3> QED
      BY <3>1
  <2> QED
    BY ZenonT(60), <2>2, <2>3 DEF At
<1>3. ASSUME NEW l \in Link, NEW m \in Packet, At(n, l, m), IsAck(m, c), l = Down(s) \/ o = s
      PROVE  s \in v.origins \/ v.stage[s] = "PREPARE_MIG_ACK"
  <2>1. AckFits(o, v, l, m)
    BY ZenonT(60), <1>3 DEF Protocol
  <2>2. m.dst \in Server /\ m.src \in Server
    BY ZenonT(60), <1>3, PacketKinds
  <2>3. CASE l = Up(m.src) /\ o = m.dst
    <3>1. o = s
      BY ZenonT(60), <1>3, <2>2, <2>3, LinkNames
    <3> QED
      BY ZenonT(60), <2>1, <2>3, <3>1 DEF AckFits
  <2>4. CASE l = Down(m.dst) /\ o = m.src
    <3>1. l = Down(s) => m.dst = s
      BY ZenonT(60), <2>2, <2>4, LinkNames
    <3> QED
      BY ZenonT(60), <1>3, <2>1, <2>4, <3>1 DEF AckFits
  <2> QED
    BY ZenonT(60), <2>1, <2>3, <2>4 DEF AckFits
<1>4. CASE o # s
  BY ZenonT(60), <1>1, <1>2, <1>3, <1>4
<1>5. CASE o = s /\ NoToken(n, c)
  BY ZenonT(60), <1>5 DEF Protocol
<1>6. CASE o = s /\ ~NoToken(n, c)
  <2>1. PICK l \in Link, m \in Packet : At(n, l, m) /\ IsToken(m, c)
    BY ZenonT(60), <1>6 DEF NoToken
  <2>2. CASE IsPrepare(m, c)
    BY ZenonT(60), <1>6, <2>1, <2>2 DEF Protocol, PrepareFits
  <2>3. CASE IsAck(m, c)
    BY ZenonT(60), <1>3, <1>6, <2>1, <2>3
  <2>4. CASE IsStateOf(m, c)
    BY ZenonT(60), <1>6, <2>1, <2>4 DEF Protocol, StateFits
  <2> QED
    BY ZenonT(60), <2>1, <2>2, <2>3, <2>4, PacketKinds
<1> QED
  BY ZenonT(60), <1>4, <1>5, <1>6

(* Only the target of a migration buffers. *)
LEMMA OrderlyBufferSegment ==
    ASSUME Inductive, Inductive', Orderly, Reliable, NEW s \in Server, BufferSegment(s)
    PROVE  Orderly'
<1>1. PICK i \in 1 .. Len(net[Down(s)]) :
        LET m == net[Down(s)][i]
            c == m.client
        IN
        /\ IsNext(s, i, "SEGMENT")
        /\ established[s][c] = None
        /\ active[s][c] # None
        /\ active' = [active EXCEPT ![s][c].buffer = Append(@, m.seq)]
        /\ Take(s, i)
        /\ UNCHANGED <<owner, tcpVars, appState, userVars, panicked, peerVars, used>>
  BY ZenonT(60) DEF BufferSegment
<1>2. PICK h, c : h = net[Down(s)][i] /\ c = h.client
  OBVIOUS
<1>3. /\ IsHead(net, Down(s), h) /\ h \in Packet /\ c \in Client /\ h.type = "SEGMENT"
      /\ established[s][c] = None /\ active[s][c] # None
      /\ active' = [active EXCEPT ![s][c].buffer = Append(@, h.seq)]
      /\ UNCHANGED <<owner, ready, established, sockets, qds, panicked>>
  BY ZenonT(60), <1>1, <1>2, Received DEF tcpVars
<1>4. IsSegment(h, c)
  BY ZenonT(60), <1>2, <1>3 DEF IsSegment
<1>5. StageAt(s, c) \notin {"PREPARE_MIG", "CONN_STATE"}
  <2>1. /\ net \in Nets /\ owner[c] \in Server /\ Protocol(net, owner[c], c, View(c))
        /\ View(c) \in Views /\ c \in Client /\ h \in Packet /\ IsHead(net, Down(s), h)
        /\ View(c).stage[s] = StageAt(s, c) /\ (s \in View(c).origins <=> IsOrigin(s, c))
    BY ZenonT(60), <1>3, AgreedBefore, ViewFacts, ViewFields
  <2>2. ~IsOrigin(s, c)
    BY <1>3 DEF IsOrigin
  <2>3. View(c).stage[s] = "PREPARE_MIG_ACK" \/ AtRest(s, View(c))
    BY ZenonT(60), <1>4, <2>1, <2>2, SegmentArrives
  <2> QED
    BY ZenonT(60), <2>1, <2>3 DEF AtRest
<1>6. /\ active'[s][c] # None /\ active'[s][c].stage = active[s][c].stage /\ active'[s][c].qd = active[s][c].qd
      /\ \A t \in Server, d \in Client : ~(t = s /\ d = c) => active'[t][d] = active[t][d]
  <2> DEFINE b == Append(active[s][c].buffer, h.seq)
             z == [active[s][c] EXCEPT !.buffer = b]
  <2> c \in Client /\ active[s][c] # None
    BY ZenonT(60), <1>3
  <2>1. active \in Migrations
    BY ActiveType DEF Migrations
  <2>2. active[s][c] \in ActiveMigration
    BY <2>1 DEF Migrations
  <2>3. h.seq \in 1 .. MaxSeg
    BY ZenonT(60), <1>3 DEF Packet
  <2>4. active[s][c].buffer \in Seq(1 .. MaxSeg)
    BY ZenonT(60), <2>2 DEF ActiveMigration
  <2>5. b \in Seq(1 .. MaxSeg)
    BY <2>3, <2>4
  <2>6. active' = [active EXCEPT ![s][c] = z]
    BY <1>3
  <2> HIDE DEF b
  <2>7. z \in ActiveMigration /\ z.stage = active[s][c].stage /\ z.qd = active[s][c].qd
    BY ZenonT(60), <2>2, <2>5 DEF ActiveMigration
  <2> HIDE DEF z
  <2>8. active'[s][c] = z /\ \A t \in Server, d \in Client : ~(t = s /\ d = c) => active'[t][d] = active[t][d]
    BY ZenonT(60), <2>1, <2>6, <2>7 DEF Migrations
  <2> QED
    BY ZenonT(60), <2>7, <2>8, NoneAssumption
<1>7. \A t \in Server, d \in Client : StageAt(t, d)' = StageAt(t, d)
                                      /\ (active[t][d] # None => active'[t][d].qd = active[t][d].qd)
  BY <1>3, <1>6 DEF StageAt
<1>8. \A d \in Client : View(d)' = View(d)
  BY ZenonT(60), <1>3, <1>7, SameViews
<1>9. ASSUME NEW d \in Client
      PROVE  OriginsBufferNothing(d)'
  <2> SUFFICES ASSUME NEW t \in Server, StageAt(t, d)' \in {"PREPARE_MIG", "CONN_STATE"}
               PROVE  active'[t][d].buffer = <<>>
    BY DEF OriginsBufferNothing
  <2>1. StageAt(t, d) \in {"PREPARE_MIG", "CONN_STATE"}
    BY ZenonT(60), <1>7
  <2>2. ~(t = s /\ d = c)
    BY <1>5, <2>1
  <2>3. active[t][d].buffer = <<>>
    BY ZenonT(60), <2>1 DEF Orderly, OriginsBufferNothing
  <2> QED
    BY ZenonT(60), <1>6, <2>2, <2>3
<1>10. \A d \in Client : Quiet(net, net', owner[d], d)
  BY ZenonT(60), <1>1, QuietSegment
<1>11. OnlyUsersPanic'
  BY ZenonT(60), <1>3 DEF Orderly, OnlyUsersPanic
<1> QED
  BY ZenonT(60), <1>3, <1>8, <1>9, <1>10, <1>11, SameDescriptors, StepFrame

(* No packet is lost and no connection is closed. *)
LEMMA NeverSpent ==
    ASSUME Inductive, NEW k \in BudgetKind, Budget[k] = 0, Spend(k)
    PROVE  FALSE
<1>1. used[k] \in Nat /\ used[k] < 0
  BY UsedType DEF Spend
<1> QED
  BY <1>1

LEMMA OrderlyUser ==
    ASSUME Inductive, Inductive', Orderly, Reliable, NEW s \in Server, User(s)
    PROVE  Orderly'
<1>1. ASSUME NEW q \in Qd, \/ Pop(s, q) \/ PollPop(s, q) \/ RegisterApplicationState(s, q)
                           \/ GetMigratedApplicationState(s, q)
      PROVE  Orderly'
  <2>1. UNCHANGED <<owner, active, ready, qds, sockets, panicked>> /\ net' = net
    BY ZenonT(120), <1>1 DEF Pop, PollPop, RegisterApplicationState, GetMigratedApplicationState,
                            tcpVars, migVars
  <2> QED
    BY ZenonT(60), <2>1, QuietStill, OrderlyData
<1>2. ASSUME NEW q \in Qd, Close(s, q)
      PROVE  FALSE
  <2>1. Spend("close") /\ Budget["close"] = 0 /\ "close" \in BudgetKind
    BY <1>2 DEF Close, Reliable, BudgetKind
  <2> QED
    BY ZenonT(60), <2>1, NeverSpent
<1> QED
  BY ZenonT(60), <1>1, <1>2, OrderlyInitiateMigration, OrderlyAccept DEF User

LEMMA OrderlyMigrate ==
    ASSUME Inductive, Inductive', Orderly, Reliable, NEW s \in Server, Migrate(s)
    PROVE  Orderly'
BY ZenonT(60), OrderlyReceivePrepareMig, OrderlyReceiveReturned, OrderlyReceivePrepareMigAck,
   OrderlyReceiveConnState, OrderlyReceiveConnStateAck, NothingUnexpected DEF Migrate

LEMMA OrderlyNext == Reliable /\ Inductive /\ Inductive' /\ Orderly /\ [Next]_vars => Orderly'
<1> SUFFICES ASSUME Reliable, Inductive, Inductive', Orderly, [Next]_vars
             PROVE  Orderly'
  OBVIOUS
<1>1. ASSUME NEW s \in Server, SwitchForward(s) \/ Migrate(s) \/ Data(s) \/ User(s) \/ Policy(s)
      PROVE  Orderly'
  BY ZenonT(60), <1>1, OrderlySwitchForward, OrderlyMigrate, OrderlyUser, OrderlyReceiveSegment,
     OrderlyBufferSegment, OrderlyInitiateMigrationByAddr DEF Data, Policy
<1>2. ASSUME NEW l \in Link, Lose(l)
      PROVE  FALSE
  <2>1. Spend("lose") /\ Budget["lose"] = 0 /\ "lose" \in BudgetKind
    BY <1>2 DEF Lose, Reliable, BudgetKind
  <2> QED
    BY ZenonT(60), <2>1, NeverSpent
<1>3. CASE UNCHANGED vars
  <2>1. UNCHANGED <<owner, active, ready, qds, sockets, panicked>> /\ net' = net
    BY <1>3 DEF vars, tcpVars, migVars
  <2> QED
    BY ZenonT(60), <2>1, QuietStill, OrderlyData
<1> QED
  BY ZenonT(60), <1>1, <1>2, <1>3, OrderlyClient DEF Next

LEMMA OrderlyInit == Init => Orderly
<1> SUFFICES ASSUME Init
             PROVE  Orderly
  OBVIOUS
<1>1. ASSUME NEW l \in Link
      PROVE  Len(net[l]) = 0
  BY DEF Init
<1>2. \A l \in Link, m \in Packet : ~At(net, l, m)
  <2>1. \A l \in Link : 1 .. Len(net[l]) = {}
    BY <1>1
  <2> QED
    BY ZenonT(60), <2>1 DEF At
<1>3. ASSUME NEW c \in Client
      PROVE  InOrder(net, owner[c], c)
  <2>1. \A l \in Link : 1 .. Len(net[l]) = {}
    BY <1>1
  <2> QED
    BY ZenonT(60), <2>1, LinkFacts DEF InOrder, OneToken, OneRelease, ReleaseFirst, SegmentsFollow
<1>4. \A s \in Server, c \in Client : active[s][c] = None /\ established[s][c] = None
  BY DEF Init
<1>5. ASSUME NEW c \in Client
      PROVE  owner[c] \in Server /\ ready[owner[c]][c] # None
  <2>1. NewControlBlock \in ControlBlock
    BY DEF NewControlBlock, ControlBlock
  <2>2. owner[c] \in Server
    BY DEF Init
  <2>3. ready[owner[c]][c] = NewControlBlock
    BY <2>2 DEF Init
  <2> QED
    BY ZenonT(60), <2>1, <2>2, <2>3, NoneAssumption
<1>6. ASSUME NEW c \in Client
      PROVE  Agreed(c)
  <2>1. \A s \in Server : View(c).stage[s] = "None"
    BY ZenonT(60), <1>4, ViewFields DEF StageAt
  <2>2. owner[c] \in View(c).held
    BY ZenonT(60), <1>5, ViewFields DEF Held
  <2>3. AtRest(owner[c], View(c))
    BY <1>5, <2>1, <2>2 DEF AtRest, Settled
  <2>4. \A s \in Server : View(c).stage[s] # "CONN_STATE"
    BY ZenonT(60), <2>1
  <2> QED
    BY ZenonT(60), <1>2, <1>3, <2>3, <2>4 DEF Agreed, Protocol
<1>7. \A c \in Client : Descriptors(c) /\ OriginsBufferNothing(c)
  BY <1>4 DEF Descriptors, OriginsBufferNothing, StageAt
<1>8. OnlyUsersPanic
  BY ZenonT(60) DEF Init, OnlyUsersPanic
<1> QED
  BY ZenonT(60), <1>6, <1>7, <1>8 DEF Orderly

(* Who holds a connection that is routed elsewhere waits for the answer of *)
(* the server it is routed to.                                             *)
LEMMA OrderlyOwner == Inductive /\ Orderly => OwnerIsKnown
<1> SUFFICES ASSUME Inductive, Orderly, NEW s \in Server, NEW c \in Client, Held(s, c), owner[c] # s
             PROVE  /\ active[s][c] # None /\ active[s][c].stage = "PREPARE_MIG"
                    /\ active[owner[c]][c] # None /\ active[owner[c]][c].stage = "PREPARE_MIG_ACK"
                    /\ \E i \in 1 .. Len(net[Down(s)]) : net[Down(s)][i] = PrepareMigAck(owner[c], c, s)
  BY ZenonT(60) DEF OwnerIsKnown
<1>1. PICK v, o : v = View(c) /\ o = owner[c]
  OBVIOUS
<1>2. /\ net \in Nets /\ o \in Server /\ Protocol(net, o, c, v) /\ v \in Views /\ Single(net, c, v)
      /\ s \in v.held /\ \A u \in Server : v.stage[u] = StageAt(u, c)
  BY ZenonT(60), <1>1, AgreedBefore, ViewFacts, ViewFields
<1>3. s \in v.origins /\ v.stage[s] = "PREPARE_MIG"
  <2>1. s \in v.origins
    BY <1>1, <1>2, HolderAtRest
  <2> QED
    BY ZenonT(60), <1>2, <2>1 DEF Single
<1>4. PICK l \in Link, m \in Packet : At(net, l, m) /\ IsToken(m, c)
  <2>1. ~AtRest(o, v)
    BY ZenonT(60), <1>1, <1>2 DEF AtRest, Single
  <2> QED
    BY ZenonT(60), <1>2, <2>1 DEF Protocol, NoToken
<1>5. ~IsPrepare(m, c)
  <2>1. IsPrepare(m, c) => o \in v.origins
    BY ZenonT(60), <1>2, <1>4 DEF Protocol, PrepareFits
  <2> QED
    BY ZenonT(60), <1>1, <1>2, <2>1 DEF Single
<1>6. ~IsStateOf(m, c)
  BY ZenonT(60), <1>2, <1>4 DEF Single
<1>7. IsAck(m, c) /\ AckFits(o, v, l, m) /\ m.dst \in Server
  <2>1. IsAck(m, c)
    BY ZenonT(60), <1>4, <1>5, <1>6, PacketKinds
  <2> QED
    BY ZenonT(60), <1>2, <1>4, <2>1, PacketKinds DEF Protocol
<1>8. m.dst = s
  BY ZenonT(60), <1>2, <1>7 DEF AckFits, Single
<1>9. l = Down(s) /\ o = m.src /\ v.stage[o] = "PREPARE_MIG_ACK"
  BY ZenonT(60), <1>1, <1>7, <1>8 DEF AckFits
<1>10. m = PrepareMigAck(owner[c], c, s)
  BY ZenonT(60), <1>1, <1>7, <1>8, <1>9 DEF Packet, IsAck, PrepareMigAck
<1>11. \E i \in 1 .. Len(net[Down(s)]) : net[Down(s)][i] = PrepareMigAck(owner[c], c, s)
  BY ZenonT(60), <1>4, <1>9, <1>10 DEF At
<1>12. StageAt(s, c) = "PREPARE_MIG" /\ StageAt(owner[c], c) = "PREPARE_MIG_ACK"
  BY ZenonT(60), <1>1, <1>2, <1>3, <1>9
<1> QED
  BY <1>11, <1>12 DEF StageAt

LEMMA OrderlyState == Inductive /\ Orderly => StateFollowsOwner
<1> SUFFICES ASSUME Inductive, Orderly, NEW l \in Link, NEW c \in Client, NEW i \in 1 .. Len(net[l]),
                    IsStateOf(net[l][i], c)
             PROVE  net[l][i].dst = owner[c]
  BY DEF StateFollowsOwner
<1>1. net[l] \in Seq(Packet)
  BY NetType
<1>2. net[l][i] \in Packet
  BY <1>1
<1>3. At(net, l, net[l][i])
  BY ZenonT(60) DEF At
<1> QED
  BY ZenonT(60), <1>2, <1>3, AgreedBefore DEF Protocol, StateFits

LEMMA OrderlySegments == Inductive /\ Orderly => SegmentsFindTheConnection
<1> SUFFICES ASSUME Inductive, Orderly
             PROVE  SegmentsFindTheConnection
  OBVIOUS
<1>1. ASSUME NEW s \in Server, net[Down(s)] # <<>>, Head(net[Down(s)]).type = "SEGMENT"
      PROVE  LET c == Head(net[Down(s)]).client IN Held(s, c) \/ active[s][c] # None
  <2>1. PICK h, c : h = Head(net[Down(s)]) /\ c = h.client
    OBVIOUS
  <2>2. Down(s) \in Link
    BY LinkFacts
  <2>3. net[Down(s)] \in Seq(Packet)
    BY ZenonT(60), <2>2, NetType
  <2>4. h \in Packet /\ IsHead(net, Down(s), h)
    BY <1>1, <2>1, <2>3 DEF IsHead
  <2>5. c \in Client /\ IsSegment(h, c)
    BY ZenonT(60), <1>1, <2>1, <2>4 DEF IsSegment, Packet
  <2>6. /\ net \in Nets /\ owner[c] \in Server /\ Protocol(net, owner[c], c, View(c))
        /\ View(c) \in Views
        /\ View(c).stage[s] = StageAt(s, c) /\ (s \in View(c).origins <=> IsOrigin(s, c))
        /\ (s \in View(c).held <=> Held(s, c))
    BY ZenonT(60), <2>5, AgreedBefore, ViewFacts, ViewFields
  <2>7. \/ s \in View(c).origins \/ View(c).stage[s] = "PREPARE_MIG_ACK"
        \/ owner[c] = s /\ AtRest(owner[c], View(c))
    BY ZenonT(60), <2>4, <2>5, <2>6, SegmentArrives
  <2>8. Held(s, c) \/ active[s][c] # None
    BY ZenonT(60), <2>6, <2>7 DEF IsOrigin, StageAt, AtRest
  <2> QED
    BY ZenonT(60), <2>1, <2>8
<1>2. ASSUME NEW s \in Server, NEW c \in Client,
             active[s][c] # None, active[s][c].stage \in {"PREPARE_MIG", "CONN_STATE"}
      PROVE  active[s][c].buffer = <<>>
  BY <1>2 DEF Orderly, OriginsBufferNothing, StageAt
<1> QED
  BY ZenonT(60), <1>1, <1>2 DEF SegmentsFindTheConnection

LEMMA OrderlyReturned == Reliable /\ Inductive /\ Orderly => ReturnedIsOwn
<1> SUFFICES ASSUME Reliable, Inductive, Orderly, NEW s \in Server, NEW i \in Arrivals(Down(s)),
                    net[Down(s)][i].type = "PREPARE_MIG", active[s][net[Down(s)][i].client] # None
             PROVE  net[Down(s)][i].src = s
  BY ZenonT(60) DEF ReturnedIsOwn
<1>1. PICK h, c : h = net[Down(s)][i] /\ c = h.client
  OBVIOUS
<1>2. IsHead(net, Down(s), h) /\ h \in Packet /\ c \in Client
  BY ZenonT(60), <1>1, LinkFacts, Arrival
<1>3. IsPrepare(h, c)
  BY ZenonT(60), <1>1 DEF IsPrepare
<1>4. /\ net \in Nets /\ owner[c] \in Server /\ Protocol(net, owner[c], c, View(c))
      /\ View(c) \in Views /\ Single(net, c, View(c)) /\ View(c).stage[s] = StageAt(s, c)
  BY ZenonT(60), <1>2, AgreedBefore, ViewFacts, ViewFields
<1>5. StageAt(s, c) # "None"
  <2>1. active[s][c] \in ActiveMigration
    BY ZenonT(60), <1>1, <1>2, ActiveType
  <2>2. active[s][c].stage # "None"
    BY ZenonT(60), <2>1 DEF ActiveMigration, Stage
  <2> QED
    BY ZenonT(60), <1>1, <2>2 DEF StageAt
<1>6. h.src = owner[c] /\ (View(c).stage[s] # "None" => s = owner[c])
  BY SMTT(120), <1>2, <1>3, <1>4, PrepareArrives
<1> QED
  BY ZenonT(60), <1>1, <1>4, <1>5, <1>6

=============================================================================
