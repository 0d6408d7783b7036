----------------------------- MODULE TcpMigView -----------------------------
(***************************************************************************)
(* Links that keep the order of their packets: what the packets of one     *)
(* connection may be, and how taking the first packet of a link and        *)
(* sending one to another preserve that.  Then the migration of one        *)
(* connection as it looks to the servers together: how its messages change *)
(* what they know of it, and that the packets in flight, the owner and     *)
(* this knowledge go on fitting together.                                  *)
(***************************************************************************)
EXTENDS TcpMigLemmas

(* The packet that carries a migration on, and the one that ends it. *)
IsToken(m, c) == m.client = c /\ m.type \in {"PREPARE_MIG", "PREPARE_MIG_ACK", "CONN_STATE"}

IsPrepare(m, c) == m.client = c /\ m.type = "PREPARE_MIG"

IsAck(m, c) == m.client = c /\ m.type = "PREPARE_MIG_ACK"

IsRelease(m, c) == m.client = c /\ m.type = "CONN_STATE_ACK"

IsSegment(m, c) == m.client = c /\ m.type = "SEGMENT"

At(n, l, m) == \E i \in 1 .. Len(n[l]) : n[l][i] = m

NoToken(n, c) == \A l \in Link, m \in Packet : At(n, l, m) => ~IsToken(m, c)

(* A connection has one token at most. *)
OneToken(n, c) ==
    \A k, l \in Link : \A i \in 1 .. Len(n[k]), j \in 1 .. Len(n[l]) :
        IsToken(n[k][i], c) /\ IsToken(n[l][j], c) => k = l /\ i = j

(* An origin is released once. *)
OneRelease(n, c) ==
    \A k, l \in Link : \A i \in 1 .. Len(n[k]), j \in 1 .. Len(n[l]) :
        IsRelease(n[k][i], c) /\ IsRelease(n[l][j], c) /\ n[k][i].dst = n[l][j].dst => k = l /\ i = j

(* The end of a migration is ahead of the next one on every link. *)
ReleaseFirst(n, c) ==
    \A l \in Link : \A i, j \in 1 .. Len(n[l]) :
        IsRelease(n[l][i], c) /\ IsPrepare(n[l][j], c) => i < j

(* A segment is on the way to the owner o, or ahead of the message that    *)
(* tells the former owner to let go.                                       *)
SegmentsFollow(n, o, c) ==
    \A s \in Server : \A i \in 1 .. Len(n[Down(s)]) :
        IsSegment(n[Down(s)][i], c) =>
            o = s \/ \E j \in 1 .. Len(n[Down(s)]) : j > i /\ IsAck(n[Down(s)][j], c)

(* The four together. *)
InOrder(n, o, c) ==
    OneToken(n, c) /\ OneRelease(n, c) /\ ReleaseFirst(n, c) /\ SegmentsFollow(n, o, c)

(* Links are named by their direction and their server. *)
LEMMA LinkNames ==
    ASSUME NEW s \in Server, NEW t \in Server
    PROVE  (Up(s) = Up(t) => s = t) /\ (Down(s) = Down(t) => s = t) /\ Up(s) # Down(t)
BY DEF Up, Down

(* The positions of packets in r, after the first one of link l of n is    *)
(* taken.                                                                  *)
HeadPositions(n, l, r) ==
    /\ r \in Nets
    /\ \A k \in Link : k # l => r[k] = n[k]
    /\ Len(r[l]) = Len(n[l]) - 1
    /\ \A i \in 1 .. Len(r[l]) : i + 1 \in 1 .. Len(n[l]) /\ r[l][i] = n[l][i + 1]
    /\ \A i \in 1 .. Len(n[l]) : i # 1 => i - 1 \in 1 .. Len(r[l]) /\ r[l][i - 1] = n[l][i]

LEMMA RemovedPositions ==
    ASSUME NEW n \in Nets, NEW l \in Link, 1 \in 1 .. Len(n[l])
    PROVE  HeadPositions(n, l, Removed(n, l, 1))
<1>1. n[l] \in Seq(Packet) /\ Len(n[l]) \in Nat
  BY DEF Nets
<1>2. PICK w : w = Without(n[l], 1)
  OBVIOUS
<1>3. w \in Seq(Packet) /\ Len(w) = Len(n[l]) - 1
      /\ \A j \in 1 .. Len(n[l]) - 1 : w[j] = n[l][IF j < 1 THEN j ELSE j + 1]
  BY ZenonT(60), <1>1, <1>2, WithoutFacts
<1>4. \A j \in 1 .. Len(w) : j + 1 \in 1 .. Len(n[l]) /\ w[j] = n[l][j + 1]
  BY <1>1, <1>3
<1>5. \A i \in 1 .. Len(n[l]) : i # 1 => i - 1 \in 1 .. Len(w) /\ w[i - 1] = n[l][i]
  BY <1>1, <1>3
<1> DEFINE r == Removed(n, l, 1)
<1>6. r = [n EXCEPT ![l] = w]
  BY ZenonT(60), <1>2 DEF Removed
<1> HIDE DEF r
<1>7. r \in Nets /\ r[l] = w /\ \A k \in Link : k # l => r[k] = n[k]
  BY ZenonT(60), <1>3, <1>6 DEF Nets
<1>8. HeadPositions(n, l, r)
  BY ZenonT(60), <1>3, <1>4, <1>5, <1>7 DEF HeadPositions
<1> QED
  BY <1>8 DEF r

(* And when one is appended. *)
AppendPositions(n, l, m, r) ==
    /\ r \in Nets
    /\ \A k \in Link : k # l => r[k] = n[k]
    /\ Len(n[l]) \in Nat /\ Len(r[l]) = Len(n[l]) + 1
    /\ r[l][Len(n[l]) + 1] = m
    /\ \A i \in 1 .. Len(n[l]) : i \in 1 .. Len(r[l]) /\ r[l][i] = n[l][i] /\ i < Len(n[l]) + 1
    /\ \A i \in 1 .. Len(r[l]) : i \in 1 .. Len(n[l]) \/ i = Len(n[l]) + 1

LEMMA AddedPositions ==
    ASSUME NEW n \in Nets, NEW l \in Link, NEW m \in Packet
    PROVE  AppendPositions(n, l, m, Added(n, l, m))
<1>1. n[l] \in Seq(Packet) /\ Len(n[l]) \in Nat
  BY DEF Nets
<1>2. PICK w : w = Append(n[l], m)
  BY ZenonT(60)
<1>3. /\ w \in Seq(Packet) /\ Len(w) = Len(n[l]) + 1 /\ w[Len(n[l]) + 1] = m
      /\ \A i \in 1 .. Len(n[l]) : i \in 1 .. Len(w) /\ w[i] = n[l][i] /\ i < Len(n[l]) + 1
      /\ \A i \in 1 .. Len(w) : i \in 1 .. Len(n[l]) \/ i = Len(n[l]) + 1
  BY <1>1, <1>2
<1> DEFINE r == Added(n, l, m)
<1>4. r = [n EXCEPT ![l] = w]
  BY <1>2 DEF Added
<1> HIDE DEF r
<1>5. r \in Nets /\ r[l] = w /\ \A k \in Link : k # l => r[k] = n[k]
  BY ZenonT(60), <1>3, <1>4 DEF Nets
<1>6. AppendPositions(n, l, m, r)
  BY ZenonT(60), <1>1, <1>3, <1>5 DEF AppendPositions
<1> QED
  BY <1>6 DEF r

(* Taking the first packet of a link. *)
LEMMA HeadTaken ==
    ASSUME NEW n \in Nets, NEW l \in Link, 1 \in 1 .. Len(n[l]), NEW c \in Client, NEW o,
           InOrder(n, o, c)
    PROVE  LET r == Removed(n, l, 1)
               h == n[l][1]
           IN
           /\ r \in Nets /\ h \in Packet /\ At(n, l, h)
           /\ InOrder(r, o, c)
           /\ \A k \in Link, m \in Packet : At(r, k, m) => At(n, k, m)
           /\ \A k \in Link, m \in Packet : At(n, k, m) => At(r, k, m) \/ (k = l /\ m = h)
           /\ IsToken(h, c) => NoToken(r, c)
           /\ IsRelease(h, c) => \A k \in Link, m \in Packet :
                 At(r, k, m) /\ IsRelease(m, c) => m.dst # h.dst
           /\ IsPrepare(h, c) => \A m \in Packet : At(n, l, m) => ~IsRelease(m, c)
<1> DEFINE back(k, i) == IF k = l THEN i + 1 ELSE i
<1>1. PICK r : r = Removed(n, l, 1)
  OBVIOUS
<1>2. /\ r \in Nets
      /\ \A k \in Link : k # l => r[k] = n[k]
      /\ Len(r[l]) = Len(n[l]) - 1
      /\ \A i \in 1 .. Len(r[l]) : i + 1 \in 1 .. Len(n[l]) /\ r[l][i] = n[l][i + 1]
      /\ \A i \in 1 .. Len(n[l]) : i # 1 => i - 1 \in 1 .. Len(r[l]) /\ r[l][i - 1] = n[l][i]
  BY ZenonT(60), <1>1, RemovedPositions DEF HeadPositions
<1>3. \A k \in Link : n[k] \in Seq(Packet) /\ r[k] \in Seq(Packet) /\ Len(n[k]) \in Nat /\ Len(r[k]) \in Nat
  BY <1>2 DEF Nets
<1>4. n[l][1] \in Packet /\ At(n, l, n[l][1])
  BY <1>3 DEF At
<1>5. ASSUME NEW k \in Link, NEW i \in 1 .. Len(r[k])
      PROVE  /\ back(k, i) \in 1 .. Len(n[k]) /\ r[k][i] = n[k][back(k, i)]
             /\ k = l => back(k, i) # 1
             /\ \A j \in 1 .. Len(r[k]) : /\ back(k, i) = back(k, j) => i = j
                                          /\ back(k, i) < back(k, j) => i < j
  BY SMTT(60), <1>2, <1>3
<1> HIDE DEF back
<1>6. OneToken(r, c)
  <2> SUFFICES ASSUME NEW k \in Link, NEW h \in Link, NEW i \in 1 .. Len(r[k]), NEW j \in 1 .. Len(r[h]),
                      IsToken(r[k][i], c), IsToken(r[h][j], c)
               PROVE  k = h /\ i = j
    BY DEF OneToken
  <2>1. /\ back(k, i) \in 1 .. Len(n[k]) /\ IsToken(n[k][back(k, i)], c)
        /\ back(h, j) \in 1 .. Len(n[h]) /\ IsToken(n[h][back(h, j)], c)
    BY ZenonT(60), <1>5
  <2>2. k = h /\ back(k, i) = back(h, j)
    BY ZenonT(60), <2>1 DEF InOrder, OneToken
  <2> QED
    BY ZenonT(60), <1>5, <2>2
<1>7. OneRelease(r, c)
  <2> SUFFICES ASSUME NEW k \in Link, NEW h \in Link, NEW i \in 1 .. Len(r[k]), NEW j \in 1 .. Len(r[h]),
                      IsRelease(r[k][i], c), IsRelease(r[h][j], c), r[k][i].dst = r[h][j].dst
               PROVE  k = h /\ i = j
    BY DEF OneRelease
  <2>1. PICK x \in 1 .. Len(n[k]) : x = back(k, i) /\ r[k][i] = n[k][x]
    BY ZenonT(60), <1>5
  <2>2. PICK y \in 1 .. Len(n[h]) : y = back(h, j) /\ r[h][j] = n[h][y]
    BY ZenonT(60), <1>5
  <2>3. IsRelease(n[k][x], c) /\ IsRelease(n[h][y], c) /\ n[k][x].dst = n[h][y].dst
    BY ZenonT(60), <2>1, <2>2
  <2>4. OneRelease(n, c)
    BY DEF InOrder
  <2>5. k = h /\ x = y
    BY SMTT(120), <2>3, <2>4 DEF OneRelease
  <2> QED
    BY ZenonT(60), <1>5, <2>1, <2>2, <2>5
<1>8. ReleaseFirst(r, c)
  <2> SUFFICES ASSUME NEW k \in Link, NEW i \in 1 .. Len(r[k]), NEW j \in 1 .. Len(r[k]),
                      IsRelease(r[k][i], c), IsPrepare(r[k][j], c)
               PROVE  i < j
    BY ZenonT(60) DEF ReleaseFirst
  <2>1. /\ back(k, i) \in 1 .. Len(n[k]) /\ IsRelease(n[k][back(k, i)], c)
        /\ back(k, j) \in 1 .. Len(n[k]) /\ IsPrepare(n[k][back(k, j)], c)
    BY ZenonT(60), <1>5
  <2>2. back(k, i) < back(k, j)
    BY ZenonT(60), <2>1 DEF InOrder, ReleaseFirst
  <2> QED
    BY ZenonT(60), <1>5, <2>2
<1>9. SegmentsFollow(r, o, c)
  <2> SUFFICES ASSUME NEW s \in Server, NEW i \in 1 .. Len(r[Down(s)]), IsSegment(r[Down(s)][i], c), o # s
               PROVE  \E j \in 1 .. Len(r[Down(s)]) : j > i /\ IsAck(r[Down(s)][j], c)
    BY DEF SegmentsFollow
  <2>1. PICK k \in Link : k = Down(s)
    BY LinkFacts
  <2>2. back(k, i) \in 1 .. Len(n[k]) /\ r[k][i] = n[k][back(k, i)]
    BY ZenonT(60), <1>5, <2>1
  <2>3. PICK j \in 1 .. Len(n[k]) : j > back(k, i) /\ IsAck(n[k][j], c)
    BY ZenonT(60), <2>1, <2>2 DEF InOrder, SegmentsFollow
  <2>4. CASE k = l
    <3>1. j # 1 /\ j - 1 > i
      BY <2>1, <2>2, <2>3, <2>4, <1>3 DEF back
    <3>2. j - 1 \in 1 .. Len(r[l]) /\ r[l][j - 1] = n[l][j]
      BY ZenonT(60), <1>2, <2>3, <2>4, <3>1
    <3> QED
      BY ZenonT(60), <2>1, <2>3, <2>4, <3>1, <3>2
  <2>5. CASE k # l
    BY <1>2, <2>1, <2>3, <2>5 DEF back
  <2> QED
    BY ZenonT(60), <2>4, <2>5
<1>10. \A k \in Link, m \in Packet : At(r, k, m) => At(n, k, m)
  BY <1>5 DEF At
<1>11. ASSUME NEW k \in Link, NEW m \in Packet, At(n, k, m), ~(k = l /\ m = n[l][1])
       PROVE  At(r, k, m)
  <2>1. PICK i \in 1 .. Len(n[k]) : n[k][i] = m
    BY <1>11 DEF At
  <2>2. CASE k = l
    <3>1. i # 1
      BY <1>11, <2>1, <2>2
    <3> QED
      BY ZenonT(60), <1>2, <2>1, <2>2, <3>1 DEF At
  <2>3. CASE k # l
    BY ZenonT(60), <1>2, <2>1, <2>3 DEF At
  <2> QED
    BY <2>2, <2>3
<1>12. ASSUME IsToken(n[l][1], c)
       PROVE  NoToken(r, c)
  BY <1>5, <1>12 DEF InOrder, OneToken, NoToken, At
<1>13. ASSUME IsRelease(n[l][1], c), NEW k \in Link, NEW m \in Packet, At(r, k, m), IsRelease(m, c)
       PROVE  m.dst # n[l][1].dst
  <2>1. PICK i \in 1 .. Len(r[k]) : r[k][i] = m
    BY ZenonT(60), <1>13 DEF At
  <2>2. back(k, i) \in 1 .. Len(n[k]) /\ n[k][back(k, i)] = m /\ ~(k = l /\ back(k, i) = 1)
    BY ZenonT(60), <1>5, <2>1
  <2> QED
    BY ZenonT(60), <1>13, <2>2 DEF InOrder, OneRelease
<1>14. ASSUME IsPrepare(n[l][1], c), NEW m \in Packet, At(n, l, m)
       PROVE  ~IsRelease(m, c)
  BY <1>3, <1>14 DEF InOrder, ReleaseFirst, At
<1>15. InOrder(r, o, c)
  BY <1>6, <1>7, <1>8, <1>9 DEF InOrder
<1> QED
  BY ZenonT(120), <1>1, <1>2, <1>4, <1>10, <1>11, <1>12, <1>13, <1>14, <1>15

(* Sending a packet. *)
LEMMA Appended ==
    ASSUME NEW n \in Nets, NEW l \in Link, NEW m \in Packet, NEW c \in Client, NEW o,
           InOrder(n, o, c),
           IsToken(m, c) => NoToken(n, c),
           IsRelease(m, c) => \A p \in Packet : At(n, l, p) => ~IsPrepare(p, c),
           IsRelease(m, c) => \A k \in Link, p \in Packet : At(n, k, p) /\ IsRelease(p, c) => p.dst # m.dst,
           IsSegment(m, c) => l = Down(o) /\ o \in Server
    PROVE  LET r == Added(n, l, m) IN
           /\ r \in Nets
           /\ InOrder(r, o, c)
           /\ \A k \in Link, p \in Packet : At(r, k, p) <=> At(n, k, p) \/ (k = l /\ p = m)
<1> DEFINE last == Len(n[l]) + 1
<1>1. PICK r : r = Added(n, l, m)
  OBVIOUS
<1>2. /\ r \in Nets
      /\ \A k \in Link : k # l => r[k] = n[k]
      /\ Len(n[l]) \in Nat /\ Len(r[l]) = Len(n[l]) + 1
      /\ r[l][Len(n[l]) + 1] = m
      /\ \A i \in 1 .. Len(n[l]) : i \in 1 .. Len(r[l]) /\ r[l][i] = n[l][i] /\ i < Len(n[l]) + 1
      /\ \A i \in 1 .. Len(r[l]) : i \in 1 .. Len(n[l]) \/ i = Len(n[l]) + 1
  <2>1. AppendPositions(n, l, m, r)
    BY <1>1, AddedPositions
  <2> QED
    BY <2>1 DEF AppendPositions
<1>3. last \in 1 .. Len(r[l])
  BY <1>2
<1>4. ASSUME NEW k \in Link, NEW i \in 1 .. Len(n[k])
      PROVE  /\ i \in 1 .. Len(r[k]) /\ r[k][i] = n[k][i] /\ (k = l => i < last)
             /\ n[k][i] \in Packet /\ At(n, k, n[k][i])
  <2>1. n[k] \in Seq(Packet)
    BY DEF Nets
  <2>2. n[k][i] \in Packet /\ At(n, k, n[k][i])
    BY <2>1 DEF At
  <2> QED
    BY ZenonT(60), <1>2, <2>2
<1>5. ASSUME NEW k \in Link, NEW i \in 1 .. Len(r[k])
      PROVE  i \in 1 .. Len(n[k]) \/ (k = l /\ i = last /\ r[k][i] = m)
  BY ZenonT(60), <1>2
<1> HIDE DEF last
<1>6. OneToken(r, c)
  <2> SUFFICES ASSUME NEW k \in Link, NEW h \in Link, NEW i \in 1 .. Len(r[k]), NEW j \in 1 .. Len(r[h]),
                      IsToken(r[k][i], c), IsToken(r[h][j], c)
               PROVE  k = h /\ i = j
    BY DEF OneToken
  <2>1. CASE i \in 1 .. Len(n[k]) /\ j \in 1 .. Len(n[h])
    <3>1. IsToken(n[k][i], c) /\ IsToken(n[h][j], c)
      BY ZenonT(60), <1>4, <2>1
    <3> QED
      BY ZenonT(60), <2>1, <3>1 DEF InOrder, OneToken
  <2>2. CASE IsToken(m, c)
    <3>1. \A g \in Link : \A x \in 1 .. Len(n[g]) : ~IsToken(r[g][x], c)
      BY ZenonT(60), <1>4, <2>2 DEF NoToken
    <3> QED
      BY ZenonT(60), <1>5, <3>1
  <2> QED
    BY ZenonT(60), <1>5, <2>1, <2>2
<1>7. OneRelease(r, c)
  <2> SUFFICES ASSUME NEW k \in Link, NEW h \in Link, NEW i \in 1 .. Len(r[k]), NEW j \in 1 .. Len(r[h]),
                      IsRelease(r[k][i], c), IsRelease(r[h][j], c), r[k][i].dst = r[h][j].dst
               PROVE  k = h /\ i = j
    BY DEF OneRelease
  <2>1. CASE i \in 1 .. Len(n[k]) /\ j \in 1 .. Len(n[h])
    <3>1. IsRelease(n[k][i], c) /\ IsRelease(n[h][j], c) /\ n[k][i].dst = n[h][j].dst
      BY ZenonT(60), <1>4, <2>1
    <3> QED
      BY <2>1, <3>1 DEF InOrder, OneRelease
  <2>2. CASE IsRelease(m, c)
    <3>1. \A g \in Link : \A x \in 1 .. Len(n[g]) : IsRelease(r[g][x], c) => r[g][x].dst # m.dst
      BY ZenonT(60), <1>4, <2>2
    <3>2. i \notin 1 .. Len(n[k]) /\ j \notin 1 .. Len(n[h]) => k = h /\ i = j
      BY ZenonT(60), <1>5
    <3>3. i \in 1 .. Len(n[k]) => j \in 1 .. Len(n[h])
      BY ZenonT(60), <1>5, <3>1
    <3>4. j \in 1 .. Len(n[h]) => i \in 1 .. Len(n[k])
      BY ZenonT(60), <1>5, <3>1
    <3> QED
      BY ZenonT(60), <2>1, <3>2, <3>3, <3>4
  <2> QED
    BY ZenonT(60), <1>5, <2>1, <2>2
<1>8. ReleaseFirst(r, c)
  <2> SUFFICES ASSUME NEW k \in Link, NEW i \in 1 .. Len(r[k]), NEW j \in 1 .. Len(r[k]),
                      IsRelease(r[k][i], c), IsPrepare(r[k][j], c)
               PROVE  i < j
    BY DEF ReleaseFirst
  <2>1. CASE i \in 1 .. Len(n[k]) /\ j \in 1 .. Len(n[k])
    BY ZenonT(60), <1>4, <2>1 DEF InOrder, ReleaseFirst
  <2>2. CASE IsRelease(m, c)
    <3>1. ~IsPrepare(m, c)
      BY <2>2 DEF IsRelease, IsPrepare
    <3>2. j \in 1 .. Len(n[k]) /\ IsPrepare(n[k][j], c) /\ n[k][j] \in Packet /\ At(n, k, n[k][j])
      BY ZenonT(60), <1>4, <1>5, <3>1
    <3>3. k # l
      BY ZenonT(60), <2>2, <3>2
    <3> QED
      BY ZenonT(60), <1>5, <2>1, <3>2, <3>3
  <2>3. CASE i \in 1 .. Len(n[k]) /\ k = l /\ j = last
    BY ZenonT(60), <1>4, <2>3
  <2> QED
    BY ZenonT(60), <1>5, <2>1, <2>2, <2>3
<1>9. SegmentsFollow(r, o, c)
  <2> SUFFICES ASSUME NEW s \in Server, NEW i \in 1 .. Len(r[Down(s)]), IsSegment(r[Down(s)][i], c), o # s
               PROVE  \E j \in 1 .. Len(r[Down(s)]) : j > i /\ IsAck(r[Down(s)][j], c)
    BY DEF SegmentsFollow
  <2>1. Down(s) \in Link
    BY LinkFacts
  <2>2. i \in 1 .. Len(n[Down(s)])
    BY ZenonT(60), <1>5, <2>1, LinkNames
  <2> QED
    BY ZenonT(60), <1>4, <2>1, <2>2 DEF InOrder, SegmentsFollow
<1>10. ASSUME NEW k \in Link, NEW p \in Packet
       PROVE  At(r, k, p) <=> At(n, k, p) \/ (k = l /\ p = m)
  <2>1. At(n, k, p) => At(r, k, p)
    BY ZenonT(60), <1>4 DEF At
  <2>2. At(r, l, m)
    BY <1>2, <1>3 DEF At
  <2>3. At(r, k, p) => At(n, k, p) \/ (k = l /\ p = m)
    BY ZenonT(60), <1>4, <1>5 DEF At
  <2> QED
    BY <2>1, <2>2, <2>3
<1>11. InOrder(r, o, c)
  BY ZenonT(60), <1>6, <1>7, <1>8, <1>9 DEF InOrder
<1> QED
  BY ZenonT(60), <1>1, <1>2, <1>10, <1>11

(* The switch forwards a PREPARE_MIG_ACK to the former owner o: whatever   *)
(* the owner is then, the segments on the way to o are ahead of it.        *)
LEMMA AckAppended ==
    ASSUME NEW n \in Nets, NEW m \in Packet, NEW c \in Client, NEW o \in Server, NEW new,
           InOrder(n, o, c), NoToken(n, c), IsAck(m, c)
    PROVE  InOrder(Added(n, Down(o), m), new, c)
<1>0. PICK l \in Link : l = Down(o)
  BY LinkFacts
<1>1. PICK r : l = Down(o) /\ r = Added(n, Down(o), m)
  BY ZenonT(60), <1>0
<1>2. InOrder(r, o, c)
  <2>1. ~IsRelease(m, c) /\ ~IsSegment(m, c)
    BY DEF IsAck, IsRelease, IsSegment
  <2> QED
    BY ZenonT(60), <1>1, <2>1, Appended
<1>3. AppendPositions(n, l, m, r)
  BY <1>1, AddedPositions
<1>4. SegmentsFollow(r, new, c)
  <2> SUFFICES ASSUME NEW s \in Server, NEW i \in 1 .. Len(r[Down(s)]), IsSegment(r[Down(s)][i], c)
               PROVE  \E j \in 1 .. Len(r[Down(s)]) : j > i /\ IsAck(r[Down(s)][j], c)
    BY DEF SegmentsFollow
  <2>1. CASE o = s
    <3>1. PICK last : last = Len(n[l]) + 1
      OBVIOUS
    <3>2. last \in 1 .. Len(r[l]) /\ r[l][last] = m /\ \A x \in 1 .. Len(r[l]) : x # last => x < last
      BY <1>3, <3>1 DEF AppendPositions
    <3>3. i # last
      BY <1>1, <2>1, <3>2 DEF IsSegment, IsAck
    <3>4. i \in 1 .. Len(r[l])
      BY <1>1, <2>1
    <3>5. last > i
      BY <3>2, <3>3, <3>4
    <3> QED
      BY <1>1, <2>1, <3>2, <3>5
  <2>2. CASE o # s
    BY ZenonT(60), <1>2, <2>2 DEF InOrder, SegmentsFollow
  <2> QED
    BY <2>1, <2>2
<1> QED
  BY ZenonT(60), <1>1, <1>2, <1>4 DEF InOrder

(***************************************************************************)
(* What the servers know of one connection: the stage of its migration at  *)
(* each of them, who holds it, who has asked to migrate it out and still   *)
(* has it under the descriptor stored then, and where it waits for accept. *)
(***************************************************************************)
Views == [stage : [Server -> Stage \cup {"None"}], held : SUBSET Server,
          origins : SUBSET Server, waiting : SUBSET Server]

SameAt(v, w, u) ==
    /\ w.stage[u] = v.stage[u]
    /\ u \in w.held <=> u \in v.held
    /\ u \in w.origins <=> u \in v.origins
    /\ u \in w.waiting <=> u \in v.waiting

SameBut(v, w, s) == \A u \in Server : u # s => SameAt(v, w, u)

(* A server with no more part in a migration than to forget it. *)
Settled(v, u) == v.stage[u] \in {"None", "CONN_STATE"}

(* Where a token may be, and what the switch and the servers know then. *)
PrepareFits(o, v, l, m) ==
    /\ l = Up(m.src) \/ \E t \in Server : l = Down(t)
    /\ m.src = o /\ o \in v.origins
    /\ \A u \in Server : u # o => Settled(v, u)

AckFits(o, v, l, m) ==
    /\ (l = Up(m.src) /\ o = m.dst) \/ (l = Down(m.dst) /\ o = m.src)
    /\ m.dst \in v.origins /\ v.stage[m.src] = "PREPARE_MIG_ACK"
    /\ \A u \in Server : u # m.src /\ u # m.dst => Settled(v, u)

StateFits(o, v, l, m) ==
    /\ l = Up(m.src) \/ l = Down(m.dst)
    /\ m.dst = o /\ v.stage[o] = "PREPARE_MIG_ACK" /\ v.stage[m.src] = "CONN_STATE"
    /\ \A u \in Server : u # o => Settled(v, u)

(* No migration is under way: the owner has the connection. *)
AtRest(o, v) ==
    /\ o \in v.held
    /\ v.stage[o] = "None" \/ (v.stage[o] = "CONN_STATE_ACK" /\ o \in v.waiting)
    /\ \A u \in Server : u # o => Settled(v, u)

(* A CONN_STATE_ACK is on its way to an origin that has let go; behind it, *)
(* the connection can at most have been asked to migrate again.            *)
ReleaseFits(n, c, v, l, m) ==
    /\ v.stage[m.dst] = "CONN_STATE"
    /\ \/ l = Down(m.dst)
       \/ /\ l = Up(m.src) /\ m.src \in v.held
          /\ \A k \in Link, p \in Packet : At(n, k, p) /\ IsToken(p, c) => k = l /\ IsPrepare(p, c)
    /\ \A k \in Link, p \in Packet : At(n, k, p) /\ IsStateOf(p, c) => p.src # m.dst

(* Whoever waits for its release will get it. *)
Releases(n, c, u) ==
    \E l \in Link, m \in Packet : At(n, l, m) /\ \/ IsRelease(m, c) /\ m.dst = u
                                                 \/ IsStateOf(m, c) /\ m.src = u

Protocol(n, o, c, v) ==
    /\ InOrder(n, o, c)
    /\ \A l \in Link, m \in Packet : At(n, l, m) =>
          /\ IsPrepare(m, c) => PrepareFits(o, v, l, m)
          /\ IsAck(m, c) => AckFits(o, v, l, m)
          /\ IsStateOf(m, c) => StateFits(o, v, l, m)
          /\ IsRelease(m, c) => ReleaseFits(n, c, v, l, m)
    /\ NoToken(n, c) => AtRest(o, v)
    /\ \A u \in Server : v.stage[u] = "CONN_STATE" => Releases(n, c, u)

(* The control block is in one place. *)
Single(n, c, v) ==
    /\ \A s, t \in v.held : s = t
    /\ v.origins \subseteq v.held /\ v.waiting \subseteq v.held
    /\ \A s \in v.origins : s \notin v.waiting /\ v.stage[s] = "PREPARE_MIG"
    /\ \A l \in Link, m \in Packet : At(n, l, m) /\ IsStateOf(m, c) => v.held = {}

(* The packets of a connection, by what they do. *)
LEMMA PacketKinds ==
    ASSUME NEW m \in Packet, NEW c \in Client
    PROVE  /\ IsToken(m, c) <=> IsPrepare(m, c) \/ IsAck(m, c) \/ IsStateOf(m, c)
           /\ IsPrepare(m, c) => ~IsAck(m, c) /\ ~IsStateOf(m, c) /\ ~IsRelease(m, c) /\ ~IsSegment(m, c)
           /\ IsAck(m, c) => ~IsStateOf(m, c) /\ ~IsRelease(m, c) /\ ~IsSegment(m, c) /\ m.dst \in Server
           /\ IsStateOf(m, c) => ~IsRelease(m, c) /\ ~IsSegment(m, c) /\ m.dst \in Server
           /\ IsRelease(m, c) => ~IsSegment(m, c) /\ m.dst \in Server
           /\ IsToken(m, c) \/ IsRelease(m, c) => m.src \in Server
<1>1. m.type = "PREPARE_MIG" => m.src \in Server
  BY DEF Packet
<1>2. m.type \in {"PREPARE_MIG_ACK", "CONN_STATE", "CONN_STATE_ACK"} => m.src \in Server /\ m.dst \in Server
  BY DEF Packet
<1> QED
  BY <1>1, <1>2 DEF IsToken, IsPrepare, IsAck, IsStateOf, IsRelease, IsSegment

(* A holder without a migration at the stage PREPARE_MIG is at rest. *)
LEMMA HolderAtRest ==
    ASSUME NEW n \in Nets, NEW o \in Server, NEW c \in Client, NEW v \in Views,
           Protocol(n, o, c, v), Single(n, c, v),
           NEW s \in v.held, s \notin v.origins
    PROVE  NoToken(n, c) /\ o = s
<1>1. ASSUME NEW l \in Link, NEW m \in Packet, At(n, l, m), IsToken(m, c)
      PROVE  FALSE
  <2>1. CASE IsPrepare(m, c)
    BY ZenonT(60), <1>1, <2>1 DEF Protocol, PrepareFits, Single
  <2>2. CASE IsAck(m, c)
    BY ZenonT(60), <1>1, <2>2 DEF Protocol, AckFits, Single
  <2>3. CASE IsStateOf(m, c)
    BY <1>1, <2>3 DEF Protocol, Single
  <2> QED
    BY ZenonT(60), <1>1, <2>1, <2>2, <2>3, PacketKinds
<1>2. NoToken(n, c)
  BY ZenonT(60), <1>1 DEF NoToken
<1> QED
  BY ZenonT(60), <1>2 DEF Protocol, AtRest, Single

(* The packets of c in r, where x on link l is its only token, and the     *)
(* releases are those of n.                                                *)
OnlyToken(n, r, c, l, x) ==
    /\ IsToken(x, c) /\ At(r, l, x)
    /\ \A j \in Link, p \in Packet : At(r, j, p) /\ IsToken(p, c) => j = l /\ p = x
    /\ \A j \in Link, p \in Packet : IsRelease(p, c) => (At(r, j, p) <=> At(n, j, p))

(* No release shares link k with the token h, if that is a PREPARE_MIG. *)
ClearAhead(n, c, k, h) == IsPrepare(h, c) => \A p \in Packet : At(n, k, p) => ~IsRelease(p, c)

(* h is the first packet on link k. *)
IsHead(n, k, h) == 1 \in 1 .. Len(n[k]) /\ h = n[k][1]

(* e is n without its first packet h on link l. *)
Taken(n, l, h, e, o, c) ==
    /\ e \in Nets /\ h \in Packet /\ At(n, l, h)
    /\ InOrder(e, o, c)
    /\ \A k \in Link, m \in Packet : At(e, k, m) => At(n, k, m)
    /\ \A k \in Link, m \in Packet : At(n, k, m) => At(e, k, m) \/ (k = l /\ m = h)
    /\ IsToken(h, c) => NoToken(e, c)
    /\ IsRelease(h, c) => \A k \in Link, m \in Packet : At(e, k, m) /\ IsRelease(m, c) => m.dst # h.dst
    /\ ClearAhead(n, c, l, h)

LEMMA HeadIsTaken ==
    ASSUME NEW n \in Nets, NEW l \in Link, NEW c \in Client, NEW o, InOrder(n, o, c),
           NEW h, IsHead(n, l, h), NEW e, e = Removed(n, l, 1)
    PROVE  Taken(n, l, h, e, o, c)
<1>1. h = n[l][1] /\ 1 \in 1 .. Len(n[l])
  BY DEF IsHead
<1>2. Taken(n, l, n[l][1], Removed(n, l, 1), o, c)
  BY ZenonT(60), <1>1, HeadTaken DEF Taken, ClearAhead
<1> QED
  BY ZenonT(60), <1>1, <1>2

(* m may be sent on link l, and r is n with it. *)
MaySend(n, o, c, l, m) ==
    /\ IsToken(m, c) => NoToken(n, c)
    /\ IsRelease(m, c) => \A p \in Packet : At(n, l, p) => ~IsPrepare(p, c)
    /\ IsRelease(m, c) => \A k \in Link, p \in Packet : At(n, k, p) /\ IsRelease(p, c) => p.dst # m.dst
    /\ IsSegment(m, c) => l = Down(o) /\ o \in Server

Sent(n, l, m, r, o, c) ==
    /\ r \in Nets /\ InOrder(r, o, c)
    /\ \A k \in Link, p \in Packet : At(r, k, p) <=> At(n, k, p) \/ (k = l /\ p = m)

LEMMA PacketIsSent ==
    ASSUME NEW n \in Nets, NEW l \in Link, NEW m \in Packet, NEW c \in Client, NEW o,
           InOrder(n, o, c), MaySend(n, o, c, l, m), NEW r, r = Added(n, l, m)
    PROVE  Sent(n, l, m, r, o, c)
BY ZenonT(60), Appended DEF Sent, MaySend

(* A token is sent where there is none. *)
LEMMA TokenSent ==
    ASSUME NEW n \in Nets, NEW o, NEW c \in Client, InOrder(n, o, c), NoToken(n, c),
           NEW l \in Link, NEW x \in Packet, IsToken(x, c)
    PROVE  InOrder(Added(n, l, x), o, c) /\ OnlyToken(n, Added(n, l, x), c, l, x)
<1>1. ~IsRelease(x, c) /\ ~IsSegment(x, c)
  BY ZenonT(60), PacketKinds
<1>2. PICK r : r = Added(n, l, x)
  OBVIOUS
<1>3. /\ InOrder(r, o, c)
      /\ \A k \in Link, p \in Packet : At(r, k, p) <=> At(n, k, p) \/ (k = l /\ p = x)
  BY ZenonT(60), <1>1, <1>2, Appended
<1>4. OnlyToken(n, r, c, l, x)
  BY ZenonT(60), <1>1, <1>3 DEF OnlyToken, NoToken
<1> QED
  BY ZenonT(60), <1>2, <1>3, <1>4

(* The token at the head of link k is the only one.  It is taken, and      *)
(* another sent on link l.                                                 *)
LEMMA TokenMoved ==
    ASSUME NEW n \in Nets, NEW o, NEW c \in Client, InOrder(n, o, c),
           NEW k \in Link, NEW h, IsHead(n, k, h), IsToken(h, c),
           NEW l \in Link, NEW x \in Packet, IsToken(x, c)
    PROVE  LET r == Added(Removed(n, k, 1), l, x) IN
           /\ OnlyToken(n, n, c, k, h)
           /\ OnlyToken(n, r, c, l, x)
           /\ InOrder(r, o, c)
           /\ ClearAhead(n, c, k, h)
<1>1. PICK e : e = Removed(n, k, 1)
  OBVIOUS
<1>2. /\ e \in Nets /\ h \in Packet /\ At(n, k, h)
      /\ InOrder(e, o, c)
      /\ \A j \in Link, m \in Packet : At(e, j, m) => At(n, j, m)
      /\ \A j \in Link, m \in Packet : At(n, j, m) => At(e, j, m) \/ (j = k /\ m = h)
      /\ NoToken(e, c)
      /\ ClearAhead(n, c, k, h)
  BY ZenonT(60), <1>1, HeadTaken DEF ClearAhead, IsHead
<1>3. ~IsRelease(h, c)
  BY ZenonT(60), <1>2, PacketKinds
<1>4. OnlyToken(n, n, c, k, h)
  BY ZenonT(60), <1>2 DEF OnlyToken, NoToken
<1>5. PICK r : r = Added(e, l, x)
  OBVIOUS
<1>6. InOrder(r, o, c) /\ OnlyToken(e, r, c, l, x)
  BY ZenonT(60), <1>2, <1>5, TokenSent
<1>7. OnlyToken(n, r, c, l, x)
  BY ZenonT(60), <1>2, <1>3, <1>6 DEF OnlyToken
<1> QED
  BY ZenonT(60), <1>1, <1>2, <1>4, <1>5, <1>6, <1>7

(* The releases have passed the switch, while h is the token. *)
Passed(n, c, v, h) ==
    /\ \A l \in Link, m \in Packet : At(n, l, m) /\ IsRelease(m, c) =>
          l = Down(m.dst) /\ v.stage[m.dst] = "CONN_STATE" /\ (IsStateOf(h, c) => h.src # m.dst)
    /\ \A u \in Server : v.stage[u] = "CONN_STATE" =>
          \/ \E l \in Link, m \in Packet : At(n, l, m) /\ IsRelease(m, c) /\ m.dst = u
          \/ IsStateOf(h, c) /\ h.src = u

(* They have, unless the token is a PREPARE_MIG behind one. *)
LEMMA ReleasesPassed ==
    ASSUME NEW n, NEW o, NEW c \in Client, NEW v, Protocol(n, o, c, v),
           NEW k \in Link, NEW h \in Packet, OnlyToken(n, n, c, k, h), ClearAhead(n, c, k, h)
    PROVE  Passed(n, c, v, h)
<1>1. ASSUME NEW l \in Link, NEW m \in Packet, At(n, l, m), IsRelease(m, c)
      PROVE  l = Down(m.dst) /\ v.stage[m.dst] = "CONN_STATE" /\ (IsStateOf(h, c) => h.src # m.dst)
  <2>1. ReleaseFits(n, c, v, l, m)
    BY ZenonT(60), <1>1 DEF Protocol
  <2>2. At(n, k, h) /\ IsToken(h, c)
    BY DEF OnlyToken
  <2> QED
    BY ZenonT(60), <1>1, <2>1, <2>2 DEF ReleaseFits, ClearAhead
<1>2. ASSUME NEW u \in Server, v.stage[u] = "CONN_STATE"
      PROVE  \/ \E l \in Link, m \in Packet : At(n, l, m) /\ IsRelease(m, c) /\ m.dst = u
             \/ IsStateOf(h, c) /\ h.src = u
  <2>1. PICK l \in Link, m \in Packet : At(n, l, m) /\ \/ IsRelease(m, c) /\ m.dst = u
                                                       \/ IsStateOf(m, c) /\ m.src = u
    BY ZenonT(60), <1>2 DEF Protocol, Releases
  <2>2. IsStateOf(m, c) => m = h
    BY ZenonT(60), <2>1, PacketKinds DEF OnlyToken
  <2> QED
    BY ZenonT(60), <2>1, <2>2
<1> QED
  BY ZenonT(60), <1>1, <1>2 DEF Passed

(* The token x on link l fits. *)
TokenFits(o, c, w, l, x) ==
    /\ IsPrepare(x, c) => PrepareFits(o, w, l, x)
    /\ IsAck(x, c) => AckFits(o, w, l, x)
    /\ IsStateOf(x, c) => StateFits(o, w, l, x)

(* And so do the releases of n. *)
ReleasesFit(n, c, w, l, x) ==
    /\ \A j \in Link, p \in Packet : At(n, j, p) /\ IsRelease(p, c) =>
          /\ w.stage[p.dst] = "CONN_STATE"
          /\ j = Down(p.dst) \/ (j = Up(p.src) /\ p.src \in w.held /\ j = l /\ IsPrepare(x, c))
          /\ IsStateOf(x, c) => x.src # p.dst
    /\ \A u \in Server : w.stage[u] = "CONN_STATE" =>
          \/ \E j \in Link, p \in Packet : At(n, j, p) /\ IsRelease(p, c) /\ p.dst = u
          \/ IsStateOf(x, c) /\ x.src = u

(* The protocol holds when x is the only token, and fits. *)
LEMMA TokenProtocol ==
    ASSUME NEW n, NEW r, NEW o, NEW c \in Client, NEW w, InOrder(r, o, c),
           NEW l \in Link, NEW x \in Packet, OnlyToken(n, r, c, l, x),
           TokenFits(o, c, w, l, x), ReleasesFit(n, c, w, l, x)
    PROVE  Protocol(r, o, c, w)
<1>1. ASSUME NEW j \in Link, NEW m \in Packet, At(r, j, m), IsToken(m, c)
      PROVE  /\ IsPrepare(m, c) => PrepareFits(o, w, j, m)
             /\ IsAck(m, c) => AckFits(o, w, j, m)
             /\ IsStateOf(m, c) => StateFits(o, w, j, m)
  BY ZenonT(60), <1>1 DEF OnlyToken, TokenFits
<1>2. ASSUME NEW j \in Link, NEW m \in Packet, At(r, j, m), IsRelease(m, c)
      PROVE  ReleaseFits(r, c, w, j, m)
  <2>1. At(n, j, m)
    BY ZenonT(60), <1>2 DEF OnlyToken
  <2>2. \A k \in Link, p \in Packet : At(r, k, p) /\ IsStateOf(p, c) => p = x /\ IsStateOf(x, c)
    BY ZenonT(60), PacketKinds DEF OnlyToken
  <2>3. \A k \in Link, p \in Packet : At(r, k, p) /\ IsToken(p, c) => k = l /\ p = x
    BY ZenonT(60) DEF OnlyToken
  <2> QED
    BY ZenonT(60), <1>2, <2>1, <2>2, <2>3 DEF ReleaseFits, ReleasesFit
<1>3. ASSUME NEW u \in Server, w.stage[u] = "CONN_STATE"
      PROVE  Releases(r, c, u)
  BY ZenonT(60), <1>3 DEF OnlyToken, Releases, ReleasesFit
<1>4. ~NoToken(r, c)
  BY ZenonT(60) DEF OnlyToken, NoToken
<1>5. \A m \in Packet : IsPrepare(m, c) \/ IsAck(m, c) \/ IsStateOf(m, c) => IsToken(m, c)
  BY ZenonT(60), PacketKinds
<1> QED
  BY ZenonT(120), <1>1, <1>2, <1>3, <1>4, <1>5 DEF Protocol

(* Initiating a migration. *)
LEMMA Initiated ==
    ASSUME NEW n \in Nets, NEW o \in Server, NEW c \in Client, NEW v \in Views, NEW w \in Views,
           Protocol(n, o, c, v), Single(n, c, v),
           NEW s \in Server, s \in v.held, s \notin v.origins, v.stage[s] = "None",
           SameBut(v, w, s), s \in w.held, s \in w.origins, w.stage[s] = "PREPARE_MIG"
    PROVE  Protocol(Added(n, Up(s), PrepareMig(s, c)), o, c, w)
<1>1. NoToken(n, c) /\ o = s
  BY ZenonT(60), HolderAtRest
<1> DEFINE x == PrepareMig(s, c)
<1>2. x \in Packet /\ IsPrepare(x, c) /\ x.src = s /\ IsToken(x, c)
  BY DEF PrepareMig, Packet, IsPrepare, IsToken
<1> HIDE DEF x
<1>0. PICK l \in Link : l = Up(s)
  BY LinkFacts
<1>3. PICK r : l = Up(s) /\ r = Added(n, l, x)
  BY <1>0
<1>4. InOrder(r, o, c) /\ OnlyToken(n, r, c, l, x)
  BY ZenonT(60), <1>1, <1>2, <1>3, TokenSent DEF Protocol
<1>5. TokenFits(o, c, w, l, x) /\ ~IsStateOf(x, c)
  <2>1. \A u \in Server : u # s => Settled(w, u)
    BY ZenonT(60), <1>1 DEF Protocol, AtRest, SameBut, SameAt, Settled
  <2> QED
    BY ZenonT(60), <1>1, <1>2, <1>3, <2>1, PacketKinds DEF PrepareFits, TokenFits
<1>6. ASSUME NEW j \in Link, NEW p \in Packet, At(n, j, p), IsRelease(p, c)
      PROVE  /\ w.stage[p.dst] = "CONN_STATE"
             /\ j = Down(p.dst) \/ (j = Up(p.src) /\ p.src \in w.held /\ j = l /\ IsPrepare(x, c))
             /\ IsStateOf(x, c) => x.src # p.dst
  <2>1. ReleaseFits(n, c, v, j, p) /\ p.dst \in Server /\ p.src \in Server
    BY ZenonT(60), <1>6, PacketKinds DEF Protocol
  <2>2. p.dst # s /\ w.stage[p.dst] = "CONN_STATE"
    BY <2>1 DEF ReleaseFits, SameBut, SameAt
  <2>3. p.src \in v.held => p.src = s
    BY ZenonT(60) DEF Single
  <2> QED
    BY ZenonT(60), <1>2, <1>3, <1>5, <2>1, <2>2, <2>3 DEF ReleaseFits
<1>7. ASSUME NEW u \in Server, w.stage[u] = "CONN_STATE"
      PROVE  \/ \E j \in Link, p \in Packet : At(n, j, p) /\ IsRelease(p, c) /\ p.dst = u
             \/ IsStateOf(x, c) /\ x.src = u
  <2>1. v.stage[u] = "CONN_STATE"
    BY ZenonT(60), <1>7 DEF SameBut, SameAt
  <2> QED
    BY ZenonT(60), <1>1, <2>1, PacketKinds DEF Protocol, Releases, NoToken
<1>8. ReleasesFit(n, c, w, l, x)
  BY ZenonT(60), <1>6, <1>7 DEF ReleasesFit
<1>9. Protocol(r, o, c, w)
  BY ZenonT(60), <1>2, <1>4, <1>5, <1>8, TokenProtocol
<1> QED
  BY <1>3, <1>9 DEF x

(* Who waits for a release still does, and the sender of x besides. *)
StagesFit(c, v, w, h, x) ==
    /\ \A u \in Server : v.stage[u] = "CONN_STATE" => w.stage[u] = "CONN_STATE"
    /\ \A u \in Server : w.stage[u] = "CONN_STATE" =>
          v.stage[u] = "CONN_STATE" \/ (IsStateOf(x, c) /\ x.src = u)
    /\ IsStateOf(h, c) => IsStateOf(x, c) /\ x.src = h.src
    /\ IsStateOf(x, c) => v.stage[x.src] # "CONN_STATE" \/ (IsStateOf(h, c) /\ x.src = h.src)

(* The token h at the head of link k is taken, and x sent on link l. *)
LEMMA MovedProtocol ==
    ASSUME NEW n \in Nets, NEW o, NEW c \in Client, NEW v, Protocol(n, o, c, v),
           NEW k \in Link, NEW h, IsHead(n, k, h), IsToken(h, c),
           NEW l \in Link, NEW x \in Packet, IsToken(x, c),
           NEW new, NEW w, InOrder(Added(Removed(n, k, 1), l, x), new, c), TokenFits(new, c, w, l, x),
           StagesFit(c, v, w, h, x)
    PROVE  Protocol(Added(Removed(n, k, 1), l, x), new, c, w)
<1>1. PICK r : r = Added(Removed(n, k, 1), l, x)
  OBVIOUS
<1>2. h \in Packet
  <2>1. n[k] \in Seq(Packet)
    BY DEF Nets
  <2> QED
    BY <2>1 DEF IsHead
<1>3. /\ OnlyToken(n, n, c, k, h)
      /\ OnlyToken(n, r, c, l, x)
      /\ ClearAhead(n, c, k, h)
  BY ZenonT(60), <1>1, TokenMoved DEF Protocol
<1>4. Passed(n, c, v, h)
  BY ZenonT(60), <1>2, <1>3, ReleasesPassed
<1>6. ASSUME NEW j \in Link, NEW p \in Packet, At(n, j, p), IsRelease(p, c)
      PROVE  w.stage[p.dst] = "CONN_STATE" /\ j = Down(p.dst) /\ (IsStateOf(x, c) => x.src # p.dst)
  <2>1. p.dst \in Server
    BY ZenonT(60), <1>6, PacketKinds
  <2>2. v.stage[p.dst] = "CONN_STATE" /\ j = Down(p.dst) /\ (IsStateOf(h, c) => h.src # p.dst)
    BY ZenonT(60), <1>4, <1>6 DEF Passed
  <2> QED
    BY ZenonT(60), <2>1, <2>2 DEF StagesFit
<1>7. ReleasesFit(n, c, w, l, x)
  BY ZenonT(60), <1>4, <1>6 DEF ReleasesFit, Passed, StagesFit
<1>8. Protocol(r, new, c, w)
  BY ZenonT(60), <1>1, <1>3, <1>7, TokenProtocol
<1> QED
  BY ZenonT(60), <1>1, <1>8

(* A PREPARE_MIG reaches a server: it is the owner's, which still holds    *)
(* the connection, and only the owner can have a migration of it then: a   *)
(* former origin has received its CONN_STATE_ACK before.                   *)
LEMMA PrepareArrives ==
    ASSUME NEW n \in Nets, NEW o \in Server, NEW c \in Client, NEW v \in Views,
           Protocol(n, o, c, v), Single(n, c, v),
           NEW s \in Server, NEW h \in Packet, IsHead(n, Down(s), h), IsPrepare(h, c)
    PROVE  /\ h.src = o /\ o \in v.origins /\ v.stage[o] = "PREPARE_MIG"
           /\ \A u \in Server : u # o => Settled(v, u)
           /\ v.stage[s] # "None" => s = o
<1>1. PICK k \in Link : k = Down(s)
  BY LinkFacts
<1>2. At(n, k, h) /\ IsToken(h, c) /\ ~IsStateOf(h, c) /\ IsHead(n, k, h)
  <2>1. At(n, k, h)
    BY <1>1 DEF At, IsHead
  <2> QED
    BY ZenonT(60), <1>1, <2>1, PacketKinds
<1>3. PrepareFits(o, v, k, h)
  BY ZenonT(60), <1>2 DEF Protocol
<1>4. /\ h.src = o /\ o \in v.origins /\ v.stage[o] = "PREPARE_MIG"
      /\ \A u \in Server : u # o => Settled(v, u)
  BY ZenonT(60), <1>3 DEF PrepareFits, Single
<1>5. OnlyToken(n, n, c, k, h) /\ ClearAhead(n, c, k, h)
  BY ZenonT(60), <1>2, TokenMoved DEF Protocol
<1>6. Passed(n, c, v, h)
  BY ZenonT(60), <1>2, <1>5, ReleasesPassed
<1>7. ASSUME v.stage[s] # "None", s # o
      PROVE  FALSE
  <2>1. v.stage[s] = "CONN_STATE"
    BY <1>4, <1>7 DEF Settled
  <2>2. PICK l \in Link, m \in Packet : At(n, l, m) /\ IsRelease(m, c) /\ m.dst = s
    BY ZenonT(60), <1>2, <1>6, <2>1 DEF Passed
  <2>3. l = Down(s)
    BY ZenonT(60), <1>6, <2>2 DEF Passed
  <2> QED
    BY ZenonT(60), <1>1, <1>5, <2>2, <2>3 DEF ClearAhead
<1> QED
  BY ZenonT(60), <1>4, <1>7

(* PREPARE_MIG at a server without a migration: it becomes the target. *)
LEMMA PrepareTaken ==
    ASSUME NEW n \in Nets, NEW o \in Server, NEW c \in Client, NEW v \in Views, NEW w \in Views,
           Protocol(n, o, c, v), Single(n, c, v),
           NEW s \in Server, NEW h \in Packet, IsHead(n, Down(s), h), IsPrepare(h, c),
           v.stage[s] = "None", SameBut(v, w, s), w.stage[s] = "PREPARE_MIG_ACK"
    PROVE  Protocol(Added(Removed(n, Down(s), 1), Up(s), PrepareMigAck(s, c, h.src)), o, c, w)
<1> DEFINE x == PrepareMigAck(s, c, h.src)
<1>1. /\ h.src = o /\ o \in v.origins /\ v.stage[o] = "PREPARE_MIG"
      /\ \A u \in Server : u # o => Settled(v, u)
  BY SMTT(120), PrepareArrives
<1>2. x \in Packet /\ IsAck(x, c) /\ IsToken(x, c) /\ x.src = s /\ x.dst = o
  BY ZenonT(60), <1>1 DEF PrepareMigAck, Packet, IsAck, IsToken
<1> HIDE DEF x
<1>3. PICK k \in Link, l \in Link : k = Down(s) /\ l = Up(s)
  BY LinkFacts
<1>4. IsToken(h, c) /\ ~IsStateOf(h, c) /\ ~IsStateOf(x, c) /\ ~IsPrepare(x, c)
  BY ZenonT(60), <1>2, PacketKinds
<1>5. InOrder(Added(Removed(n, k, 1), l, x), o, c)
  BY ZenonT(60), <1>2, <1>3, <1>4, TokenMoved DEF Protocol
<1>6. o # s /\ \A u \in Server : u # s => w.stage[u] = v.stage[u] /\ (u \in v.origins => u \in w.origins)
  BY ZenonT(60), <1>1 DEF SameBut, SameAt
<1>7. TokenFits(o, c, w, l, x)
  <2>1. \A u \in Server : u # x.src /\ u # x.dst => Settled(w, u)
    BY ZenonT(60), <1>1, <1>2, <1>6 DEF Settled
  <2> QED
    BY ZenonT(60), <1>1, <1>2, <1>3, <1>4, <1>6, <2>1 DEF TokenFits, AckFits
<1>8. StagesFit(c, v, w, h, x)
  <2>1. \A u \in Server : w.stage[u] = "CONN_STATE" <=> v.stage[u] = "CONN_STATE"
    BY ZenonT(60), <1>6
  <2> QED
    BY ZenonT(60), <1>4, <2>1 DEF StagesFit
<1>9. Protocol(Added(Removed(n, k, 1), l, x), o, c, w)
  BY ZenonT(60), <1>2, <1>3, <1>4, <1>5, <1>7, <1>8, MovedProtocol
<1> QED
  BY <1>3, <1>9 DEF x

(* PREPARE_MIG returned to its origin, which asks again. *)
LEMMA PrepareReturned ==
    ASSUME NEW n \in Nets, NEW o \in Server, NEW c \in Client, NEW v \in Views, NEW w \in Views,
           Protocol(n, o, c, v), Single(n, c, v),
           NEW s \in Server, NEW h \in Packet, IsHead(n, Down(s), h), IsPrepare(h, c),
           v.stage[s] # "None", SameBut(v, w, s), w.stage[s] = "PREPARE_MIG", s \in w.origins
    PROVE  Protocol(Added(Removed(n, Down(s), 1), Up(s), PrepareMig(s, c)), o, c, w)
<1> DEFINE x == PrepareMig(s, c)
<1>1. /\ h.src = o /\ o = s /\ v.stage[o] = "PREPARE_MIG"
      /\ \A u \in Server : u # o => Settled(v, u)
  BY SMTT(120), PrepareArrives
<1>2. x \in Packet /\ IsPrepare(x, c) /\ IsToken(x, c) /\ x.src = s
  BY DEF PrepareMig, Packet, IsPrepare, IsToken
<1> HIDE DEF x
<1>3. PICK k \in Link, l \in Link : k = Down(s) /\ l = Up(s)
  BY LinkFacts
<1>4. IsToken(h, c) /\ ~IsStateOf(h, c) /\ ~IsStateOf(x, c) /\ ~IsAck(x, c)
  BY ZenonT(60), <1>2, PacketKinds
<1>5. InOrder(Added(Removed(n, k, 1), l, x), o, c)
  BY ZenonT(60), <1>2, <1>3, <1>4, TokenMoved DEF Protocol
<1>6. \A u \in Server : w.stage[u] = v.stage[u]
  BY ZenonT(60), <1>1 DEF SameBut, SameAt
<1>7. TokenFits(o, c, w, l, x)
  <2>1. \A u \in Server : u # o => Settled(w, u)
    BY ZenonT(60), <1>1, <1>6 DEF Settled
  <2> QED
    BY ZenonT(60), <1>1, <1>2, <1>3, <1>4, <2>1 DEF TokenFits, PrepareFits
<1>8. StagesFit(c, v, w, h, x)
  <2>1. \A u \in Server : w.stage[u] = "CONN_STATE" <=> v.stage[u] = "CONN_STATE"
    BY ZenonT(60), <1>6
  <2> QED
    BY ZenonT(60), <1>4, <2>1 DEF StagesFit
<1>9. Protocol(Added(Removed(n, k, 1), l, x), o, c, w)
  BY ZenonT(60), <1>2, <1>3, <1>4, <1>5, <1>7, <1>8, MovedProtocol
<1> QED
  BY ZenonT(60), <1>3, <1>9 DEF x

(* A PREPARE_MIG_ACK reaches the origin it is for. *)
LEMMA AckArrives ==
    ASSUME NEW n \in Nets, NEW o \in Server, NEW c \in Client, NEW v \in Views, Protocol(n, o, c, v),
           NEW s \in Server, NEW h \in Packet, IsHead(n, Down(s), h), IsAck(h, c)
    PROVE  /\ h.dst = s /\ h.src = o /\ s \in v.origins /\ v.stage[o] = "PREPARE_MIG_ACK"
           /\ \A u \in Server : u # o /\ u # s => Settled(v, u)
<1>1. PICK k \in Link : k = Down(s)
  BY LinkFacts
<1>2. At(n, k, h)
  BY <1>1 DEF At, IsHead
<1>3. AckFits(o, v, k, h) /\ h.src \in Server /\ h.dst \in Server
  BY ZenonT(60), <1>2, PacketKinds DEF Protocol
<1>4. k # Up(h.src) /\ (k = Down(h.dst) => h.dst = s)
  BY ZenonT(60), <1>1, <1>3, LinkNames
<1> QED
  BY ZenonT(60), <1>3, <1>4 DEF AckFits

(* The origin sends the state to the server that acknowledged. *)
LEMMA AckTaken ==
    ASSUME NEW n \in Nets, NEW o \in Server, NEW c \in Client, NEW v \in Views, NEW w \in Views,
           Protocol(n, o, c, v), Single(n, c, v),
           NEW s \in Server, NEW h \in Packet, IsHead(n, Down(s), h), IsAck(h, c),
           SameBut(v, w, s), w.stage[s] = "CONN_STATE",
           NEW x \in Packet, IsStateOf(x, c), x.src = s, x.dst = h.src
    PROVE  Protocol(Added(Removed(n, Down(s), 1), Up(s), x), o, c, w)
<1>1. /\ h.src = o /\ s \in v.origins /\ v.stage[s] = "PREPARE_MIG" /\ v.stage[o] = "PREPARE_MIG_ACK"
      /\ \A u \in Server : u # o /\ u # s => Settled(v, u)
  BY SMTT(120), AckArrives DEF Single
<1>3. PICK k \in Link, l \in Link : k = Down(s) /\ l = Up(s)
  BY LinkFacts
<1>4. IsToken(h, c) /\ IsToken(x, c) /\ ~IsStateOf(h, c) /\ ~IsPrepare(x, c) /\ ~IsAck(x, c)
  BY ZenonT(60), PacketKinds
<1>5. InOrder(Added(Removed(n, k, 1), l, x), o, c)
  BY ZenonT(60), <1>3, <1>4, TokenMoved DEF Protocol
<1>6. o # s /\ \A u \in Server : u # s => w.stage[u] = v.stage[u]
  BY <1>1 DEF SameBut, SameAt
<1>7. TokenFits(o, c, w, l, x)
  <2>1. \A u \in Server : u # o => Settled(w, u)
    BY ZenonT(60), <1>1, <1>6 DEF Settled
  <2> QED
    BY ZenonT(60), <1>1, <1>3, <1>4, <1>6, <2>1 DEF TokenFits, StateFits
<1>8. StagesFit(c, v, w, h, x)
  <2>1. /\ \A u \in Server : v.stage[u] = "CONN_STATE" => w.stage[u] = "CONN_STATE"
        /\ \A u \in Server : w.stage[u] = "CONN_STATE" => v.stage[u] = "CONN_STATE" \/ x.src = u
        /\ v.stage[x.src] # "CONN_STATE"
    BY <1>1, <1>6
  <2> QED
    BY ZenonT(60), <1>4, <2>1 DEF StagesFit
<1>9. Protocol(Added(Removed(n, k, 1), l, x), o, c, w)
  BY ZenonT(60), <1>3, <1>4, <1>5, <1>7, <1>8, MovedProtocol
<1> QED
  BY ZenonT(60), <1>3, <1>9

(* A CONN_STATE reaches the server that the switch routes to. *)
LEMMA StateArrives ==
    ASSUME NEW n \in Nets, NEW o \in Server, NEW c \in Client, NEW v \in Views, Protocol(n, o, c, v),
           NEW s \in Server, NEW h \in Packet, IsHead(n, Down(s), h), IsStateOf(h, c)
    PROVE  /\ h.dst = s /\ o = s /\ h.src # s /\ v.stage[s] = "PREPARE_MIG_ACK"
           /\ v.stage[h.src] = "CONN_STATE"
           /\ \A u \in Server : u # s => Settled(v, u)
<1>1. PICK k \in Link : k = Down(s)
  BY LinkFacts
<1>2. At(n, k, h)
  BY ZenonT(60), <1>1 DEF At, IsHead
<1>3. StateFits(o, v, k, h) /\ h.src \in Server /\ h.dst \in Server
  BY ZenonT(60), <1>2, PacketKinds DEF Protocol
<1>4. k # Up(h.src) /\ (k = Down(h.dst) => h.dst = s)
  BY <1>1, <1>3, LinkNames
<1>5. v.stage[o] = "PREPARE_MIG_ACK" /\ v.stage[h.src] = "CONN_STATE"
  BY ZenonT(60), <1>3 DEF StateFits
<1>6. o = s /\ h.dst = s
  BY ZenonT(60), <1>3, <1>4 DEF StateFits
<1>7. h.src # s
  BY ZenonT(60), <1>5, <1>6
<1> QED
  BY ZenonT(60), <1>3, <1>5, <1>6, <1>7 DEF StateFits

(* The target queues the state for accept, and releases the origin. *)
LEMMA StateTaken ==
    ASSUME NEW n \in Nets, NEW o \in Server, NEW c \in Client, NEW v \in Views, NEW w \in Views,
           Protocol(n, o, c, v),
           NEW s \in Server, NEW h \in Packet, IsHead(n, Down(s), h), IsStateOf(h, c),
           SameBut(v, w, s), w.stage[s] = "CONN_STATE_ACK", s \in w.held, s \in w.waiting,
           NEW x \in Packet, IsRelease(x, c), x.src = s, x.dst = h.src
    PROVE  Protocol(Added(Removed(n, Down(s), 1), Up(s), x), o, c, w)
<1>1. /\ o = s /\ h.src # s /\ v.stage[s] = "PREPARE_MIG_ACK" /\ v.stage[h.src] = "CONN_STATE"
      /\ \A u \in Server : u # s => Settled(v, u)
  BY SMTT(120), StateArrives
<1>2. PICK k \in Link, l \in Link : k = Down(s) /\ l = Up(s)
  BY ZenonT(60), LinkFacts
<1>3. PICK e, r : e = Removed(n, k, 1) /\ r = Added(e, l, x)
  OBVIOUS
<1>4. IsToken(h, c) /\ ~IsRelease(h, c) /\ ~IsPrepare(h, c) /\ h.src \in Server
      /\ ~IsToken(x, c) /\ ~IsSegment(x, c)
  BY ZenonT(60), PacketKinds
<1>5. /\ e \in Nets /\ At(n, k, h) /\ InOrder(e, o, c)
      /\ \A j \in Link, m \in Packet : At(e, j, m) => At(n, j, m)
      /\ \A j \in Link, m \in Packet : At(n, j, m) => At(e, j, m) \/ (j = k /\ m = h)
      /\ NoToken(e, c)
  <2>1. IsHead(n, k, h) /\ InOrder(n, o, c)
    BY ZenonT(60), <1>2 DEF Protocol
  <2>2. Taken(n, k, h, e, o, c)
    BY ZenonT(60), <1>3, <2>1, HeadIsTaken
  <2> QED
    BY ZenonT(60), <1>4, <2>2 DEF Taken
<1>6. Passed(n, c, v, h)
  <2>1. OnlyToken(n, n, c, k, h)
    BY ZenonT(60), <1>4, <1>5 DEF OnlyToken, NoToken
  <2>2. ClearAhead(n, c, k, h)
    BY ZenonT(60), <1>4 DEF ClearAhead
  <2> QED
    BY ZenonT(60), <2>1, <2>2, ReleasesPassed
<1>7. /\ InOrder(r, o, c)
      /\ \A j \in Link, p \in Packet : At(r, j, p) <=> At(e, j, p) \/ (j = l /\ p = x)
  <2>1. \A p \in Packet : At(e, l, p) => ~IsPrepare(p, c)
    BY ZenonT(60), <1>5, PacketKinds DEF NoToken
  <2>2. \A j \in Link, p \in Packet : At(e, j, p) /\ IsRelease(p, c) => p.dst # x.dst
    BY ZenonT(60), <1>5, <1>6 DEF Passed
  <2>3. MaySend(e, o, c, l, x)
    BY ZenonT(60), <1>4, <2>1, <2>2 DEF MaySend
  <2>4. Sent(e, l, x, r, o, c)
    BY ZenonT(60), <1>3, <1>5, <2>3, PacketIsSent
  <2> QED
    BY ZenonT(60), <2>4 DEF Sent
<1>8. NoToken(r, c)
  BY ZenonT(60), <1>4, <1>5, <1>7 DEF NoToken
<1>9. \A u \in Server : u # s => w.stage[u] = v.stage[u]
  BY ZenonT(60) DEF SameBut, SameAt
<1>10. ASSUME NEW j \in Link, NEW m \in Packet, At(r, j, m), IsRelease(m, c)
       PROVE  ReleaseFits(r, c, w, j, m)
  <2>1. w.stage[m.dst] = "CONN_STATE" /\ (j = Down(m.dst) \/ (j = Up(m.src) /\ m.src \in w.held))
    <3>1. CASE At(e, j, m)
      <4>1. v.stage[m.dst] = "CONN_STATE" /\ j = Down(m.dst) /\ m.dst \in Server
        BY ZenonT(60), <1>5, <1>6, <1>10, <3>1, PacketKinds DEF Passed
      <4> QED
        BY <1>1, <1>9, <4>1
    <3>2. CASE j = l /\ m = x
      BY ZenonT(60), <1>1, <1>2, <1>4, <1>9, <3>2
    <3> QED
      BY ZenonT(60), <1>7, <1>10, <3>1, <3>2
  <2>2. \A i \in Link, p \in Packet : At(r, i, p) => ~IsToken(p, c) /\ ~IsStateOf(p, c)
    BY ZenonT(60), <1>8, PacketKinds DEF NoToken
  <2> QED
    BY ZenonT(60), <2>1, <2>2 DEF ReleaseFits
<1>11. ASSUME NEW u \in Server, w.stage[u] = "CONN_STATE"
       PROVE  Releases(r, c, u)
  <2>1. v.stage[u] = "CONN_STATE"
    BY <1>9, <1>11
  <2>2. CASE h.src = u
    BY ZenonT(60), <1>2, <1>7, <2>2 DEF Releases
  <2>3. CASE \E j \in Link, m \in Packet : At(n, j, m) /\ IsRelease(m, c) /\ m.dst = u
    BY ZenonT(60), <1>4, <1>5, <1>7, <2>3 DEF Releases
  <2> QED
    BY ZenonT(60), <1>6, <2>1, <2>2, <2>3 DEF Passed
<1>12. AtRest(o, w)
  <2>1. \A u \in Server : u # s => Settled(w, u)
    BY ZenonT(60), <1>1, <1>9 DEF Settled
  <2> QED
    BY ZenonT(60), <1>1, <2>1 DEF AtRest
<1>13. \A j \in Link, m \in Packet : At(r, j, m) => ~IsPrepare(m, c) /\ ~IsAck(m, c) /\ ~IsStateOf(m, c)
  BY ZenonT(60), <1>8, PacketKinds DEF NoToken
<1>14. Protocol(r, o, c, w)
  BY ZenonT(60), <1>7, <1>10, <1>11, <1>12, <1>13 DEF Protocol
<1> QED
  BY ZenonT(60), <1>2, <1>3, <1>14

(* The packets of a migration are the same in n and in r. *)
SameControl(n, r, c) ==
    \A l \in Link, m \in Packet : IsToken(m, c) \/ IsRelease(m, c) => (At(r, l, m) <=> At(n, l, m))

(* A step that concerns no migration of c. *)
LEMMA ProtocolFrame ==
    ASSUME NEW n, NEW r, NEW o, NEW c \in Client, NEW v,
           Protocol(n, o, c, v), InOrder(r, o, c), SameControl(n, r, c)
    PROVE  Protocol(r, o, c, v)
<1>1. \A m \in Packet : IsPrepare(m, c) \/ IsAck(m, c) \/ IsStateOf(m, c) <=> IsToken(m, c)
  BY ZenonT(60), PacketKinds
<1>2. ASSUME NEW l \in Link, NEW m \in Packet, At(r, l, m)
      PROVE  /\ IsPrepare(m, c) => PrepareFits(o, v, l, m)
             /\ IsAck(m, c) => AckFits(o, v, l, m)
             /\ IsStateOf(m, c) => StateFits(o, v, l, m)
  <2>1. IsToken(m, c) => At(n, l, m)
    BY ZenonT(60), <1>2 DEF SameControl
  <2> QED
    BY ZenonT(60), <1>1, <2>1 DEF Protocol
<1>3. ASSUME NEW l \in Link, NEW m \in Packet, At(r, l, m), IsRelease(m, c)
      PROVE  ReleaseFits(r, c, v, l, m)
  <2>1. ReleaseFits(n, c, v, l, m)
    BY ZenonT(60), <1>3 DEF SameControl, Protocol
  <2>2. \A k \in Link, p \in Packet : At(r, k, p) /\ IsToken(p, c) => At(n, k, p)
    BY ZenonT(60) DEF SameControl
  <2> QED
    BY ZenonT(60), <1>1, <2>1, <2>2 DEF ReleaseFits
<1>4. NoToken(r, c) => AtRest(o, v)
  BY ZenonT(60) DEF Protocol, SameControl, NoToken
<1>5. ASSUME NEW u \in Server, v.stage[u] = "CONN_STATE"
      PROVE  Releases(r, c, u)
  <2>1. PICK l \in Link, m \in Packet : At(n, l, m) /\ \/ IsRelease(m, c) /\ m.dst = u
                                                       \/ IsStateOf(m, c) /\ m.src = u
    BY ZenonT(60), <1>5 DEF Protocol, Releases
  <2>2. At(r, l, m)
    BY ZenonT(60), <1>1, <2>1 DEF SameControl
  <2> QED
    BY ZenonT(60), <2>1, <2>2 DEF Releases
<1> QED
  BY ZenonT(60), <1>2, <1>3, <1>4, <1>5 DEF Protocol

(* accept: the owner, where the connection waited, is at rest. *)
LEMMA AcceptedProtocol ==
    ASSUME NEW n \in Nets, NEW o \in Server, NEW c \in Client, NEW v \in Views, NEW w \in Views,
           Protocol(n, o, c, v), Single(n, c, v),
           NEW s \in Server, s \in v.waiting,
           SameBut(v, w, s), w.stage[s] = "None", s \in w.held
    PROVE  Protocol(n, o, c, w)
<1>1. s \in v.held /\ s \notin v.origins
  BY ZenonT(60) DEF Single
<1>2. NoToken(n, c) /\ o = s
  BY ZenonT(60), <1>1, HolderAtRest
<1>3. v.stage[s] # "CONN_STATE" /\ \A u \in Server : u # s => Settled(v, u)
  <2>1. AtRest(s, v)
    BY ZenonT(60), <1>2 DEF Protocol
  <2>2. v.stage[s] = "None" \/ v.stage[s] = "CONN_STATE_ACK"
    BY ZenonT(60), <2>1 DEF AtRest
  <2> QED
    BY <2>1, <2>2 DEF AtRest
<1>4. \A u \in Server : u # s => w.stage[u] = v.stage[u]
  BY ZenonT(60) DEF SameBut, SameAt
<1>5. AtRest(o, w)
  <2>1. \A u \in Server : u # s => Settled(w, u)
    BY ZenonT(60), <1>3, <1>4 DEF Settled
  <2> QED
    BY ZenonT(60), <1>2, <2>1 DEF AtRest
<1>6. ASSUME NEW l \in Link, NEW m \in Packet, At(n, l, m), IsRelease(m, c)
      PROVE  ReleaseFits(n, c, w, l, m)
  <2>1. ReleaseFits(n, c, v, l, m) /\ m.dst \in Server
    BY ZenonT(60), <1>6, PacketKinds DEF Protocol
  <2>2. w.stage[m.dst] = "CONN_STATE"
    BY <1>3, <1>4, <2>1 DEF ReleaseFits
  <2>3. m.src \in v.held => m.src \in w.held
    BY ZenonT(60), <1>1 DEF Single
  <2> QED
    BY ZenonT(60), <2>1, <2>2, <2>3 DEF ReleaseFits
<1>7. \A u \in Server : w.stage[u] = "CONN_STATE" => v.stage[u] = "CONN_STATE"
  BY <1>4
<1>8. \A l \in Link, m \in Packet : At(n, l, m) => ~IsPrepare(m, c) /\ ~IsAck(m, c) /\ ~IsStateOf(m, c)
  BY ZenonT(60), <1>2, PacketKinds DEF NoToken
<1> QED
  BY ZenonT(60), <1>5, <1>6, <1>7, <1>8 DEF Protocol

(* A CONN_STATE_ACK reaches the origin it is for. *)
LEMMA ReleaseArrives ==
    ASSUME NEW n \in Nets, NEW o \in Server, NEW c \in Client, NEW v \in Views, Protocol(n, o, c, v),
           NEW s \in Server, NEW h \in Packet, IsHead(n, Down(s), h), IsRelease(h, c)
    PROVE  /\ h.dst = s /\ v.stage[s] = "CONN_STATE"
           /\ \A l \in Link, m \in Packet : At(n, l, m) /\ IsStateOf(m, c) => m.src # s
<1>1. PICK k \in Link : k = Down(s)
  BY ZenonT(60), LinkFacts
<1>2. At(n, k, h)
  BY <1>1 DEF At, IsHead
<1>3. ReleaseFits(n, c, v, k, h) /\ h.src \in Server /\ h.dst \in Server
  BY ZenonT(60), <1>2, PacketKinds DEF Protocol
<1>4. k # Up(h.src) /\ (k = Down(h.dst) => h.dst = s)
  BY ZenonT(60), <1>1, <1>3, LinkNames
<1> QED
  BY ZenonT(60), <1>3, <1>4 DEF ReleaseFits

(* The origin forgets the migration. *)
LEMMA ReleaseTaken ==
    ASSUME NEW n \in Nets, NEW o \in Server, NEW c \in Client, NEW v \in Views, NEW w \in Views,
           Protocol(n, o, c, v), Single(n, c, v),
           NEW s \in Server, NEW h \in Packet, IsHead(n, Down(s), h), IsRelease(h, c),
           SameBut(v, w, s), w.stage[s] = "None", w.held = v.held
    PROVE  Protocol(Removed(n, Down(s), 1), o, c, w)
<1>1. h.dst = s
  BY SMTT(120), ReleaseArrives
<1>2. v.stage[s] = "CONN_STATE"
  BY SMTT(120), ReleaseArrives
<1>3. \A l \in Link, m \in Packet : At(n, l, m) /\ IsStateOf(m, c) => m.src # s
  BY ZenonT(60), ReleaseArrives
<1>0. PICK k \in Link : k = Down(s)
  BY LinkFacts
<1>4. PICK e : k = Down(s) /\ e = Removed(n, k, 1)
  BY <1>0
<1>5. Taken(n, k, h, e, o, c)
  BY ZenonT(60), <1>4, HeadIsTaken DEF Protocol
<1>6. ~IsToken(h, c) /\ ~IsStateOf(h, c)
  BY ZenonT(60), PacketKinds
<1>7. \A u \in Server : u # s => w.stage[u] = v.stage[u] /\ (u \in v.origins => u \in w.origins)
                                 /\ (u \in v.waiting => u \in w.waiting)
  BY ZenonT(60) DEF SameBut, SameAt
<1>8. \A u \in Server : Settled(v, u) => Settled(w, u)
  BY <1>7 DEF Settled
<1>9. ASSUME NEW l \in Link, NEW m \in Packet, At(e, l, m)
      PROVE  /\ IsPrepare(m, c) => PrepareFits(o, w, l, m)
             /\ IsAck(m, c) => AckFits(o, w, l, m)
             /\ IsStateOf(m, c) => StateFits(o, w, l, m)
  <2>1. At(n, l, m)
    BY ZenonT(60), <1>5, <1>9 DEF Taken
  <2>2. \A u \in v.origins : u # s
    BY <1>2 DEF Single
  <2>3. ASSUME IsPrepare(m, c)
        PROVE  PrepareFits(o, w, l, m)
    BY ZenonT(60), <1>7, <1>8, <2>1, <2>2, <2>3 DEF Protocol, PrepareFits
  <2>4. ASSUME IsAck(m, c)
        PROVE  AckFits(o, w, l, m)
    <3>1. AckFits(o, v, l, m) /\ m.src \in Server /\ m.dst \in Server
      BY ZenonT(60), <2>1, <2>4, PacketKinds DEF Protocol
    <3>2. m.src # s
      BY <1>2, <3>1 DEF AckFits
    <3> QED
      BY ZenonT(60), <1>7, <1>8, <2>2, <3>1, <3>2 DEF AckFits
  <2>5. ASSUME IsStateOf(m, c)
        PROVE  StateFits(o, w, l, m)
    <3>1. StateFits(o, v, l, m) /\ m.src \in Server
      BY ZenonT(60), <2>1, <2>5, PacketKinds DEF Protocol
    <3>2. m.src # s /\ o # s
      BY ZenonT(60), <1>2, <1>3, <2>1, <2>5, <3>1 DEF StateFits
    <3> QED
      BY ZenonT(60), <1>7, <1>8, <3>1, <3>2 DEF StateFits
  <2> QED
    BY ZenonT(60), <2>3, <2>4, <2>5
<1>10. ASSUME NEW l \in Link, NEW m \in Packet, At(e, l, m), IsRelease(m, c)
       PROVE  ReleaseFits(e, c, w, l, m)
  <2>1. At(n, l, m) /\ m.dst # s /\ m.dst \in Server
    BY ZenonT(60), <1>1, <1>5, <1>10, PacketKinds DEF Taken
  <2>2. ReleaseFits(n, c, v, l, m)
    BY ZenonT(60), <1>10, <2>1 DEF Protocol
  <2>3. \A j \in Link, p \in Packet : At(e, j, p) => At(n, j, p)
    BY ZenonT(60), <1>5 DEF Taken
  <2> QED
    BY ZenonT(60), <1>7, <2>1, <2>2, <2>3 DEF ReleaseFits
<1>11. ASSUME NoToken(e, c)
       PROVE  AtRest(o, w)
  <2>1. NoToken(n, c)
    BY ZenonT(60), <1>5, <1>6, <1>11 DEF NoToken, Taken
  <2>2. AtRest(o, v)
    BY ZenonT(60), <2>1 DEF Protocol
  <2>3. o # s
    BY <1>2, <2>2 DEF AtRest
  <2> QED
    BY ZenonT(60), <1>7, <1>8, <2>2, <2>3 DEF AtRest
<1>12. ASSUME NEW u \in Server, w.stage[u] = "CONN_STATE"
       PROVE  Releases(e, c, u)
  <2>1. u # s /\ v.stage[u] = "CONN_STATE"
    BY <1>7, <1>12
  <2>2. PICK l \in Link, m \in Packet : At(n, l, m) /\ \/ IsRelease(m, c) /\ m.dst = u
                                                       \/ IsStateOf(m, c) /\ m.src = u
    BY ZenonT(60), <2>1 DEF Protocol, Releases
  <2>3. m # h
    BY <1>1, <1>6, <2>1, <2>2
  <2> QED
    BY ZenonT(60), <1>5, <2>2, <2>3 DEF Releases, Taken
<1>13. Protocol(e, o, c, w)
  BY ZenonT(60), <1>5, <1>9, <1>10, <1>11, <1>12 DEF Protocol, Taken
<1> QED
  BY ZenonT(60), <1>4, <1>13

(* A packet the switch forwards has come from the server it names. *)
LEMMA PacketAtSwitch ==
    ASSUME NEW n \in Nets, NEW o \in Server, NEW c \in Client, NEW v \in Views, Protocol(n, o, c, v),
           NEW s \in Server, NEW h \in Packet, IsHead(n, Up(s), h)
    PROVE  /\ IsPrepare(h, c) => PrepareFits(o, v, Up(s), h)
           /\ IsAck(h, c) => AckFits(o, v, Up(s), h) /\ o = h.dst
           /\ IsStateOf(h, c) => StateFits(o, v, Up(s), h)
           /\ IsRelease(h, c) => ReleaseFits(n, c, v, Up(s), h)
                 /\ \A k \in Link, p \in Packet : At(n, k, p) /\ IsToken(p, c) => k = Up(s) /\ IsPrepare(p, c)
<1>1. PICK k \in Link : k = Up(s)
  BY LinkFacts
<1>2. At(n, k, h)
  BY <1>1 DEF At, IsHead
<1>3. IsAck(h, c) \/ IsRelease(h, c) => k # Down(h.dst)
  BY ZenonT(60), <1>1, LinkNames, PacketKinds
<1> QED
  BY ZenonT(60), <1>1, <1>2, <1>3 DEF Protocol, AckFits, ReleaseFits

(* The switch forwards a token, a PREPARE_MIG to a server of its choice;   *)
(* it takes the sender of a PREPARE_MIG_ACK as the owner.                  *)
LEMMA TokenForwarded ==
    ASSUME NEW n \in Nets, NEW o \in Server, NEW c \in Client, NEW v \in Views, Protocol(n, o, c, v),
           NEW s \in Server, NEW h \in Packet, IsHead(n, Up(s), h), IsToken(h, c),
           NEW t \in Server, ~IsPrepare(h, c) => t = h.dst
    PROVE  Protocol(Added(Removed(n, Up(s), 1), Down(t), h), IF IsAck(h, c) THEN h.src ELSE o, c, v)
<1>1. PICK new : new = IF IsAck(h, c) THEN h.src ELSE o
  OBVIOUS
<1>2. PICK k \in Link, l \in Link : k = Up(s) /\ l = Down(t)
  BY LinkFacts
<1>3. PICK e : e = Removed(n, k, 1)
  OBVIOUS
<1>4. Taken(n, k, h, e, o, c)
  BY ZenonT(60), <1>2, <1>3, HeadIsTaken DEF Protocol
<1>5. InOrder(Added(e, l, h), new, c)
  <2>1. CASE IsAck(h, c)
    <3>1. l = Down(o)
      BY ZenonT(60), <1>2, <2>1, PacketAtSwitch, PacketKinds
    <3> QED
      BY ZenonT(60), <1>4, <2>1, <3>1, AckAppended DEF Taken
  <2>2. CASE ~IsAck(h, c)
    <3>1. new = o
      BY <1>1, <2>2
    <3>2. InOrder(n, o, c) /\ IsHead(n, k, h)
      BY ZenonT(60), <1>2 DEF Protocol
    <3> QED
      BY ZenonT(60), <1>3, <3>1, <3>2, TokenMoved
  <2> QED
    BY <2>1, <2>2
<1>6. TokenFits(new, c, v, l, h)
  <2>1. CASE IsPrepare(h, c)
    <3>1. PrepareFits(o, v, Up(s), h) /\ ~IsAck(h, c) /\ ~IsStateOf(h, c)
      BY ZenonT(60), <2>1, PacketAtSwitch, PacketKinds
    <3>2. new = o
      BY <1>1, <3>1
    <3> QED
      BY ZenonT(60), <1>2, <3>1, <3>2 DEF TokenFits, PrepareFits
  <2>2. CASE IsAck(h, c)
    <3>1. AckFits(o, v, Up(s), h) /\ ~IsPrepare(h, c) /\ ~IsStateOf(h, c)
      BY ZenonT(60), <2>2, PacketAtSwitch, PacketKinds
    <3>2. new = h.src
      BY <1>1, <2>2
    <3> QED
      BY ZenonT(60), <1>2, <3>1, <3>2 DEF TokenFits, AckFits
  <2>3. CASE IsStateOf(h, c)
    <3>1. StateFits(o, v, Up(s), h) /\ ~IsPrepare(h, c) /\ ~IsAck(h, c)
      BY ZenonT(60), <2>3, PacketAtSwitch, PacketKinds
    <3>2. new = o
      BY <1>1, <3>1
    <3> QED
      BY ZenonT(60), <1>2, <3>1, <3>2 DEF TokenFits, StateFits
  <2> QED
    BY ZenonT(60), <2>1, <2>2, <2>3, PacketKinds
<1>7. StagesFit(c, v, v, h, h)
  BY ZenonT(60) DEF StagesFit
<1>8. Protocol(Added(e, l, h), new, c, v)
  BY ZenonT(60), <1>2, <1>3, <1>5, <1>6, <1>7, MovedProtocol
<1> QED
  BY ZenonT(60), <1>1, <1>2, <1>3, <1>8

(* The switch forwards a CONN_STATE_ACK. *)
LEMMA ReleaseForwarded ==
    ASSUME NEW n \in Nets, NEW o \in Server, NEW c \in Client, NEW v \in Views, Protocol(n, o, c, v),
           NEW s \in Server, NEW h \in Packet, IsHead(n, Up(s), h), IsRelease(h, c)
    PROVE  Protocol(Added(Removed(n, Up(s), 1), Down(h.dst), h), o, c, v)
<1>1. h.dst \in Server /\ ~IsToken(h, c) /\ ~IsSegment(h, c)
  BY ZenonT(60), PacketKinds
<1>2. PICK k \in Link, l \in Link : k = Up(s) /\ l = Down(h.dst)
  BY <1>1, LinkFacts
<1>3. PICK e, r : e = Removed(n, k, 1) /\ r = Added(e, l, h)
  OBVIOUS
<1>4. Taken(n, k, h, e, o, c)
  BY ZenonT(60), <1>2, <1>3, HeadIsTaken DEF Protocol
<1>5. ReleaseFits(n, c, v, k, h)
      /\ \A j \in Link, p \in Packet : At(n, j, p) /\ IsToken(p, c) => j = k
  BY ZenonT(60), <1>2, PacketAtSwitch
<1>6. Sent(e, l, h, r, o, c)
  <2>1. \A p \in Packet : At(e, l, p) => ~IsPrepare(p, c)
    BY ZenonT(60), <1>1, <1>2, <1>4, <1>5, LinkNames, PacketKinds DEF Taken
  <2>2. MaySend(e, o, c, l, h)
    BY ZenonT(60), <1>1, <1>4, <2>1 DEF MaySend, Taken
  <2> QED
    BY ZenonT(60), <1>3, <1>4, <2>2, PacketIsSent DEF Taken
<1>7. \A j \in Link, p \in Packet : IsToken(p, c) => (At(r, j, p) <=> At(n, j, p))
  BY ZenonT(60), <1>1, <1>4, <1>6 DEF Taken, Sent
<1>8. ASSUME NEW j \in Link, NEW m \in Packet, At(r, j, m)
      PROVE  /\ IsPrepare(m, c) => PrepareFits(o, v, j, m)
             /\ IsAck(m, c) => AckFits(o, v, j, m)
             /\ IsStateOf(m, c) => StateFits(o, v, j, m)
  <2>1. IsPrepare(m, c) \/ IsAck(m, c) \/ IsStateOf(m, c) => At(n, j, m)
    BY ZenonT(60), <1>7, <1>8, PacketKinds
  <2> QED
    BY ZenonT(60), <2>1 DEF Protocol
<1>9. ASSUME NEW j \in Link, NEW m \in Packet, At(r, j, m), IsRelease(m, c)
      PROVE  ReleaseFits(r, c, v, j, m)
  <2>1. \A i \in Link, p \in Packet : At(r, i, p) /\ IsToken(p, c) => At(n, i, p)
    BY ZenonT(60), <1>7
  <2>2. \A p \in Packet : IsStateOf(p, c) => IsToken(p, c)
    BY ZenonT(60), PacketKinds
  <2>3. CASE At(e, j, m)
    <3>1. ReleaseFits(n, c, v, j, m)
      BY ZenonT(60), <1>4, <1>9, <2>3 DEF Protocol, Taken
    <3> QED
      BY ZenonT(60), <2>1, <2>2, <3>1 DEF ReleaseFits
  <2>4. CASE j = l /\ m = h
    BY ZenonT(60), <1>2, <1>5, <2>1, <2>2, <2>4 DEF ReleaseFits
  <2> QED
    BY ZenonT(60), <1>6, <1>9, <2>3, <2>4 DEF Sent
<1>10. NoToken(r, c) => AtRest(o, v)
  BY ZenonT(60), <1>7 DEF NoToken, Protocol
<1>11. ASSUME NEW u \in Server, v.stage[u] = "CONN_STATE"
       PROVE  Releases(r, c, u)
  <2>1. PICK i \in Link, m \in Packet : At(n, i, m) /\ \/ IsRelease(m, c) /\ m.dst = u
                                                       \/ IsStateOf(m, c) /\ m.src = u
    BY ZenonT(60), <1>11 DEF Protocol, Releases
  <2>2. At(r, i, m) \/ At(r, l, m)
    BY ZenonT(60), <1>4, <1>6, <2>1 DEF Taken, Sent
  <2> QED
    BY ZenonT(60), <2>1, <2>2 DEF Releases
<1>12. Protocol(r, o, c, v)
  BY ZenonT(60), <1>6, <1>8, <1>9, <1>10, <1>11 DEF Protocol, Sent
<1> QED
  BY <1>2, <1>3, <1>12

=============================================================================
