------------------------------- MODULE MCInet -------------------------------
(***************************************************************************)
(* Instances, for TLC, of what is below and beside TCP in the network      *)
(* stack: ARP, UDP, ICMP, the headers, the fragments of a migrating        *)
(* connection's state, the policy that picks connections to migrate, and   *)
(* the software switch.  A behaviour is one of the component in focus.     *)
(***************************************************************************)
EXTENDS Integers, Sequences, FiniteSets, TLC

CONSTANTS None, Dropped, Broadcast, Unbound, Wild, Local, InPop, Fresh, A, B, X, q1, q2, u1, u2

VARIABLES
    focus,
    cache, lag, waiters, query, frames, arpPanicked,                          \* Arp
    table, sockets, bound, queue, length, pool, pops, sendq, sendlen, bg,     \* Udp
    known, sent, dropped, recvs, sends, udpPanicked,
    ping, requests, seq, total, replyq, resolving, echoes, pingPanicked,      \* Icmp
    phase, message, wire, flipped, got,                                       \* PacketPath
    size, stage, fragments, defrag, arrived, result, dups, lost,              \* Fragmentation
    stats, conn, made, allowance, signal, picked,                             \* MigrationPolicy
    directory, be_idx, inbound, outbound, clients, seen, switchPanicked       \* SoftSwitch

arpvars == <<cache, lag, waiters, query, frames, arpPanicked>>
udpvars == <<table, sockets, bound, queue, length, pool, pops, sendq, sendlen, bg, known, sent, dropped, recvs, sends,
             udpPanicked>>
icmpvars == <<ping, requests, seq, total, replyq, resolving, echoes, pingPanicked>>
pathvars == <<phase, message, wire, flipped, got>>
fragvars == <<size, stage, fragments, defrag, arrived, result, dups, lost>>
policyvars == <<stats, conn, made, allowance, signal, picked>>
switchvars == <<directory, be_idx, inbound, outbound, clients, seen, switchPanicked>>
vars == <<focus, arpvars, udpvars, icmpvars, pathvars, fragvars, policyvars, switchvars>>

-----------------------------------------------------------------------------
(* Two hosts that ask for each other; both are unreachable when their      *)
(* messages are lost.                                                      *)
Arp == INSTANCE Arp WITH
    Hosts <- {A, B}, Absent <- {}, Queries <- {q1, q2}, Owner <- (q1 :> A) @@ (q2 :> B),
    Target <- (q1 :> {B}) @@ (q2 :> {A}),
    RetryCount <- 1, RequestTimeout <- 1, Ttl <- 1, Disabled <- FALSE, MaxLag <- 1, MaxNet <- 2,
    OnePerAddress <- TRUE, Cancels <- TRUE,
    net <- frames, panicked <- arpPanicked

(* Two sockets that share a port or not, and a pop; and one that           *)
(* sends to two addresses while they are resolved.                         *)
UdpReceiving == INSTANCE Udp WITH
    Qds <- {q1, q2}, Pops <- {A}, Queues <- {u1, u2}, Ports <- {80, 49152}, Private <- {49152}, CorePort <- None,
    Ips <- {}, Capacity <- 2, MaxRecv <- 2, MaxSend <- 0, BindsFirst <- TRUE, Patient <- TRUE,
    lost <- dropped, panicked <- udpPanicked

UdpSending == INSTANCE Udp WITH
    Qds <- {q1}, Pops <- {}, Queues <- {u1}, Ports <- {80}, Private <- {}, CorePort <- None,
    Ips <- {A, B}, Capacity <- 2, MaxRecv <- 0, MaxSend <- 4, BindsFirst <- TRUE, Patient <- TRUE,
    lost <- dropped, panicked <- udpPanicked

(* Two pings at a time, three in all, with sequence numbers that wrap. *)
Icmp == INSTANCE Icmp WITH
    Pings <- {q1, q2}, MaxPings <- 3, Ids <- {1, 2}, SeqModulus <- 2, Timeout <- 1, MaxNet <- 1, AvoidsReuse <- TRUE,
    net <- echoes, panicked <- pingPanicked

(* Every length of a state around the multiples of a fragment. *)
Sizes == {0, 1, 2, 3, 4, 5, 6, 7, 8, 10}
Fragments == INSTANCE Fragmentation WITH
    MaxFragmentSize <- 2, OffsetLimit <- 5, MaxDup <- 0, MaxLose <- 1, net <- fragments
Repeated == INSTANCE Fragmentation WITH
    MaxFragmentSize <- 2, OffsetLimit <- 5, MaxDup <- 2, MaxLose <- 1, net <- fragments

(* The policy by requests, with rejections; and by queue lengths. *)
PolicyRps == INSTANCE MigrationPolicy WITH
    BUCKET_SIZE_LOG2 <- 1, MAX_EXTRACTED_CONNECTIONS <- 2, Kind <- "rps", Conns <- {A, B}, MaxHandles <- 3,
    MaxQueue <- 1, MaxCount <- 2, Thresholds <- {1}, Allowance <- 2, EarlyAnswers <- FALSE, ByHand <- FALSE, Rejects <- TRUE
PolicyQueue == INSTANCE MigrationPolicy WITH
    BUCKET_SIZE_LOG2 <- 1, MAX_EXTRACTED_CONNECTIONS <- 2, Kind <- "queue", Conns <- {A, B}, MaxHandles <- 2,
    MaxQueue <- 2, MaxCount <- 1, Thresholds <- {1}, Allowance <- 2, EarlyAnswers <- FALSE, ByHand <- TRUE, Rejects <- FALSE

Switch == INSTANCE SoftSwitch WITH
    Clients <- {A, B, X}, BackendServers <- <<u1, u2>>, NumBackends <- 2, Virtual <- "virtual", Retries <- FALSE,
    NotFound <- None, phase <- clients, panicked <- switchPanicked

-----------------------------------------------------------------------------
(* Messages whose fields are at the ends of their ranges, with payloads of *)
(* even, odd and no length, from stacks with and without offloading.       *)
Eth == [dst |-> <<1, 2, 65535>>, src |-> <<4, 0, 6>>, ether_type |-> 2048]
Payloads == {[w |-> <<>>, len |-> 0], [w |-> <<65535, 0>>, len |-> 4], [w |-> <<51966, 57005, 1536>>, len |-> 5]}
Opt(k, b) == [kind |-> k, body |-> b]
OptionLists ==
    {<<>>, <<Opt(2, <<5, 180>>), Opt(3, <<7>>)>>,
     <<Opt(1, <<>>), Opt(1, <<>>), Opt(8, <<1, 2, 3, 4, 5, 6, 7, 8>>), Opt(5, <<0, 0, 0, 1, 255, 255, 255, 255>>), Opt(4, <<>>)>>}
Ip(k, h, s, d) == [kind |-> k, hdr |-> h, eth |-> Eth, src |-> s, dst |-> <<2560, 264>>, data |-> d]
Messages ==
    {Ip("arp", [op |-> o, sha |-> <<1, 2, 3>>, spa |-> <<2560, 257>>, tha |-> <<0, 0, 65535>>, tpa |-> <<2560, 264>>],
        <<>>, [w |-> <<>>, len |-> 0]) : o \in {1, 2}}
    \cup {Ip("icmp", [type |-> t, code |-> 255, rest |-> IF t = 3 THEN <<0, 0>> ELSE <<65535, 1>>],
             <<65535, 65535>>, [w |-> <<>>, len |-> 0]) : t \in {0, 8, 3}}
    \cup {Ip("udp", [src_port |-> 65535, dst_port |-> 10000], <<2560, 257>>, d) : d \in Payloads}
    \cup {Ip("rps", [src_port |-> 1, dst_port |-> 10000], <<2560, 257>>,
             [w |-> <<43981, 43981, 0, 65535, 0, 300>>, len |-> 12])}
    \cup {Ip("tcp", [src_port |-> 65535, dst_port |-> 10000, seq |-> <<65535, 65535>>, ack |-> <<0, 1>>, flags |-> 24,
                     window |-> 65535, urgent |-> 0, options |-> o], <<2560, 257>>, d) : o \in OptionLists, d \in Payloads}
    \cup {Ip("mig", [src_port |-> 10000, dst_port |-> 10001, origin |-> <<2560, 257, 80>>, client |-> <<2560, 258, 201>>,
                     fragment_offset |-> o, stage |-> 4, flags |-> 3], <<2560, 257>>, d) : o \in {0, 65535}, d \in Payloads}
Packets == INSTANCE PacketPath WITH TxOffload <- FALSE, RxOffload <- FALSE, IpOptions <- <<>>, sent <- message
Offloaded == INSTANCE PacketPath WITH TxOffload <- TRUE, RxOffload <- TRUE, IpOptions <- <<>>, sent <- message

-----------------------------------------------------------------------------
Foci == {"arp", "udp", "udp send", "icmp", "packets", "offload", "fragments", "repeated", "rps", "queue", "switch"}

NoPacket == phase = "start" /\ message = None /\ wire = None /\ flipped = FALSE /\ got = None

Init ==
    /\ focus \in Foci
    /\ Arp!Init /\ Icmp!Init /\ Switch!Init
    /\ IF focus = "udp send" THEN UdpSending!Init ELSE UdpReceiving!Init
    /\ IF focus = "queue" THEN PolicyQueue!Init ELSE PolicyRps!Init
    /\ IF focus \in {"packets", "offload"} THEN Packets!Init ELSE NoPacket
    /\ focus \notin {"fragments", "repeated"} => size = 0
    /\ Fragments!Init

ArpNext == Arp!Next /\ UNCHANGED <<focus, udpvars, icmpvars, pathvars, fragvars, policyvars, switchvars>>
UdpNext == UNCHANGED <<focus, arpvars, icmpvars, pathvars, fragvars, policyvars, switchvars>>
IcmpNext == Icmp!Next /\ UNCHANGED <<focus, arpvars, udpvars, pathvars, fragvars, policyvars, switchvars>>
PathNext == UNCHANGED <<focus, arpvars, udpvars, icmpvars, fragvars, policyvars, switchvars>>
FragNext == UNCHANGED <<focus, arpvars, udpvars, icmpvars, pathvars, policyvars, switchvars>>
PolicyNext == UNCHANGED <<focus, arpvars, udpvars, icmpvars, pathvars, fragvars, switchvars>>
SwitchNext == Switch!Next /\ UNCHANGED <<focus, arpvars, udpvars, icmpvars, pathvars, fragvars, policyvars>>

Next ==
    \/ focus = "arp" /\ ArpNext
    \/ focus = "udp" /\ UdpReceiving!Next /\ UdpNext
    \/ focus = "udp send" /\ UdpSending!Next /\ UdpNext
    \/ focus = "icmp" /\ IcmpNext
    \/ focus = "packets" /\ Packets!Next /\ PathNext
    \/ focus = "offload" /\ (Offloaded!Send \/ Offloaded!Pad \/ Offloaded!Receive) /\ PathNext
    \/ focus = "fragments" /\ Fragments!Next /\ FragNext
    \/ focus = "repeated" /\ Repeated!Next /\ FragNext
    \/ focus = "rps" /\ PolicyRps!Next /\ PolicyNext
    \/ focus = "queue" /\ PolicyQueue!Next /\ PolicyNext
    \/ focus = "switch" /\ SwitchNext

(* Time goes on, and the scheduler polls the queries that are ready. *)
ArpFair ==
    /\ WF_arpvars(focus = "arp" /\ Arp!Tick)
    /\ \A h \in {A, B} : WF_arpvars(focus = "arp" /\ Arp!Background(h))
    /\ \A q \in {q1, q2} : /\ WF_arpvars(focus = "arp" /\ Arp!PollAnswer(q))
                           /\ WF_arpvars(focus = "arp" /\ Arp!PollTimeout(q))

Spec == Init /\ [][Next]_vars /\ ArpFair

-----------------------------------------------------------------------------

(* UDP: a pop gets a datagram of its own address, in order and once; the   *)
(* counter that decides about dropping is the length of the queue; sockets *)
(* and addresses agree; and each pushed datagram is sent, dropped, queued  *)
(* or being resolved, one of them, when senders wait for ARP               *)
(* (UdpPeer::do_receive, poll_pop, do_bind, do_close, the send queue).     *)
DatagramsKept ==
    /\ focus = "udp" =>
          /\ UdpReceiving!PopsOwn /\ UdpReceiving!InOrder /\ UdpReceiving!LengthMatches
          /\ UdpReceiving!OneSocketPerAddress /\ UdpReceiving!BoundMatches /\ UdpReceiving!TableMatches
    /\ focus = "udp send" => UdpSending!LengthMatches /\ UdpSending!Accounted

(* A ping that succeeds was answered itself, although replies are late,    *)
(* repeated and reordered and sequence numbers wrap; one that waits is     *)
(* registered (Icmpv4Peer::ping and receive).                              *)
PingHasOwnReply == focus = "icmp" => Icmp!OwnReply /\ Icmp!WaitingRegistered

(* What one stack writes the other reads, field by field, padded or not,   *)
(* with offloading or without; and a flipped bit in a datagram with a      *)
(* checksum is noticed or harmless (the headers' serialize and parse,      *)
(* do_receive and Peer::receive).                                          *)
PacketsUnderstood ==
    /\ focus = "packets" => Packets!RoundTrip /\ Packets!FlipNoticed
    /\ focus = "offload" => Offloaded!RoundTrip


(* The statistics that migrations are decided by are true: the total and   *)
(* the buckets match the connections that are tracked, none that migrates  *)
(* or is closed can be picked, no more than allowed are, and a signal      *)
(* takes off enough (Stats::poll, connections_to_proactively_migrate).     *)
PolicyCountsTrue ==
    /\ [](focus = "rps" => /\ PolicyRps!GlobalMatches /\ PolicyRps!BucketsMatch /\ PolicyRps!MigratingDisabled
                           /\ PolicyRps!PicksLive /\ PolicyRps!WithinAllowance /\ PolicyRps!NeverPanics)
    /\ [](focus = "queue" => PolicyQueue!GlobalMatches /\ PolicyQueue!BucketsMatch /\ PolicyQueue!TracksQueue)
    /\ PolicyRps!PicksEnough

(* However segments are delayed, repeated and reordered, all segments of a *)
(* connection go to one back end, and connections go round the back ends   *)
(* (migration_directory and BE_IDX of the software switch).                *)
OneBackendEach == focus = "switch" => Switch!OneBackend /\ Switch!Balanced
=============================================================================
