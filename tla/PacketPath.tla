----------------------------- MODULE PacketPath -----------------------------
(***************************************************************************)
(* One message from a sender, over a wire that may pad the frame or flip a *)
(* bit of it, through do_receive (inetstack/mod.rs), the dispatch of IPv4  *)
(* (inetstack/protocols/peer.rs) and the parser of its protocol.           *)
(***************************************************************************)
EXTENDS Integers, SequencesExt

(***************************************************************************)
(* The headers of the network stack, written and parsed                    *)
(* (ethernet2/frame.rs, arp/packet/header.rs, ipv4/datagram.rs,            *)
(* icmpv4/datagram, udp/datagram/header.rs, tcp/segment.rs,                *)
(* tcpmig/segment/header.rs, all under src/rust/inetstack/protocols).      *)
(*                                                                         *)
(* A buffer is a record: w, its 16-bit words, and len, its length in       *)
(* bytes; the low byte of the last word is 0 when len is odd.  A 32-bit    *)
(* value is a pair of words.  Parsing gives [ok |-> FALSE] for any error.  *)
(***************************************************************************)
W16 == 65536
Empty == [w |-> <<>>, len |-> 0]
Error == [ok |-> FALSE]

Words(n) == (n + 1) \div 2

Concat(words, buf) == [w |-> words \o buf.w, len |-> 2 * Len(words) + buf.len]
Adjust(buf, bytes) == [w |-> SubSeq(buf.w, bytes \div 2 + 1, Len(buf.w)), len |-> buf.len - bytes]
TakeBytes(buf, bytes) ==
    LET w == SubSeq(buf.w, 1, Words(bytes)) IN
    [w |-> IF bytes % 2 = 0 THEN w ELSE [w EXCEPT ![Len(w)] = (@ \div 256) * 256], len |-> bytes]

(***************************************************************************)
(* The Internet checksum: the sum starts at 16#FFFF and is reduced to      *)
(* 1 .. 16#FFFF, so that the complement is never 16#FFFF.                  *)
(***************************************************************************)
SumWords(words) == FoldLeft(LAMBDA a, b : a + b, 0, words)
OnesComplement(sum) == (W16 - 1) - (((65535 + sum - 1) % 65535) + 1)
Without(words, i) == [words EXCEPT ![i] = 0]

(***************************************************************************)
(* Ethernet.                                                               *)
(***************************************************************************)
EtherTypes == {2048, 2054, 34525}       \* Ipv4, Arp, Ipv6
EthSerialize(h) == h.dst \o h.src \o <<h.ether_type>>
EthParse(buf) ==
    IF buf.len < 14 \/ buf.w[7] \notin EtherTypes THEN Error
    ELSE [ok |-> TRUE, ether_type |-> buf.w[7], dst |-> SubSeq(buf.w, 1, 3), src |-> SubSeq(buf.w, 4, 6),
          payload |-> Adjust(buf, 14)]

(***************************************************************************)
(* ARP: hardware type 1, protocol type 16#800, lengths 6 and 4.            *)
(***************************************************************************)
ArpSerialize(h) == <<1, 2048, 6 * 256 + 4, h.op>> \o h.sha \o h.spa \o h.tha \o h.tpa
ArpParse(buf) ==
    IF buf.len < 28 \/ SubSeq(buf.w, 1, 3) /= <<1, 2048, 6 * 256 + 4>> \/ buf.w[4] \notin {1, 2} THEN Error
    ELSE [ok |-> TRUE, op |-> buf.w[4], sha |-> SubSeq(buf.w, 5, 7), spa |-> SubSeq(buf.w, 8, 9),
          tha |-> SubSeq(buf.w, 10, 12), tpa |-> SubSeq(buf.w, 13, 14)]

(***************************************************************************)
(* IPv4.  The checksum covers the first ten words, whatever the IHL says.  *)
(***************************************************************************)
ICMP == 1
TCP == 6
UDP == 17

Ipv4Checksum(words) == OnesComplement(SumWords(Without(SubSeq(words, 1, 10), 6)))

Ipv4Serialize(h, payload_len) ==
    LET words == <<4 * 4096 + 5 * 256, (20 + payload_len) % W16, 0, 2 * 8192, 255 * 256 + h.protocol, 0>> \o h.src \o h.dst
    IN [words EXCEPT ![6] = Ipv4Checksum(words)]

MutIpv4Truncate(buf, hdr_size, total) == Adjust(buf, hdr_size)
Ipv4Truncate(buf, hdr_size, total) == Adjust(TakeBytes(buf, total), hdr_size)

Ipv4Parse(buf) ==
    LET hdr_size == ((buf.w[1] \div 256) % 16) * 4
        total == buf.w[2]
        flags == buf.w[4] \div 8192
        protocol == buf.w[5] % 256
    IN IF \/ buf.len < 20
          \/ buf.w[1] \div 4096 /= 4
          \/ hdr_size < 20 \/ buf.len < hdr_size
          \/ total < hdr_size \/ total > buf.len
          \/ flags \div 4 = 1 \/ flags % 2 = 1
          \/ buf.w[4] % 8192 /= 0
          \/ buf.w[5] \div 256 = 0
          \/ protocol \notin {ICMP, TCP, UDP}
          \/ buf.w[6] = W16 - 1 \/ buf.w[6] /= Ipv4Checksum(buf.w)
       THEN Error
       ELSE [ok |-> TRUE, protocol |-> protocol, src |-> SubSeq(buf.w, 7, 8), dst |-> SubSeq(buf.w, 9, 10),
             payload |-> Ipv4Truncate(buf, hdr_size, total)]

PseudoSum(ip, protocol, len) == SumWords(ip.src \o ip.dst) + protocol + len

(***************************************************************************)
(* ICMPv4.  Only echo messages keep the rest of the header.                *)
(***************************************************************************)
EchoTypes == {0, 8}
IcmpTypes == EchoTypes \cup {3, 4, 5, 9, 10, 11, 12, 13, 14}

IcmpChecksum(words) == OnesComplement(SumWords(Without(words, 2)))
IcmpSerialize(h) ==
    LET words == <<h.type * 256 + h.code, 0>> \o (IF h.type \in EchoTypes THEN h.rest ELSE <<0, 0>>)
    IN [words EXCEPT ![2] = IcmpChecksum(words)]
IcmpParse(buf) ==
    LET type == buf.w[1] \div 256 IN
    IF buf.len < 8 \/ buf.w[2] /= IcmpChecksum(buf.w) \/ type \notin IcmpTypes THEN Error
    ELSE [ok |-> TRUE, type |-> type, code |-> buf.w[1] % 256,
          rest |-> IF type \in EchoTypes THEN SubSeq(buf.w, 3, 4) ELSE <<0, 0>>]

(***************************************************************************)
(* UDP.  A checksum of 0 is not verified, and is written as computed.      *)
(***************************************************************************)
UdpChecksum(ip, words, len) == OnesComplement(PseudoSum(ip, UDP, len) + SumWords(Without(words, 4)))
UdpSerialize(h, ip, data, offload) ==
    LET len == 8 + data.len
        words == <<h.src_port, h.dst_port, len % W16, 0>>
    IN [words EXCEPT ![4] = IF offload THEN 0 ELSE UdpChecksum(ip, words \o data.w, len)]

UdpParse(ip, buf, offload) ==
    IF \/ buf.len < 8 \/ buf.w[3] /= buf.len
       \/ ~offload /\ buf.w[4] /= 0 /\ buf.w[4] /= UdpChecksum(ip, buf.w, buf.len)
    THEN Error
    ELSE [ok |-> TRUE, src_port |-> buf.w[1], dst_port |-> buf.w[2], payload |-> Adjust(buf, 8)]

(***************************************************************************)
(* TCP options, as bytes: a kind, a length and a body.  A no-operation is  *)
(* one byte, and is not kept by the parser.                                *)
(***************************************************************************)
MAX_TCP_OPTIONS == 5
NoOperation == 1

OptionBytes(o) == IF o.kind = NoOperation THEN <<1>> ELSE <<o.kind, 2 + Len(o.body)>> \o o.body
OptionsBytes(list) ==
    LET bytes == FlattenSeq([i \in DOMAIN list |-> OptionBytes(list[i])]) IN
    IF list = <<>> THEN <<>> ELSE bytes \o [i \in 1 .. 4 - (Len(bytes) % 4) |-> 0]

Pack(bytes) == [i \in 1 .. Len(bytes) \div 2 |-> bytes[2 * i - 1] * 256 + bytes[2 * i]]
Unpack(words) == FlattenSeq([i \in DOMAIN words |-> <<words[i] \div 256, words[i] % 256>>])

OptionLengths(kind) ==
    CASE kind = 2 -> {4} [] kind = 3 -> {3} [] kind = 4 -> {2} [] kind = 5 -> {10, 18, 26, 34} [] kind = 8 -> {10}
      [] OTHER -> {}

RECURSIVE ParseOptions(_, _)
ParseOptions(bytes, list) ==
    IF bytes = <<>> \/ Head(bytes) = 0 THEN [ok |-> TRUE, list |-> list]
    ELSE IF Head(bytes) = NoOperation THEN ParseOptions(Tail(bytes), list)
    ELSE IF Len(bytes) < 2 THEN Error
    ELSE IF bytes[2] \notin OptionLengths(bytes[1]) \/ Len(bytes) < bytes[2] THEN Error
    ELSE IF Len(list) >= MAX_TCP_OPTIONS THEN Error
    ELSE ParseOptions(SubSeq(bytes, bytes[2] + 1, Len(bytes)),
                      Append(list, [kind |-> bytes[1], body |-> SubSeq(bytes, 3, bytes[2])]))

(***************************************************************************)
(* TCP.  flags is NS and the eight flags of octet 13 as a number.          *)
(***************************************************************************)
TcpChecksum(ip, words, len) == OnesComplement(PseudoSum(ip, TCP, len) + SumWords(Without(words, 9)))

TcpSerialize(h, ip, data, offload) ==
    LET options == Pack(OptionsBytes(h.options))
        size == 20 + 2 * Len(options)
        words == <<h.src_port, h.dst_port>> \o h.seq \o h.ack
                 \o <<((size \div 4) % 16) * 4096 + h.flags, h.window, 0, h.urgent>> \o options
    IN [words EXCEPT ![9] = IF offload THEN 0 ELSE TcpChecksum(ip, words \o data.w, size + data.len)]

TcpParse(ip, buf, offload) ==
    LET data_offset == (buf.w[7] \div 4096) * 4
        options == ParseOptions(Unpack(SubSeq(buf.w, 11, data_offset \div 2)), <<>>)
    IN IF \/ buf.len < 20 \/ buf.len < data_offset \/ data_offset < 20
          \/ ~offload /\ buf.w[9] /= TcpChecksum(ip, buf.w, buf.len)
          \/ ~options.ok
       THEN Error
       ELSE [ok |-> TRUE, src_port |-> buf.w[1], dst_port |-> buf.w[2], seq |-> SubSeq(buf.w, 3, 4),
             ack |-> SubSeq(buf.w, 5, 6), flags |-> buf.w[7] % 512, window |-> buf.w[8], urgent |-> buf.w[10],
             options |-> options.list, payload |-> Adjust(buf, data_offset)]

(***************************************************************************)
(* TCPMig, in the clothes of a UDP datagram.  Its checksum is the negated  *)
(* sum modulo 2^16, and 0 is not verified.                                 *)
(***************************************************************************)
MAGIC_NUMBER == <<51966, 57005>>            \* 16#CAFEDEAD
RPS_SIGNAL_SIGNATURE == <<43981, 43981>>    \* 16#ABCDABCD
MigrationStages == (0 .. 5) \cup {12, 13}

MigChecksum(ip, words) == (W16 - (SumWords(ip.src \o ip.dst \o Without(words, 4)) % W16)) % W16

MigSerialize(h, ip, data) ==
    LET words == <<h.src_port, h.dst_port, (28 + data.len) % W16, 0>> \o MAGIC_NUMBER \o h.origin \o h.client
                 \o <<h.fragment_offset, (h.stage * 16 + h.flags) * 256>>
    IN [words EXCEPT ![4] = MigChecksum(ip, words \o data.w)]

IsTcpMig(buf) == buf.len >= 28 /\ SubSeq(buf.w, 5, 6) = MAGIC_NUMBER
IsRpsSignal(buf) == buf.len >= 20 /\ SubSeq(buf.w, 5, 6) = RPS_SIGNAL_SIGNATURE

MigParse(ip, buf) ==
    LET octet == buf.w[14] \div 256 IN
    IF \/ ~IsTcpMig(buf)
       \/ octet \div 16 \notin MigrationStages
       \/ buf.w[4] /= 0 /\ buf.w[4] /= MigChecksum(ip, buf.w)
    THEN Error
    ELSE [ok |-> TRUE, src_port |-> buf.w[1], dst_port |-> buf.w[2], length |-> buf.w[3],
          origin |-> SubSeq(buf.w, 7, 9), client |-> SubSeq(buf.w, 10, 12), fragment_offset |-> buf.w[13],
          stage |-> octet \div 16, flags |-> octet % 4, payload |-> Adjust(buf, 28)]

-----------------------------------------------------------------------------

CONSTANTS
    Messages,   \* messages sent
    TxOffload,  \* tx_checksum_offload
    RxOffload,  \* rx_checksum_offload
    IpOptions   \* the sender is another stack, which puts these words into the IPv4 header

VARIABLES
    phase,
    sent,
    wire,
    flipped,
    got
vars == <<phase, sent, wire, flipped, got>>

Init ==
    /\ phase = "start" /\ sent \in Messages
    /\ wire = Empty /\ flipped = FALSE /\ got = Error

\* an IPv4 header with options, by a stack whose checksum covers all of it
WithOptions(words) ==
    LET all == [words EXCEPT ![1] = @ + (Len(IpOptions) \div 2) * 256, ![2] = @ + 2 * Len(IpOptions)] \o IpOptions
    IN [all EXCEPT ![6] = OnesComplement(SumWords(Without(all, 6)))]

\* Ethernet, IPv4, the header of the protocol and the data
Framed(m, ip, transport) ==
    LET ipv4 == Ipv4Serialize(ip, 2 * Len(transport) + m.data.len) IN
    Concat(EthSerialize(m.eth) \o (IF IpOptions = <<>> THEN ipv4 ELSE WithOptions(ipv4)) \o transport, m.data)
IpHeader(m, p) == [protocol |-> p, src |-> m.src, dst |-> m.dst]

ArpWriteHeader(m) == Concat(EthSerialize([m.eth EXCEPT !.ether_type = 2054]) \o ArpSerialize(m.hdr), Empty)
IcmpWriteHeader(m) == Framed(m, IpHeader(m, ICMP), IcmpSerialize(m.hdr))
UdpWriteHeader(m) == Framed(m, IpHeader(m, UDP), UdpSerialize(m.hdr, IpHeader(m, UDP), m.data, TxOffload))
TcpWriteHeader(m) == Framed(m, IpHeader(m, TCP), TcpSerialize(m.hdr, IpHeader(m, TCP), m.data, TxOffload))
MigWriteHeader(m) == Framed(m, IpHeader(m, UDP), MigSerialize(m.hdr, IpHeader(m, UDP), m.data))

WriteHeader(m) ==
    CASE m.kind = "arp" -> ArpWriteHeader(m)
      [] m.kind = "icmp" -> IcmpWriteHeader(m)
      [] m.kind \in {"udp", "rps"} -> UdpWriteHeader(m)
      [] m.kind = "tcp" -> TcpWriteHeader(m)
      [] m.kind = "mig" -> MigWriteHeader(m)

Send ==
    /\ phase = "start"
    /\ wire' = WriteHeader(sent)
    /\ phase' = "wire"
    /\ UNCHANGED <<sent, flipped, got>>

Pad ==
    /\ phase = "wire" /\ wire.len < 60
    /\ wire' = [w |-> wire.w \o [i \in 1 .. 30 - Len(wire.w) |-> 0], len |-> 60]
    /\ UNCHANGED <<phase, sent, flipped, got>>

Flip(i, b) ==
    /\ phase = "wire" /\ ~flipped
    /\ 2 * i > wire.len => b >= 8
    /\ wire' = [wire EXCEPT !.w[i] = IF (@ \div 2^b) % 2 = 0 THEN @ + 2^b ELSE @ - 2^b]
    /\ flipped' = TRUE
    /\ UNCHANGED <<phase, sent, got>>

(***************************************************************************)
(* Peer::receive and InetStack::do_receive.                                *)
(***************************************************************************)
Labelled(to, r) == IF r.ok THEN [to |-> to] @@ r ELSE Error

ReceiveUdp(ip, buf) ==
    IF IsTcpMig(buf) THEN Labelled("mig", MigParse(ip, buf))
    ELSE IF IsRpsSignal(buf) THEN [to |-> "rps", ok |-> TRUE, sum |-> SubSeq(buf.w, 7, 8), individual |-> SubSeq(buf.w, 9, 10)]
    ELSE Labelled("udp", UdpParse(ip, buf, RxOffload))

PeerReceive(buf) ==
    LET ip == Ipv4Parse(buf) IN
    IF ~ip.ok THEN Error
    ELSE CASE ip.protocol = ICMP -> Labelled("icmp", IcmpParse(ip.payload))
           [] ip.protocol = TCP -> Labelled("tcp", TcpParse(ip, ip.payload, RxOffload))
           [] ip.protocol = UDP -> ReceiveUdp(ip, ip.payload)

DoReceive(bytes) ==
    LET eth == EthParse(bytes) IN
    IF ~eth.ok THEN Error
    ELSE CASE eth.ether_type = 2054 -> Labelled("arp", ArpParse(eth.payload))
           [] eth.ether_type = 2048 -> PeerReceive(eth.payload)
           [] eth.ether_type = 34525 -> [ok |-> TRUE, to |-> "ignored"]

Receive ==
    /\ phase = "wire"
    /\ got' = DoReceive(wire)
    /\ phase' = "got"
    /\ UNCHANGED <<sent, wire, flipped>>

Next == Send \/ Pad \/ Receive \/ \E i \in 8 .. Len(wire.w), b \in 0 .. 15 : Flip(i, b)

Spec == Init /\ [][Next]_vars

-----------------------------------------------------------------------------
(***************************************************************************)
(* What a handler should get of a message: its fields, without the         *)
(* no-operations among the options, and its data without padding.          *)
(***************************************************************************)
Expected(m) ==
    CASE m.kind = "arp" -> [to |-> "arp", ok |-> TRUE] @@ m.hdr
      [] m.kind = "icmp" -> [to |-> "icmp", ok |-> TRUE] @@ m.hdr
      [] m.kind = "udp" -> [to |-> "udp", ok |-> TRUE, payload |-> m.data] @@ m.hdr
      [] m.kind = "rps" -> [to |-> "rps", ok |-> TRUE, sum |-> SubSeq(m.data.w, 3, 4), individual |-> SubSeq(m.data.w, 5, 6)]
      [] m.kind = "tcp" -> [to |-> "tcp", ok |-> TRUE, payload |-> m.data]
                           @@ [m.hdr EXCEPT !.options = SelectSeq(@, LAMBDA o : o.kind /= NoOperation)]
      [] m.kind = "mig" -> [to |-> "mig", ok |-> TRUE, payload |-> m.data, length |-> 28 + m.data.len] @@ m.hdr

(***************************************************************************)
(* What one stack writes the other reads, field by field, padded or not.   *)
(***************************************************************************)
RoundTrip == phase = "got" /\ ~flipped => got = Expected(sent)

(***************************************************************************)
(* A flipped bit anywhere in an IPv4 datagram is noticed or harmless,      *)
(* unless the datagram carries no checksum (word 21 is 0) or is a load     *)
(* signal of the switch, whose checksum receive_rps_signal never reads.    *)
(***************************************************************************)
NoChecksum == sent.kind \in {"udp", "mig"} /\ WriteHeader(sent).w[21] = 0
FlipNoticed == phase = "got" /\ flipped /\ sent.kind \notin {"arp", "rps"} /\ ~NoChecksum => got = Error \/ got = Expected(sent)

(***************************************************************************)
(* A datagram whose IPv4 header has options is received.                   *)
(***************************************************************************)
OptionsAccepted == phase = "got" /\ ~flipped /\ IpOptions /= <<>> => got.ok
=============================================================================
