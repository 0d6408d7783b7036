-------------------------------- MODULE Icmp --------------------------------
(***************************************************************************)
(* Echo (src/rust/inetstack/protocols/icmpv4/peer.rs): a host that pings,  *)
(* and a host whose background coroutine replies, over a network that      *)
(* loses, reorders and repeats messages.                                   *)
(*                                                                         *)
(* A request is known by its identifier, which is random, and its sequence *)
(* number, which wraps.  A message carries the number of its ping as a     *)
(* ghost.                                                                  *)
(***************************************************************************)
EXTENDS Naturals, Sequences, FiniteSets

CONSTANTS
    Pings,          \* bound: pings at a time
    MaxPings,       \* bound: pings in all
    Ids,            \* identifiers that make_id may compute
    SeqModulus,     \* 2^16
    Timeout,        \* timeout of a ping
    MaxNet,         \* bound: messages in flight
    AvoidsReuse,    \* the numbers do not come round to a key still in use
    None

VARIABLES
    ping,       \* the coroutines
    requests,   \* (identifier, sequence number) -> number of the ping whose sender it holds
    seq,        \* next sequence number
    total,      \* pings so far
    replyq,     \* requests that the background coroutine of the other host has
    resolving,  \* the one that it resolves the address for
    net,
    panicked
vars == <<ping, requests, seq, total, replyq, resolving, net, panicked>>

Keys == Ids \X (0 .. SeqModulus - 1)
Idle == [st |-> "idle", key |-> None, left |-> 0, n |-> 0, from |-> 0]

Init ==
    /\ ping = [p \in Pings |-> Idle]
    /\ requests = [k \in Keys |-> 0]
    /\ seq = 0 /\ total = 0
    /\ replyq = <<>> /\ resolving = None
    /\ net = {}
    /\ panicked = FALSE

Put(m) == IF Cardinality(net) < MaxNet THEN net \cup {m} ELSE net

(***************************************************************************)
(* ping computes its key when it is called and then resolves the address.  *)
(***************************************************************************)
MakeSeqNum == (seq + 1) % SeqModulus

InUse ==
    {k \in Keys : requests[k] /= 0} \cup {ping[p].key : p \in Pings} \cup {m.key : m \in net}
        \cup {replyq[i].key : i \in DOMAIN replyq} \cup (IF resolving = None THEN {} ELSE {resolving.key})

Ping(p, id) ==
    /\ ~panicked /\ ping[p].st \notin {"arp", "wait"} /\ total < MaxPings
    /\ AvoidsReuse => <<id, seq>> \notin InUse
    /\ ping' = [ping EXCEPT ![p] = [Idle EXCEPT !.st = "arp", !.key = <<id, seq>>, !.n = total + 1]]
    /\ seq' = MakeSeqNum
    /\ total' = total + 1
    /\ UNCHANGED <<requests, replyq, resolving, net, panicked>>

(***************************************************************************)
(* The address is known: the request goes out and the key is registered,   *)
(* which must be new.                                                      *)
(***************************************************************************)
Resolved(p) ==
    LET k == ping[p].key IN
    /\ ~panicked /\ ping[p].st = "arp"
    /\ net' = Put([type |-> "EchoRequest", key |-> k, n |-> ping[p].n])
    /\ panicked' = (requests[k] /= 0)
    /\ requests' = [requests EXCEPT ![k] = ping[p].n]
    /\ ping' = [ping EXCEPT ![p].st = "wait", ![p].left = Timeout]
    /\ UNCHANGED <<seq, total, replyq, resolving>>

Unresolved(p) ==
    /\ ~panicked /\ ping[p].st = "arp"
    /\ ping' = [ping EXCEPT ![p].st = "failed"]
    /\ UNCHANGED <<requests, seq, total, replyq, resolving, net, panicked>>

(***************************************************************************)
(* A ping that timed out leaves its key.  Either of a reply and the timer  *)
(* may be taken when both are there.                                       *)
(***************************************************************************)
PollReply(p) ==
    /\ ~panicked /\ ping[p].st = "wait" /\ ping[p].from /= 0
    /\ ping' = [ping EXCEPT ![p].st = "ok"]
    /\ UNCHANGED <<requests, seq, total, replyq, resolving, net, panicked>>

PollTimeout(p) ==
    /\ ~panicked /\ ping[p].st = "wait" /\ ping[p].left = 0
    /\ ping' = [ping EXCEPT ![p].st = "timeout"]
    /\ UNCHANGED <<requests, seq, total, replyq, resolving, net, panicked>>

(***************************************************************************)
(* receive.                                                                *)
(***************************************************************************)
ReceiveRequest(m) ==
    /\ ~panicked /\ m \in net /\ m.type = "EchoRequest"
    /\ Len(replyq) < MaxNet
    /\ replyq' = Append(replyq, m)
    /\ \E keep \in {{}, {m}} : net' = (net \ {m}) \cup keep
    /\ UNCHANGED <<ping, requests, seq, total, resolving, panicked>>

MutWaiter(k) ==
    LET same == {j \in Keys : j[2] = k[2] /\ requests[j] /= 0} IN
    IF same = {} THEN 0 ELSE requests[CHOOSE j \in same : TRUE]
Waiter(k) == requests[k]

ReceiveReply(m) ==
    /\ ~panicked /\ m \in net /\ m.type = "EchoReply"
    /\ requests' = [requests EXCEPT ![m.key] = 0]
    /\ ping' = [p \in Pings |-> IF ping[p].st = "wait" /\ ping[p].n = Waiter(m.key) /\ ping[p].from = 0
                                THEN [ping[p] EXCEPT !.from = m.n] ELSE ping[p]]
    /\ \E keep \in {{}, {m}} : net' = (net \ {m}) \cup keep
    /\ UNCHANGED <<seq, total, replyq, resolving, panicked>>

(***************************************************************************)
(* The background coroutine resolves and replies one at a time.            *)
(***************************************************************************)
BackgroundNext ==
    /\ ~panicked /\ resolving = None /\ replyq /= <<>>
    /\ resolving' = Head(replyq)
    /\ replyq' = Tail(replyq)
    /\ UNCHANGED <<ping, requests, seq, total, net, panicked>>

BackgroundReply ==
    /\ ~panicked /\ resolving /= None
    /\ net' = Put([resolving EXCEPT !.type = "EchoReply"])
    /\ resolving' = None
    /\ UNCHANGED <<ping, requests, seq, total, replyq, panicked>>

BackgroundFails ==
    /\ ~panicked /\ resolving /= None
    /\ resolving' = None
    /\ UNCHANGED <<ping, requests, seq, total, replyq, net, panicked>>

Lose(m) == ~panicked /\ net' = net \ {m} /\ UNCHANGED <<ping, requests, seq, total, replyq, resolving, panicked>>

Tick ==
    /\ ~panicked /\ \E p \in Pings : ping[p].st = "wait" /\ ping[p].left > 0
    /\ ping' = [p \in Pings |-> [ping[p] EXCEPT !.left = IF @ = 0 THEN 0 ELSE @ - 1]]
    /\ UNCHANGED <<requests, seq, total, replyq, resolving, net, panicked>>

Next ==
    \/ \E p \in Pings : Resolved(p) \/ Unresolved(p) \/ PollReply(p) \/ PollTimeout(p) \/ \E id \in Ids : Ping(p, id)
    \/ \E m \in net : ReceiveRequest(m) \/ ReceiveReply(m) \/ Lose(m)
    \/ BackgroundNext \/ BackgroundReply \/ BackgroundFails \/ Tick

Spec == Init /\ [][Next]_vars

(***************************************************************************)
(* Time goes on, ARP queries end, coroutines that are ready are polled.    *)
(***************************************************************************)
LiveSpec ==
    /\ Spec /\ WF_vars(Tick)
    /\ \A p \in Pings : WF_vars(Resolved(p) \/ Unresolved(p)) /\ WF_vars(PollReply(p) \/ PollTimeout(p))

-----------------------------------------------------------------------------
(***************************************************************************)
(* A ping that succeeds was answered itself: late and repeated replies to  *)
(* other pings, also to ones that timed out, do not count for it.          *)
(***************************************************************************)
OwnReply == \A p \in Pings : ping[p].st = "ok" => ping[p].from = ping[p].n

(***************************************************************************)
(* A ping that waits, and was not answered, is registered under its key.   *)
(***************************************************************************)
WaitingRegistered == ~panicked =>
    \A p \in Pings : ping[p].st = "wait" /\ ping[p].from = 0 => requests[ping[p].key] = ping[p].n

(***************************************************************************)
(* The key of a new request is not registered.                             *)
(***************************************************************************)
KeyIsNew == ~panicked

(***************************************************************************)
(* A ping returns.                                                         *)
(***************************************************************************)
PingReturns == \A p \in Pings : ping[p].st \in {"arp", "wait"} ~> ping[p].st \notin {"arp", "wait"}
=============================================================================
