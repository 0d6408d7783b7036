--------------------------------- MODULE Arp ---------------------------------
(***************************************************************************)
(* Address resolution (src/rust/inetstack/protocols/arp): hosts that run   *)
(* an ArpPeer each, on a network that loses and reorders messages.         *)
(*                                                                         *)
(* A query is a coroutine: it registers the sender of a channel with the   *)
(* waiters of the address, transmits a request, and waits for the channel  *)
(* or a timer.  Receiving a message is one step, polling a query another.  *)
(* Times are what is left of them: `left' of a cache record is relative to *)
(* the clock of the cache, which is `lag' behind.  An address has the name *)
(* of its host; dead values of the cache (its graveyard) are never read.   *)
(***************************************************************************)
EXTENDS Naturals, FiniteSets

CONSTANTS
    Hosts,
    Absent,         \* addresses that no host has
    Queries, Owner, \* queries, and the host of each
    Target,         \* addresses that a query may ask for
    RetryCount, RequestTimeout, Ttl,
    Disabled,       \* disable_arp
    MaxLag, MaxNet, \* bound: delay of the background task, messages in flight
    OnePerAddress,  \* a host asks for an address by one query at a time
    Cancels,        \* coroutines with a query may be dropped
    None, Dropped, Broadcast

Ips == Hosts \cup Absent
Mac(h) == <<"mac", h>>
Dummy == <<"mac", "none">>

VARIABLES
    cache,      \* host -> address -> record or None
    lag,        \* host -> time since the clock of the cache was set
    waiters,    \* host -> address -> queries with a sender there
    query,      \* the queries
    net,        \* messages in flight
    panicked
vars == <<cache, lag, waiters, query, net, panicked>>

Idle == [st |-> "idle", ip |-> None, left |-> 0, tries |-> 0, chan |-> None, mac |-> None, heard |-> FALSE]

Init ==
    /\ cache = [h \in Hosts |-> [i \in Ips |-> None]]
    /\ lag = [h \in Hosts |-> 0]
    /\ waiters = [h \in Hosts |-> [i \in Ips |-> {}]]
    /\ query = [q \in Queries |-> Idle]
    /\ net = {}
    /\ panicked = FALSE

-----------------------------------------------------------------------------
(***************************************************************************)
(* HashTtlCache and ArpCache: records are looked up whatever their age,    *)
(* and an insertion first takes out those that have expired.               *)
(***************************************************************************)
HasExpired(r) == r.left = 0

Cleanup(c) == [i \in Ips |-> IF c[i] /= None /\ HasExpired(c[i]) THEN None ELSE c[i]]

Insert(c, ip, mac) == [Cleanup(c) EXCEPT ![ip] = [mac |-> mac, left |-> Ttl]]

AdvanceClock(c, d) ==
    [i \in Ips |-> IF c[i] = None THEN None ELSE [c[i] EXCEPT !.left = IF @ > d THEN @ - d ELSE 0]]

Get(h, ip) ==
    IF Disabled THEN Dummy
    ELSE IF cache[h][ip] = None THEN None ELSE cache[h][ip].mac

-----------------------------------------------------------------------------
Request(h, ip) == [op |-> "Request", dst |-> Broadcast, sha |-> Mac(h), spa |-> h, tpa |-> ip]
Reply(h, m) == [op |-> "Reply", dst |-> m.sha, sha |-> Mac(h), spa |-> h, tpa |-> m.spa]

Transmit(m) == net' = IF Cardinality(net) < MaxNet THEN net \cup {m} ELSE net

(***************************************************************************)
(* do_insert: the waiters get the address and are removed, the cache       *)
(* stores it.                                                              *)
(***************************************************************************)

DoInsert(h, ip, mac) ==
    /\ query' = [q \in Queries |->
                    IF q \in waiters[h][ip] THEN [query[q] EXCEPT !.chan = mac, !.heard = TRUE] ELSE query[q]]
    /\ waiters' = [waiters EXCEPT ![h][ip] = {}]
    /\ cache' = [cache EXCEPT ![h] = Insert(@, ip, mac)]

(***************************************************************************)
(* receive: the sender of a message is stored if it is known already or if *)
(* the message is for this host.                                           *)
(***************************************************************************)
Receive(h, m) ==
    /\ ~panicked /\ m \in net
    /\ m.dst \in {Mac(h), Broadcast} /\ m.spa /= h
    /\ IF Get(h, m.spa) /= None \/ m.tpa = h
       THEN DoInsert(h, m.spa, m.sha)
       ELSE UNCHANGED <<query, waiters, cache>>
    /\ net' = (net \ {m}) \cup (IF m.tpa = h /\ m.op = "Request" THEN {Reply(h, m)} ELSE {})
    /\ UNCHANGED <<lag, panicked>>

Lose(m) ==
    /\ ~panicked /\ m \in net
    /\ net' = net \ {m}
    /\ UNCHANGED <<cache, lag, waiters, query, panicked>>

-----------------------------------------------------------------------------
(***************************************************************************)
(* query, up to its first await.                                           *)
(***************************************************************************)
Start(q, ip) ==
    LET h == Owner[q] IN
    /\ ~panicked /\ query[q].st /= "wait" /\ ip \in Target[q] \ {h}
    /\ OnePerAddress => ~\E p \in Queries \ {q} : Owner[p] = h /\ query[p].ip = ip /\ query[p].st = "wait"
    /\ IF Get(h, ip) /= None
       THEN /\ query' = [query EXCEPT ![q] = [Idle EXCEPT !.st = "ok", !.ip = ip, !.mac = Get(h, ip)]]
            /\ UNCHANGED <<waiters, net>>
       ELSE /\ query' = [query EXCEPT ![q] = [Idle EXCEPT !.st = "wait", !.ip = ip, !.left = RequestTimeout, !.tries = 1]]
            /\ waiters' = [waiters EXCEPT ![h][ip] = @ \cup {q}]
            /\ Transmit(Request(h, ip))
    /\ UNCHANGED <<cache, lag, panicked>>

(***************************************************************************)
(* A poll of a waiting query.  When the channel and the timer are both     *)
(* ready, select takes either.  A channel whose sender was dropped panics. *)
(***************************************************************************)
PollAnswer(q) ==
    /\ ~panicked /\ query[q].st = "wait" /\ query[q].chan /= None
    /\ panicked' = (query[q].chan = Dropped)
    /\ query' = IF query[q].chan = Dropped THEN query
                ELSE [query EXCEPT ![q].st = "ok", ![q].mac = query[q].chan]
    /\ UNCHANGED <<cache, lag, waiters, net>>

(***************************************************************************)
(* do_drop removes all the waiters of the address.                         *)
(***************************************************************************)
DoDrop(h, ip) ==
    waiters' = [waiters EXCEPT ![h][ip] = {}]

LastTry(t) == t = RetryCount + 1


PollTimeout(q) ==
    LET h == Owner[q]  ip == query[q].ip IN
    /\ ~panicked /\ query[q].st = "wait" /\ query[q].left = 0
    /\ IF LastTry(query[q].tries)
       THEN /\ DoDrop(h, ip)
            /\ query' = [p \in Queries |->
                            IF p = q THEN [query[q] EXCEPT !.st = "timeout"]
                            ELSE IF p \in waiters[h][ip] THEN [query[p] EXCEPT !.chan = Dropped] ELSE query[p]]
            /\ UNCHANGED net
       ELSE /\ query' = [query EXCEPT ![q].left = RequestTimeout, ![q].tries = @ + 1]
            /\ Transmit(Request(h, ip))
            /\ UNCHANGED waiters
    /\ UNCHANGED <<cache, lag, panicked>>

Cancel(q) ==
    /\ ~panicked /\ Cancels /\ query[q].st = "wait"
    /\ query' = [query EXCEPT ![q] = Idle]
    /\ waiters' = [waiters EXCEPT ![Owner[q]][query[q].ip] = @ \ {q}]
    /\ UNCHANGED <<cache, lag, net, panicked>>

Background(h) ==
    /\ ~panicked /\ lag[h] > 0
    /\ cache' = [cache EXCEPT ![h] = AdvanceClock(@, lag[h])]
    /\ lag' = [lag EXCEPT ![h] = 0]
    /\ UNCHANGED <<waiters, query, net, panicked>>

Tick ==
    /\ ~panicked /\ \A h \in Hosts : lag[h] < MaxLag
    /\ lag' = [h \in Hosts |-> lag[h] + 1]
    /\ query' = [q \in Queries |-> [query[q] EXCEPT !.left = IF @ = 0 THEN 0 ELSE @ - 1]]
    /\ UNCHANGED <<cache, waiters, net, panicked>>

Next ==
    \/ Tick
    \/ \E h \in Hosts : Background(h) \/ \E m \in net : Receive(h, m)
    \/ \E m \in net : Lose(m)
    \/ \E q \in Queries : PollAnswer(q) \/ PollTimeout(q) \/ Cancel(q) \/ \E ip \in Target[q] : Start(q, ip)

Spec == Init /\ [][Next]_vars

(***************************************************************************)
(* Time goes on, and the scheduler polls coroutines that are ready.        *)
(***************************************************************************)
Fairness ==
    /\ WF_vars(Tick)
    /\ \A h \in Hosts : WF_vars(Background(h))
    /\ \A q \in Queries : WF_vars(PollAnswer(q)) /\ WF_vars(PollTimeout(q))

LiveSpec == Spec /\ Fairness

-----------------------------------------------------------------------------
(***************************************************************************)
(* Caches and results name the host that has the address: the sender of    *)
(* every message, requests that are merged included, is stored as itself.  *)
(***************************************************************************)
CacheTrue ==
    /\ \A h \in Hosts, i \in Ips : cache[h][i] /= None => cache[h][i].mac = Mac(i)
    /\ \A q \in Queries : query[q].st = "ok" => query[q].mac = Mac(query[q].ip)

(***************************************************************************)
(* A query that waits is registered, or has its answer: none is forgotten  *)
(* when an answer comes for several of them.                               *)
(***************************************************************************)
WaitingRegistered == ~panicked =>
    \A q \in Queries : query[q].st = "wait" =>
        query[q].chan /= None \/ q \in waiters[Owner[q]][query[q].ip]

(***************************************************************************)
(* Nobody waits for an address that the cache has.                         *)
(***************************************************************************)
WaitersUncached == \A h \in Hosts, i \in Ips : waiters[h][i] /= {} => cache[h][i] = None

(***************************************************************************)
(* A query gives up only after it has sent all of its requests.            *)
(***************************************************************************)
TimeoutTriedAll == \A q \in Queries : query[q].st = "timeout" => query[q].tries = RetryCount + 1

(***************************************************************************)
(* "Dropped waiter?": the sender of a query that waits is never dropped.   *)
(***************************************************************************)
NeverPanics == ~panicked

(***************************************************************************)
(* A query whose answer came while it waited returns the answer.           *)
(***************************************************************************)
AnswerNotMissed == \A q \in Queries : query[q].st = "timeout" => ~query[q].heard

(***************************************************************************)
(* After an insertion no record is left that had expired before.           *)
(***************************************************************************)
InsertEvicts ==
    [][\A h \in Hosts, i \in Ips :
        cache[h][i] /= None /\ HasExpired(cache[h][i]) /\ (\E k \in Ips \ {i} : cache'[h][k] /= None /\ ~HasExpired(cache'[h][k]) /\ cache'[h][k] /= cache[h][k])
            => cache'[h][i] = None]_vars

(***************************************************************************)
(* A query that waits returns.                                             *)
(***************************************************************************)
QueryReturns == \A q \in Queries : query[q].st = "wait" ~> query[q].st /= "wait"
=============================================================================
