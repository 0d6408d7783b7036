-------------------------- MODULE MigrationPolicy ---------------------------
(***************************************************************************)
(* When a server decides to migrate connections: the statistics of each    *)
(* connection, the RPS signals of the switch and the steps of a migration  *)
(* that switch the statistics off and on (tcp/peer.rs and                  *)
(* tcp/established/ctrlblk.rs).  Kind says which of the two Stats of the   *)
(* peer is followed: "rps" counts requests and picks connections, "queue"  *)
(* follows the length of the receive queue.                                *)
(***************************************************************************)
EXTENDS Integers, SequencesExt, FiniteSets, FiniteSetsExt

(***************************************************************************)
(* Statistics of a set of connections                                      *)
(* (src/rust/inetstack/protocols/tcp/stats.rs): a total, the handles that  *)
(* are polled, and buckets by value from which connections are picked for  *)
(* migration.  The operators map a state of Stats to the next one.         *)
(*                                                                         *)
(* A state is a record: global_stat, handles (a sequence of handles),      *)
(* buckets (a sequence of sequences of handles), h (the contents of each   *)
(* handle) and panicked.  handles_index is written and never read, and     *)
(* the rolling average has no reader but is_under_load of the peer.        *)
(***************************************************************************)
CONSTANTS
    BUCKET_SIZE_LOG2,
    MAX_EXTRACTED_CONNECTIONS

NONE == -1
NoPosition == <<>>

NewHandle(c) ==
    [conn |-> c, stat |-> "Disabled", val |-> 0, stat_to_update |-> NONE, position |-> NoPosition,
     stat_right_before_disable |-> NONE]

NewStats(ids) ==
    [global_stat |-> 0, handles |-> <<>>, buckets |-> <<>>, h |-> [i \in ids |-> NewHandle(0)], panicked |-> FALSE]

Panic(s) == [s EXCEPT !.panicked = TRUE]

BucketIndex(val) == val \div 2^BUCKET_SIZE_LOG2

\* Vec::swap_remove at position i, counted from 1
SwapRemove(seq, i) == IF i = Len(seq) THEN Front(seq) ELSE [Front(seq) EXCEPT ![i] = Last(seq)]

(***************************************************************************)
(* BucketList.  Positions are counted from 1.                              *)
(***************************************************************************)
GetBucketMut(buckets, index) ==
    IF index < Len(buckets) THEN buckets
    ELSE buckets \o [k \in 1 .. index + 1 - Len(buckets) |-> <<>>]

PushIntoBucket(s, index, i) ==
    LET grown == GetBucketMut(s.buckets, index) IN
    [s EXCEPT !.buckets = [grown EXCEPT ![index + 1] = Append(@, i)],
              !.h[i].position = <<index + 1, Len(grown[index + 1]) + 1>>]

BucketInsert(s, i, val) == IF val > 0 THEN PushIntoBucket(s, BucketIndex(val), i) ELSE s

BucketRemove(s, pos) ==
    LET bucket == s.buckets[pos[1]]
        removed == bucket[pos[2]]
        left == SwapRemove(bucket, pos[2])
        t == [s EXCEPT !.buckets[pos[1]] = left, !.h[removed].position = NoPosition]
    IN IF pos[2] <= Len(left) THEN [t EXCEPT !.h[left[pos[2]]].position = pos] ELSE t

BucketUpdate(s, i, val) ==
    LET pos == s.h[i].position IN
    IF pos = NoPosition THEN BucketInsert(s, i, val)
    ELSE IF val = 0 \/ pos[1] /= BucketIndex(val) + 1 THEN BucketInsert(BucketRemove(s, pos), i, val)
    ELSE s

(***************************************************************************)
(* StatsHandle.                                                            *)
(***************************************************************************)
SetStat(s, i, val) == IF s.h[i].stat = "Enabled" THEN [s EXCEPT !.h[i].stat_to_update = val] ELSE s

Increment(s, i) ==
    LET now == IF s.h[i].stat_to_update = NONE THEN s.h[i].val ELSE s.h[i].stat_to_update IN SetStat(s, i, now + 1)

Enable(s, i, use_old_value, initial) ==
    LET old == s.h[i].stat
        val == IF use_old_value /\ s.h[i].stat_right_before_disable /= NONE
               THEN s.h[i].stat_right_before_disable ELSE initial
        t == [s EXCEPT !.global_stat = @ + val, !.h[i].stat = "Enabled", !.h[i].val = val,
                       !.h[i].stat_right_before_disable = IF use_old_value THEN NONE ELSE @]
    IN IF old = "Enabled" THEN Panic(s)
       ELSE IF old = "Disabled" THEN BucketInsert([t EXCEPT !.handles = Append(@, i)], i, val) ELSE t

MutDisable(s, i) ==
    IF s.h[i].stat = "Enabled"
    THEN [s EXCEPT !.h[i].stat = "MarkedForDisable", !.h[i].val = 0, !.h[i].stat_right_before_disable = s.h[i].val]
    ELSE s
Disable(s, i) ==
    IF s.h[i].stat = "Enabled"
    THEN [s EXCEPT !.h[i].stat = "MarkedForDisable", !.h[i].stat_right_before_disable = s.h[i].val] ELSE s

(***************************************************************************)
(* Stats::poll.                                                            *)
(***************************************************************************)
PollMarked(s, k) ==
    LET i == s.handles[k]
        t == [s EXCEPT !.handles = SwapRemove(@, k)]
        u == IF s.h[i].position = NoPosition THEN t ELSE BucketRemove(t, s.h[i].position)
    IN [u EXCEPT !.h[i].stat = "Disabled", !.global_stat = @ - s.h[i].val,
                 !.panicked = @ \/ s.global_stat < s.h[i].val]

PollEnabled(s, k) ==
    LET i == s.handles[k]
        new == s.h[i].stat_to_update
        t == [s EXCEPT !.h[i].stat_to_update = NONE]
    IN IF new = NONE \/ new = s.h[i].val THEN t
       ELSE BucketUpdate([t EXCEPT !.global_stat = @ + new - s.h[i].val, !.h[i].val = new], i, new)

RECURSIVE PollFrom(_, _)
PollFrom(s, k) ==
    IF k > Len(s.handles) \/ s.panicked THEN s
    ELSE CASE s.h[s.handles[k]].stat = "MarkedForDisable" -> PollFrom(PollMarked(s, k), k)
           [] s.h[s.handles[k]].stat = "Enabled" -> PollFrom(PollEnabled(s, k), k + 1)
           [] s.h[s.handles[k]].stat = "Disabled" -> Panic(s)

RECURSIVE PollSkipping(_, _)
PollSkipping(s, k) ==
    IF k > Len(s.handles) THEN s
    ELSE IF s.h[s.handles[k]].stat = "MarkedForDisable" THEN PollSkipping(PollMarked(s, k), k + 1)
    ELSE PollSkipping(PollEnabled(s, k), k + 1)

Poll(s) == PollFrom(s, 1)

ResetStats(s) ==
    [s EXCEPT !.h = [i \in DOMAIN s.h |-> IF s.h[i].position = NoPosition THEN s.h[i]
                                          ELSE [s.h[i] EXCEPT !.stat_to_update = 0]]]

(***************************************************************************)
(* connections_to_proactively_migrate: from the bucket of the excess       *)
(* upwards, then downwards, until the total is at the threshold, the list  *)
(* is full, or the allowance (NONE: unlimited) is used up.                 *)
(***************************************************************************)
Base(s, threshold) == LET excess == BucketIndex(s.global_stat - threshold) IN
                      IF excess <= Len(s.buckets) THEN excess ELSE Len(s.buckets)

Candidates(s, threshold) ==
    LET base == Base(s, threshold) IN
    FlattenSeq([k \in 1 .. Len(s.buckets) - base |-> Reverse(s.buckets[base + k])])
        \o Reverse(FlattenSeq(SubSeq(s.buckets, 1, base)))

Removed(s, list, k) == FoldLeft(LAMBDA sum, i : sum + s.h[i].val, 0, SubSeq(list, 1, k))

Ends(s, threshold, allowance, list, k) ==
    \/ s.global_stat - Removed(s, list, k) <= threshold
    \/ k = MAX_EXTRACTED_CONNECTIONS
    \/ allowance /= NONE /\ k >= allowance

Proactive(s, threshold, allowance) ==
    LET list == Candidates(s, threshold)
        ends == {k \in 1 .. Len(list) : Ends(s, threshold, allowance, list, k) \/ k = Len(list)}
        n == CHOOSE k \in ends : \A j \in ends : k <= j
    IN IF (allowance /= NONE /\ allowance <= 0) \/ s.global_stat <= threshold \/ list = <<>> THEN <<>>
       ELSE SubSeq(list, 1, n)

-----------------------------------------------------------------------------

CONSTANTS
    Kind,
    Conns,
    MaxHandles,     \* bound: control blocks made
    MaxQueue,       \* bound: segments in a receive queue (only "queue" follows it)
    MaxCount,       \* bound: requests counted between two polls
    Thresholds,     \* thresholds that signals give rise to
    Allowance,      \* MAX_PROACTIVE_MIGS, or NONE (-1)
    EarlyAnswers,   \* a migration is rejected before the statistics are polled
    ByHand,         \* the application initiates migrations
    Rejects         \* targets reject migrations

VARIABLES
    stats,
    conn,       \* connection -> its state, handle and receive queue, and whether it migrates
    made,       \* control blocks made
    allowance,  \* max_proactive_migrations
    signal,     \* last_rps_signal: the threshold, NONE if there is none
    picked      \* ghost: picked by the last poll
vars == <<stats, conn, made, allowance, signal, picked>>

Gone == [st |-> "none", handle |-> 0, queue |-> 0, migrating |-> FALSE]

Init ==
    /\ stats = NewStats(1 .. MaxHandles)
    /\ conn = [c \in Conns |-> Gone]
    /\ made = 0
    /\ allowance = Allowance
    /\ signal = NONE
    /\ picked = {}

Live(c) == ~stats.panicked /\ conn[c].st = "est"
H(c) == conn[c].handle

(***************************************************************************)
(* enable_stats and disable_stats of a control block.                      *)
(***************************************************************************)
EnableStats(s, i, queue) == IF Kind = "rps" THEN Enable(s, i, TRUE, 0) ELSE Enable(s, i, FALSE, queue)

Accept(c, queue) ==
    /\ ~stats.panicked /\ conn[c].st = "none" /\ made < MaxHandles
    /\ made' = made + 1
    /\ conn' = [conn EXCEPT ![c] = [st |-> "est", handle |-> made + 1, queue |-> queue, migrating |-> FALSE]]
    /\ stats' = EnableStats([stats EXCEPT !.h[made + 1] = NewHandle(c)], made + 1, queue)
    /\ picked' = {} /\ UNCHANGED <<allowance, signal>>

Count(i) == IF stats.h[i].stat_to_update = NONE THEN stats.h[i].val ELSE stats.h[i].stat_to_update

Room(c) == IF Kind = "rps" THEN Count(H(c)) < MaxCount ELSE conn[c].queue < MaxQueue
Queued(c, n) == IF Kind = "rps" THEN conn ELSE [conn EXCEPT ![c].queue = @ + n]

ReceiverPush(c) ==
    /\ Live(c) /\ Room(c)
    /\ conn' = Queued(c, 1)
    /\ stats' = IF Kind = "rps" THEN Increment(stats, H(c)) ELSE SetStat(stats, H(c), conn[c].queue + 1)
    /\ picked' = {} /\ UNCHANGED <<made, allowance, signal>>

ReceiverPop(c) ==
    /\ Live(c) /\ conn[c].queue > 0
    /\ conn' = Queued(c, -1)
    /\ stats' = SetStat(stats, H(c), conn[c].queue - 1)
    /\ picked' = {} /\ UNCHANGED <<made, allowance, signal>>

(***************************************************************************)
(* The application closes the connection, or a RST or FIN comes in.        *)
(***************************************************************************)
Close(c) ==
    /\ Live(c) /\ ~conn[c].migrating
    /\ conn' = [conn EXCEPT ![c].st = "closed"]
    /\ stats' = Disable(stats, H(c))
    /\ picked' = {} /\ UNCHANGED <<made, allowance, signal>>

(***************************************************************************)
(* initiate_migration_by_qd, and the answers that come in: Rejected,       *)
(* ReturnedBySwitch (which initiates again) and PrepareMigrationAcked.     *)
(***************************************************************************)
InitiateByQd(c) ==
    /\ ByHand /\ Live(c) /\ ~conn[c].migrating
    /\ conn' = [conn EXCEPT ![c].migrating = TRUE]
    /\ stats' = Disable(stats, H(c))
    /\ picked' = {} /\ UNCHANGED <<made, allowance, signal>>

Rejected(c) ==
    /\ Rejects /\ Live(c) /\ conn[c].migrating
    /\ EarlyAnswers \/ stats.h[H(c)].stat = "Disabled"
    /\ conn' = [conn EXCEPT ![c].migrating = FALSE]
    /\ stats' = EnableStats(stats, H(c), conn[c].queue)
    /\ picked' = {} /\ UNCHANGED <<made, allowance, signal>>

ReturnedBySwitch(c) ==
    /\ Live(c) /\ conn[c].migrating
    /\ stats' = Disable(stats, H(c))
    /\ picked' = {} /\ UNCHANGED <<conn, made, allowance, signal>>

PrepareMigrationAcked(c) ==
    /\ Live(c) /\ conn[c].migrating
    /\ conn' = [conn EXCEPT ![c] = Gone]
    /\ picked' = {} /\ UNCHANGED <<stats, made, allowance, signal>>

ReceiveRpsSignal(t) ==
    /\ Kind = "rps" /\ ~stats.panicked
    /\ signal' = t
    /\ picked' = {} /\ UNCHANGED <<stats, conn, made, allowance>>

(***************************************************************************)
(* The end of poll_bg_work: poll_stats, then rps_signal_action.            *)
(***************************************************************************)
DisableAll(s, list) == FoldLeft(LAMBDA t, i : Disable(t, i), s, list)

RpsSignalAction(s) ==
    LET list == Proactive(s, signal, allowance)
        chosen == {s.h[list[k]].conn : k \in DOMAIN list}
        notEnabled == \E k \in DOMAIN list : s.h[list[k]].stat /= "Enabled"
    IN /\ stats' = IF notEnabled THEN Panic(s) ELSE ResetStats(DisableAll(s, list))
       /\ conn' = [c \in Conns |-> IF c \in chosen THEN [conn[c] EXCEPT !.migrating = TRUE] ELSE conn[c]]
       /\ allowance' = IF allowance = NONE THEN NONE ELSE allowance - Len(list)
       /\ picked' = chosen

PollBgWork ==
    /\ ~stats.panicked
    /\ IF signal = NONE THEN stats' = Poll(stats) /\ picked' = {} /\ UNCHANGED <<conn, allowance>>
       ELSE RpsSignalAction(Poll(stats))
    /\ signal' = NONE
    /\ UNCHANGED made

Next ==
    \/ \E c \in Conns : \/ \E queue \in IF Kind = "rps" THEN {0} ELSE 0 .. MaxQueue : Accept(c, queue)
                        \/ ReceiverPush(c) \/ ReceiverPop(c) \/ Close(c)
                        \/ InitiateByQd(c) \/ Rejected(c) \/ ReturnedBySwitch(c) \/ PrepareMigrationAcked(c)
    \/ \E t \in Thresholds : ReceiveRpsSignal(t)
    \/ PollBgWork

Spec == Init /\ [][Next]_vars

-----------------------------------------------------------------------------
Tracked == {i \in 1 .. MaxHandles : stats.h[i].stat /= "Disabled"}

SumOf(s, ids) == FoldSet(LAMBDA i, sum : sum + s.h[i].val, 0, ids)

(***************************************************************************)
(* global_stat is the sum of what is tracked, whatever order connections   *)
(* come, migrate, are rejected and go in.                                  *)
(***************************************************************************)
GlobalMatches == ~stats.panicked => stats.global_stat = SumOf(stats, Tracked)

(***************************************************************************)
(* The buckets and the positions in the handles agree: a handle with a     *)
(* value above zero is in the bucket of its value, at its position, once;  *)
(* no other handle is in a bucket.                                         *)
(***************************************************************************)
BucketsMatch == ~stats.panicked =>
    /\ \A i \in 1 .. MaxHandles :
        IF i \in Tracked /\ stats.h[i].val > 0
        THEN LET pos == stats.h[i].position IN
             /\ pos /= NoPosition /\ pos[1] = BucketIndex(stats.h[i].val) + 1
             /\ pos[2] \in DOMAIN stats.buckets[pos[1]] /\ stats.buckets[pos[1]][pos[2]] = i
        ELSE stats.h[i].position = NoPosition
    /\ Len(FlattenSeq(stats.buckets)) = Cardinality({i \in Tracked : stats.h[i].val > 0})

(***************************************************************************)
(* The value that will be tracked is the length of the receive queue.      *)
(***************************************************************************)
TracksQueue == Kind = "queue" /\ ~stats.panicked =>
    \A c \in Conns : conn[c].st = "est" /\ stats.h[H(c)].stat = "Enabled" => Count(H(c)) = conn[c].queue

(***************************************************************************)
(* A connection that is migrating or closed is not tracked as live, so     *)
(* that it is never picked again.                                          *)
(***************************************************************************)
MigratingDisabled == ~stats.panicked =>
    \A c \in Conns : conn[c].st = "closed" \/ conn[c].migrating => stats.h[H(c)].stat /= "Enabled"

(***************************************************************************)
(* Only connections that live here are picked: initiate_migration_by_addr  *)
(* finds them in its tables.                                               *)
(***************************************************************************)
PicksLive == \A c \in picked : conn[c].st = "est"

(***************************************************************************)
(* No more connections are ever picked than MAX_PROACTIVE_MIGS allows.     *)
(***************************************************************************)
WithinAllowance == allowance = NONE \/ allowance >= 0

(***************************************************************************)
(* No expect, unwrap or panic of the statistics is hit.                    *)
(***************************************************************************)
NeverPanics == ~stats.panicked

(***************************************************************************)
(* A signal that found the total above the threshold took off enough, or   *)
(* as much as it might: what was not picked cannot have helped.            *)
(***************************************************************************)
PicksEnough ==
    [][signal /= NONE /\ signal' = NONE => \A s \in {Poll(stats)} : s.global_stat > signal =>
        \/ s.global_stat - SumOf(s, {i \in 1 .. MaxHandles : s.h[i].stat = "Enabled" /\ s.h[i].conn \in picked'}) <= signal
        \/ Cardinality(picked') = MAX_EXTRACTED_CONNECTIONS
        \/ allowance' = 0
        \/ \A i \in 1 .. MaxHandles : s.h[i].stat = "Enabled" /\ s.h[i].val > 0 => s.h[i].conn \in picked']_vars
=============================================================================
