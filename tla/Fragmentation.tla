--------------------------- MODULE Fragmentation ---------------------------
(***************************************************************************)
(* The CONN_STATE message of a migration, cut into fragments by the        *)
(* origin (TcpMigFragmenter) and put together by the target                *)
(* (TcpMigDefragmenter, one per ActiveMigration).  The bytes of the        *)
(* serialised state are numbered 1, 2, ...; 0 is a byte nobody wrote.      *)
(***************************************************************************)
EXTENDS Naturals, Sequences, FiniteSets, SequencesExt

CONSTANTS
    Sizes,            \* lengths a serialised state may have
    MaxFragmentSize,  \* MAX_FRAGMENT_SIZE
    OffsetLimit,      \* 2^16: fragment offsets are u16
    None,
    MaxDup, MaxLose   \* bounds: fragments the network duplicates and loses

VARIABLES
    size,      \* length of the serialised state
    stage,     \* "idle", "sent", "too large": the origin
    net,       \* fragments in flight
    defrag,    \* the target's defragmenter
    arrived,   \* history: fragments the target has received
    result,    \* what the defragmenter returned, None before
    dups, lost

vars == <<size, stage, net, defrag, arrived, result, dups, lost>>

-----------------------------------------------------------------------------
(* The fragmenter. *)

Bytes(from, n) == [j \in 1 .. n |-> from + j]

State == Bytes(0, size)

HasNext(it) == ~(it.left = 0 /\ it.current # 0)

IsLast(it) == it.left <= MaxFragmentSize

FragmentLen(it) == IF IsLast(it) THEN it.left ELSE MaxFragmentSize

FragmentOf(it) ==
    [offset |-> it.current, more |-> ~IsLast(it), data |-> Bytes(it.size - it.left, FragmentLen(it))]

Advance(it) == [it EXCEPT !.left = @ - FragmentLen(it), !.current = (@ + 1) % OffsetLimit]

Iterator == [size : Nat, left : Nat, current : Nat]

Fragments[it \in Iterator] == IF HasNext(it) THEN {FragmentOf(it)} \cup Fragments[Advance(it)] ELSE {}

TooLarge(n) == n \div MaxFragmentSize > OffsetLimit - 1

(* ActiveMigration::send transmits every fragment, or panics. *)
Send ==
    /\ stage = "idle"
    /\ IF TooLarge(size)
       THEN stage' = "too large" /\ UNCHANGED net
       ELSE stage' = "sent" /\ net' = Fragments[[size |-> size, left |-> size, current |-> 0]]
    /\ UNCHANGED <<size, defrag, arrived, result, dups, lost>>

-----------------------------------------------------------------------------
(* The defragmenter. *)

NewDefragmenter == [fragments |-> <<>>, total |-> None, current |-> 0, size |-> 0]

Padded(fragments, n) ==
    [i \in 1 .. (IF n > Len(fragments) THEN n ELSE Len(fragments)) |->
        IF i <= Len(fragments) THEN fragments[i] ELSE <<>>]


Store(d, f) ==
    [fragments |-> [Padded(d.fragments, f.offset + 1) EXCEPT ![f.offset + 1] = f.data],
     total |-> IF f.more THEN d.total ELSE f.offset + 1,
     current |-> d.current + 1,
     size |-> d.size + Len(f.data)]

(* The buffer of current_size bytes into which the fragments are copied. *)
Joined(d) ==
    LET bytes == FlattenSeq(d.fragments) IN
    [i \in 1 .. d.size |-> IF i <= Len(bytes) THEN bytes[i] ELSE 0]

Reset(d) == [d EXCEPT !.fragments = <<>>, !.total = None, !.current = 0]

(* TcpMigDefragmenter::defragment, for a migration that still waits for    *)
(* its state; process_packet ignores fragments after that.                 *)
Defragment(f) ==
    IF ~f.more /\ f.offset = 0
    THEN /\ defrag' = Reset(defrag)
         /\ result' = f.data
    ELSE LET d == Store(defrag, f) IN
         IF d.total = d.current
         THEN defrag' = Reset(d) /\ result' = Joined(d)
         ELSE defrag' = d /\ UNCHANGED result

Receive(f) ==
    /\ f \in net
    /\ \/ net' = net \ {f} /\ UNCHANGED dups
       \/ dups < MaxDup /\ dups' = dups + 1 /\ UNCHANGED net   \* another copy is on its way
    /\ arrived' = arrived \cup {f}
    /\ IF result = None THEN Defragment(f) ELSE UNCHANGED <<defrag, result>>
    /\ UNCHANGED <<size, stage, lost>>

Lose(f) ==
    /\ f \in net
    /\ lost < MaxLose
    /\ lost' = lost + 1
    /\ net' = net \ {f}
    /\ UNCHANGED <<size, stage, defrag, arrived, result, dups>>

-----------------------------------------------------------------------------

Init ==
    /\ size \in Sizes
    /\ stage = "idle"
    /\ net = {}
    /\ defrag = NewDefragmenter
    /\ arrived = {}
    /\ result = None
    /\ dups = 0
    /\ lost = 0

Next == Send \/ \E f \in net : Receive(f) \/ Lose(f)

Spec == Init /\ [][Next]_vars

-----------------------------------------------------------------------------

(* What the target deserialises is the state the origin serialised, in     *)
(* whatever order its fragments arrived (defragment stores each at its     *)
(* offset and joins them when as many have come as the last one announces).*)
StateIsWhole == result # None => result = State

(* When nothing was lost, every fragment having arrived is enough: the     *)
(* count that defragment compares with is reached, also by states of 0, 1  *)
(* and exactly n fragments.                                                *)
ArrivesUnlessLost == stage = "sent" /\ net = {} /\ lost = 0 => result # None

(* Even from duplicated fragments no byte of the state is taken twice or   *)
(* out of its order: a copy of a fragment overwrites the stored one, and   *)
(* only the count of fragments is wrong.                                   *)
NoByteTwice ==
    result # None =>
        \A i, j \in 1 .. Len(result) : i < j /\ result[i] # 0 /\ result[j] # 0 => result[i] < result[j]

(* "Returns None if all the fragments have not been received": the target  *)
(* does not take a state as complete before it has every byte of it.       *)
NoneUntilComplete ==
    result # None => 1 .. size \subseteq UNION {{f.data[i] : i \in 1 .. Len(f.data)} : f \in arrived}
=============================================================================
