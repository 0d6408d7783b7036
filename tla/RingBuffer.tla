----------------------------- MODULE RingBuffer -----------------------------
(***************************************************************************)
(* The lock-free ring buffer of one writer and one reader                  *)
(* (src/rust/collections/ring.rs), at the level of its loads and stores.   *)
(* front and back are AtomicUsize accessed with Ordering::Relaxed, the     *)
(* items are plain memory.  Each side has a store buffer: its own loads    *)
(* see its latest store, the other side sees a store once it is committed. *)
(* Order says how stores are committed: in program order, as on x86 when   *)
(* the compiler keeps that order, or in any order for different locations, *)
(* which is all that Relaxed promises.                                     *)
(***************************************************************************)
EXTENDS Integers, Sequences

CONSTANTS
    Values,
    None,           \* an uninitialised item
    SizeOfT,        \* bytes of an item, a power of two
    Regions,        \* the memory regions a ring may be placed in: address and size
    Order           \* "tso" or "relaxed"

SizeOfUsize == 8

Padding(r) == (-(r.address + 2 * SizeOfUsize)) % SizeOfT
SizeOfRing(r) == 2 * SizeOfUsize + Padding(r)

VARIABLES
    region,                 \* where the ring is, fixed by from_raw_parts
    front, back, data,      \* shared memory
    wstores, rstores,       \* the stores of writer and reader not yet committed
    writer, reader,         \* where each of them is, with its cached loads
    out                     \* what the last dequeue returned

vars == <<region, front, back, data, wstores, rstores, writer, reader, out>>

(***************************************************************************)
(* from_raw_parts: the array takes the highest power of two of items that  *)
(* fits behind the two indices and the padding.                            *)
(***************************************************************************)

LengthIn(r) ==
    LET maxlen == (r.size - SizeOfRing(r)) \div SizeOfT
    IN  CHOOSE n \in {2 ^ i : i \in 0 .. maxlen} : n <= maxlen /\ maxlen < 2 * n

BufferLen == region.len
Capacity == BufferLen - 1
Mask(i) == i % BufferLen

Outside == [pc |-> "outside", front |-> 0, back |-> 0, item |-> None]

Init ==
    /\ \E r \in Regions : region = [address |-> r.address, size |-> r.size, len |-> LengthIn(r)]
    /\ front = 0 /\ back = 0
    /\ data = [i \in 0 .. BufferLen - 1 |-> None]
    /\ wstores = << >> /\ rstores = << >>
    /\ writer = Outside /\ reader = Outside
    /\ out = None

(***************************************************************************)
(* The value of a variable as the thread with these pending stores sees it.*)
(***************************************************************************)
Seen(stores, loc, mem) ==
    LET mine == {i \in DOMAIN stores : stores[i].loc = loc}
    IN  IF mine = {} THEN mem ELSE stores[CHOOSE i \in mine : \A j \in mine : j <= i].val

-----------------------------------------------------------------------------
(***************************************************************************)
(* enqueue(v): try_enqueue in a loop.  Load front, load back, and, unless  *)
(* the ring is full, store the item and then back + 1.                     *)
(***************************************************************************)
Enqueue(v) ==
    /\ writer.pc = "outside"
    /\ writer' = [writer EXCEPT !.pc = "front", !.item = v]
    /\ UNCHANGED <<region, front, back, data, wstores, rstores, reader, out>>

WriterLoads ==
    /\ \/ /\ writer.pc = "front"
          /\ writer' = [writer EXCEPT !.pc = "back", !.front = front]
       \/ /\ writer.pc = "back"
          /\ writer' = [writer EXCEPT !.pc = "check", !.back = Seen(wstores, "back", back)]
    /\ UNCHANGED <<region, front, back, data, wstores, rstores, reader, out>>

MutIsFull(f, b) == b + 1 = f

IsFull(f, b) == Mask(b + 1) = f

WriterStores ==
    /\ \/ /\ writer.pc = "check" /\ IsFull(writer.front, writer.back)
          /\ writer' = [writer EXCEPT !.pc = "front"]
          /\ UNCHANGED wstores
       \/ /\ writer.pc = "check" /\ ~IsFull(writer.front, writer.back)
          /\ wstores' = Append(wstores, [loc |-> "data", ix |-> writer.back, val |-> writer.item])
          /\ writer' = [writer EXCEPT !.pc = "commit"]
       \/ /\ writer.pc = "commit"
          /\ wstores' = Append(wstores, [loc |-> "back", ix |-> 0, val |-> Mask(writer.back + 1)])
          /\ writer' = Outside
    /\ UNCHANGED <<region, front, back, data, rstores, reader, out>>

-----------------------------------------------------------------------------
(***************************************************************************)
(* dequeue(): try_dequeue in a loop.                                       *)
(***************************************************************************)
Dequeue ==
    /\ reader.pc = "outside"
    /\ reader' = [reader EXCEPT !.pc = "front"]
    /\ UNCHANGED <<region, front, back, data, wstores, rstores, writer, out>>

IsEmpty(f, b) == b = f

ReaderLoads ==
    /\ \/ /\ reader.pc = "front"
          /\ reader' = [reader EXCEPT !.pc = "back", !.front = Seen(rstores, "front", front)]
       \/ /\ reader.pc = "back"
          /\ reader' = [reader EXCEPT !.pc = "check", !.back = back]
       \/ /\ reader.pc = "check" /\ IsEmpty(reader.front, reader.back)
          /\ reader' = [reader EXCEPT !.pc = "front"]
       \/ /\ reader.pc = "check" /\ ~IsEmpty(reader.front, reader.back)
          /\ reader' = [reader EXCEPT !.pc = "commit", !.item = data[reader.front]]
    /\ UNCHANGED <<region, front, back, data, wstores, rstores, writer, out>>

ReaderCommits ==
    /\ reader.pc = "commit"
    /\ rstores' = Append(rstores, [loc |-> "front", ix |-> 0, val |-> Mask(reader.front + 1)])
    /\ out' = reader.item
    /\ reader' = Outside
    /\ UNCHANGED <<region, front, back, data, wstores, writer>>

-----------------------------------------------------------------------------
(***************************************************************************)
(* The hardware makes a pending store visible.                             *)
(***************************************************************************)
MayCommit(stores, i) ==
    \/ i = 1
    \/ /\ Order = "relaxed"
       /\ \A j \in 1 .. i - 1 : stores[j].loc /= stores[i].loc \/ stores[j].ix /= stores[i].ix

Without(stores, i) == [j \in 1 .. Len(stores) - 1 |-> IF j < i THEN stores[j] ELSE stores[j + 1]]

CommitWriter ==
    \E i \in DOMAIN wstores :
        /\ MayCommit(wstores, i)
        /\ wstores' = Without(wstores, i)
        /\ \/ /\ wstores[i].loc = "data"
              /\ data' = [data EXCEPT ![wstores[i].ix] = wstores[i].val]
              /\ UNCHANGED back
           \/ /\ wstores[i].loc = "back"
              /\ back' = wstores[i].val
              /\ UNCHANGED data
        /\ UNCHANGED <<region, front, rstores, writer, reader, out>>

CommitReader ==
    \E i \in DOMAIN rstores :
        /\ MayCommit(rstores, i)
        /\ rstores' = Without(rstores, i)
        /\ front' = rstores[i].val
        /\ UNCHANGED <<region, back, data, wstores, writer, reader, out>>

Next ==
    \/ \E v \in Values : Enqueue(v)
    \/ WriterLoads \/ WriterStores \/ CommitWriter
    \/ Dequeue \/ ReaderLoads \/ ReaderCommits \/ CommitReader

Spec == Init /\ [][Next]_vars

(***************************************************************************)
(* Both threads run, stores are committed after finite time, and the       *)
(* reader keeps dequeuing.                                                 *)
(***************************************************************************)
FairSpec ==
    /\ Spec
    /\ WF_vars(WriterLoads \/ WriterStores) /\ WF_vars(CommitWriter)
    /\ WF_vars(Dequeue \/ ReaderLoads \/ ReaderCommits) /\ WF_vars(CommitReader)

-----------------------------------------------------------------------------
(***************************************************************************)
(* The ring implements a bounded first in, first out queue: an item enters *)
(* it when the new back is visible and leaves it when the reader stores    *)
(* the new front.  No item is lost, repeated, torn or overtaken, and no    *)
(* dequeue returns an item that was not enqueued.                          *)
(***************************************************************************)
Contents ==
    LET first == Seen(rstores, "front", front)
    IN  [i \in 1 .. Mask(back - first) |-> data[Mask(first + i - 1)]]

Abstract == INSTANCE BoundedQueue WITH queue <- Contents, capacity <- Capacity

IsBoundedQueue == Abstract!Spec

(***************************************************************************)
(* No store of an item under way can hit a place the reader has not given  *)
(* back, and no item lies outside the region.                              *)
(***************************************************************************)
NoOverrun ==
    /\ SizeOfRing(region) + BufferLen * SizeOfT <= region.size
    /\ \A i \in DOMAIN wstores : wstores[i].loc = "data" =>
          /\ wstores[i].ix \in 0 .. BufferLen - 1
          /\ Mask(wstores[i].ix - Seen(rstores, "front", front)) >= Len(Contents)

(***************************************************************************)
(* An item that the reader takes was written by the writer.                *)
(***************************************************************************)
ReadsWritten == reader.pc = "commit" => reader.item /= None

(***************************************************************************)
(* enqueue, which spins while the ring is full, returns; and a dequeue     *)
(* returns when there is something in the ring.                            *)
(***************************************************************************)
EnqueueReturns == (writer.pc /= "outside") ~> (writer.pc = "outside")

DequeueReturns == (reader.pc /= "outside" /\ Contents /= << >>) ~> (reader.pc = "outside")
=============================================================================
