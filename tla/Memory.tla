------------------------------- MODULE Memory -------------------------------
(***************************************************************************)
(* Buffers of Catnip (src/rust/catnip/runtime/memory, runtime/memory and   *)
(* the driver in catnip/runtime/network.rs).                               *)
(*                                                                         *)
(* A heap buffer is a window (off, len) of a counted allocation.  A DPDK   *)
(* buffer is an mbuf with a window of its own; a clone is an mbuf that is  *)
(* attached to the data of another.  The application holds scatter-gather  *)
(* arrays: a pointer, a length, and the mbuf if there is one.              *)
(*                                                                         *)
(* Data is only where it came from: `tag' names the memory it was written  *)
(* to first, `start' the place in it.                                      *)
(***************************************************************************)
EXTENDS Integers, FiniteSets

CONSTANTS
    Mbufs,          \* mbufs of the body pool
    Heap,           \* bound: heap allocations at a time
    Bufs, Sgas,     \* bound: buffers of the stack, arrays of the application
    Headers,        \* mbufs in the header pool
    InlineBodySize, MaxBodySize, Headroom,
    HeaderRoom, HeaderSize, MinFrame,
    Frame,          \* size of Catpowder's receive buffer
    Sizes,          \* sizes that the application asks for, and of frames
    Migrations,     \* connections with data in their queues migrate in
    PushesMbufs,    \* the application pushes arrays that are mbufs
    None

Room == MaxBodySize - Headroom
InlineSpace == HeaderRoom - HeaderSize
Larger(a, b) == IF a > b THEN a ELSE b

VARIABLES
    mbufs,      \* mbuf -> references, mbuf it is attached to, window
    heap,       \* allocation -> references, size, origin of its data
    bufs,       \* buffers that the stack holds
    sgas,       \* arrays that the application holds
    headers,    \* free mbufs of the header pool
    tx, txInline,   \* body mbufs, and frames without one, that the NIC has
    same,       \* ghost: the last conversion made what it was given
    wire,       \* ghost: sizes of the last frame
    panicked,
    badFree     \* something was freed that was not allocated so
vars == <<mbufs, heap, bufs, sgas, headers, tx, txInline, same, wire, panicked, badFree>>

Blank == [refs |-> 0, to |-> None, off |-> 0, len |-> 0]
Void == [refs |-> 0, size |-> 0, tag |-> None, start |-> 0]

Init ==
    /\ mbufs = [m \in Mbufs |-> Blank]
    /\ heap = [h \in Heap |-> Void]
    /\ bufs = [b \in Bufs |-> None]
    /\ sgas = [s \in Sgas |-> None]
    /\ headers = Headers
    /\ tx = {} /\ txInline = 0
    /\ same = TRUE
    /\ wire = [packet |-> MinFrame, frame |-> MinFrame]
    /\ panicked = FALSE /\ badFree = FALSE

-----------------------------------------------------------------------------
(***************************************************************************)
(* The pool: an mbuf goes back when nothing refers to it.                  *)
(***************************************************************************)
FreeMbufs == {m \in Mbufs : mbufs[m].refs = 0}
Settle(pool) == [m \in Mbufs |-> IF pool[m].refs = 0 THEN Blank ELSE pool[m]]
Base(m) == IF mbufs[m].to = None THEN m ELSE mbufs[m].to

AllocMbuf(pool, m, len) == [pool EXCEPT ![m] = [refs |-> 1, to |-> None, off |-> Headroom, len |-> len]]


CloneMbuf(pool, m, c) ==
    [pool EXCEPT ![c] = [refs |-> 1, to |-> Base(m), off |-> pool[m].off, len |-> pool[m].len],
                 ![Base(m)].refs = @ + 1]

FreeMbuf(pool, m) ==
    Settle(IF pool[m].to = None THEN [pool EXCEPT ![m].refs = @ - 1]
           ELSE [pool EXCEPT ![m].refs = @ - 1, ![pool[m].to].refs = @ - 1])

(***************************************************************************)
(* Counted heap allocations.                                               *)
(***************************************************************************)
FreeHeap == {h \in Heap : heap[h].refs = 0}
NewHeap(h, size) == [heap EXCEPT ![h] = [refs |-> 1, size |-> size, tag |-> <<"heap", h>>, start |-> 0]]
CopyOf(h, c) == [heap EXCEPT ![h] = [refs |-> 1, size |-> c[3], tag |-> c[1], start |-> c[2]]]
Release(allocs, h) == [allocs EXCEPT ![h] = IF @.refs = 1 THEN Void ELSE [@ EXCEPT !.refs = @ - 1]]

DropBuf(buf) ==
    IF buf.kind = "heap" THEN heap' = Release(heap, buf.id) /\ UNCHANGED mbufs
    ELSE mbufs' = FreeMbuf(mbufs, buf.id) /\ UNCHANGED heap

Off(buf) == IF buf.kind = "heap" THEN buf.off ELSE mbufs[buf.id].off
Len(buf) == IF buf.kind = "heap" THEN buf.len ELSE mbufs[buf.id].len
At(kind, id, off, len) ==
    IF kind = "heap" THEN <<heap[id].tag, heap[id].start + off, len>> ELSE <<<<"mbuf", Base(id)>>, off, len>>
Content(buf) == At(buf.kind, buf.id, Off(buf), Len(buf))
SgaContent(sga) == At(sga.kind, sga.id, sga.off, sga.len)

HeapBuf(h, off, len, dir) == [kind |-> "heap", id |-> h, off |-> off, len |-> len, dir |-> dir]
MbufBuf(m, dir) == [kind |-> "mbuf", id |-> m, off |-> 0, len |-> 0, dir |-> dir]

Running == ~panicked /\ ~badFree

-----------------------------------------------------------------------------
(***************************************************************************)
(* A frame comes from the NIC, or a defragmented state of a connection     *)
(* from a peer.                                                            *)
(***************************************************************************)

Receive(b, n) ==
    /\ Running /\ bufs[b] = None /\ n \in 1 .. Room
    /\ \E m \in FreeMbufs :
        /\ mbufs' = AllocMbuf(mbufs, m, n)
        /\ bufs' = [bufs EXCEPT ![b] = MbufBuf(m, "in")]
    /\ UNCHANGED <<heap, sgas, headers, tx, txInline, same, wire, panicked, badFree>>

ReceiveMigrated(b, n) ==
    /\ Running /\ Migrations /\ bufs[b] = None /\ n > 0
    /\ \E h \in FreeHeap :
        /\ heap' = NewHeap(h, n)
        /\ bufs' = [bufs EXCEPT ![b] = HeapBuf(h, 0, n, "in")]
    /\ UNCHANGED <<mbufs, sgas, headers, tx, txInline, same, wire, panicked, badFree>>

(***************************************************************************)
(* adjust and trim take bytes off the front and the end; clone makes       *)
(* another buffer of the same data.                                        *)
(***************************************************************************)
Adjust(b, k) ==
    /\ Running /\ bufs[b] /= None /\ k < Len(bufs[b])
    /\ mbufs' = IF bufs[b].kind = "heap" THEN mbufs ELSE [mbufs EXCEPT ![bufs[b].id].off = @ + k, ![bufs[b].id].len = @ - k]
    /\ bufs' = IF bufs[b].kind = "heap" THEN [bufs EXCEPT ![b].off = @ + k, ![b].len = @ - k] ELSE bufs
    /\ UNCHANGED <<heap, sgas, headers, tx, txInline, same, wire, panicked, badFree>>

Trim(b, k) ==
    /\ Running /\ bufs[b] /= None /\ k < Len(bufs[b])
    /\ mbufs' = IF bufs[b].kind = "heap" THEN mbufs ELSE [mbufs EXCEPT ![bufs[b].id].len = @ - k]
    /\ bufs' = IF bufs[b].kind = "heap" THEN [bufs EXCEPT ![b].len = @ - k] ELSE bufs
    /\ UNCHANGED <<heap, sgas, headers, tx, txInline, same, wire, panicked, badFree>>

CloneHeapBuf(b, c) ==
    /\ Running /\ bufs[b] /= None /\ bufs[b].kind = "heap" /\ bufs[c] = None
    /\ heap' = [heap EXCEPT ![bufs[b].id].refs = @ + 1]
    /\ bufs' = [bufs EXCEPT ![c] = bufs[b]]
    /\ UNCHANGED <<mbufs, sgas, headers, tx, txInline, same, wire, panicked, badFree>>

CloneMbufBuf(b, c) ==
    /\ Running /\ bufs[b] /= None /\ bufs[b].kind = "mbuf" /\ bufs[c] = None
    /\ panicked' = (FreeMbufs = {})
    /\ IF FreeMbufs = {} THEN UNCHANGED <<mbufs, bufs>>
       ELSE \E m \in FreeMbufs :
                /\ mbufs' = CloneMbuf(mbufs, bufs[b].id, m)
                /\ bufs' = [bufs EXCEPT ![c] = MbufBuf(m, bufs[b].dir)]
    /\ UNCHANGED <<heap, sgas, headers, tx, txInline, same, wire, badFree>>

Drop(b) ==
    /\ Running /\ bufs[b] /= None
    /\ DropBuf(bufs[b])
    /\ bufs' = [bufs EXCEPT ![b] = None]
    /\ UNCHANGED <<sgas, headers, tx, txInline, same, wire, panicked, badFree>>
-----------------------------------------------------------------------------
(***************************************************************************)
(* MemoryManager: arrays of the application.                               *)
(***************************************************************************)
IntoSga(b, s, off) ==
    /\ bufs' = [bufs EXCEPT ![b] = None]
    /\ sgas' = [sgas EXCEPT ![s] = [kind |-> bufs[b].kind, id |-> bufs[b].id, off |-> off, len |-> Len(bufs[b])]]
    /\ same' = (Content(bufs[b]) = At(bufs[b].kind, bufs[b].id, off, Len(bufs[b])))

IntoSgarray(b, s) ==
    /\ Running /\ bufs[b] /= None /\ bufs[b].dir = "in" /\ sgas[s] = None
    /\ IntoSga(b, s, Off(bufs[b]))
    /\ UNCHANGED <<mbufs, heap, headers, tx, txInline, wire, panicked, badFree>>

Managed(size) == size > InlineBodySize /\ size <= MaxBodySize

AllocSgarrayMbuf(s, size) ==
    /\ Running /\ sgas[s] = None
    /\ Managed(size) /\ size <= Room
    /\ \E m \in FreeMbufs :
        /\ mbufs' = AllocMbuf(mbufs, m, size)
        /\ sgas' = [sgas EXCEPT ![s] = [kind |-> "mbuf", id |-> m, off |-> Headroom, len |-> size]]
    /\ UNCHANGED <<heap, bufs, headers, tx, txInline, same, wire, panicked, badFree>>

AllocHeapSga(s, size) ==
    /\ Running /\ sgas[s] = None /\ size > 0
    /\ \E h \in FreeHeap :
        /\ heap' = NewHeap(h, size)
        /\ sgas' = [sgas EXCEPT ![s] = [kind |-> "heap", id |-> h, off |-> 0, len |-> size]]
    /\ UNCHANGED <<mbufs, bufs, headers, tx, txInline, same, wire, panicked, badFree>>

AllocSgarrayHeap(s, size) == ~Managed(size) /\ AllocHeapSga(s, size)

(***************************************************************************)
(* A heap array is turned back into an allocation from its pointer and     *)
(* length alone.                                                           *)
(***************************************************************************)
FromRawParts(sga) ==
    /\ badFree' = (sga.off /= 0 \/ sga.len /= heap[sga.id].size)
    /\ heap' = IF badFree' THEN heap ELSE Release(heap, sga.id)

FreeSgarray(s) ==
    /\ Running /\ sgas[s] /= None
    /\ IF sgas[s].kind = "mbuf"
       THEN mbufs' = FreeMbuf(mbufs, sgas[s].id) /\ UNCHANGED <<heap, badFree>>
       ELSE FromRawParts(sgas[s]) /\ UNCHANGED mbufs
    /\ sgas' = [sgas EXCEPT ![s] = None]
    /\ UNCHANGED <<bufs, headers, tx, txInline, same, wire, panicked>>

CloneHeapSga(s, b) ==
    /\ Running /\ sgas[s] /= None /\ sgas[s].kind = "heap" /\ bufs[b] = None
    /\ \E h \in FreeHeap :
        /\ heap' = CopyOf(h, SgaContent(sgas[s]))
        /\ bufs' = [bufs EXCEPT ![b] = HeapBuf(h, 0, sgas[s].len, "out")]
        /\ same' = (SgaContent(sgas[s]) = <<heap'[h].tag, heap'[h].start, sgas[s].len>>)
    /\ UNCHANGED <<mbufs, sgas, headers, tx, txInline, wire, panicked, badFree>>

CloneSgarrayHeap(s, b) == CloneHeapSga(s, b)

(***************************************************************************)
(* The clone is trimmed by what the mbuf has room for beyond the array;    *)
(* trim asserts that there is so much.                                     *)
(***************************************************************************)
CloneSgarrayMbuf(s, b) ==
    /\ Running /\ PushesMbufs
    /\ sgas[s] /= None /\ sgas[s].kind = "mbuf" /\ bufs[b] = None
    /\ LET m == sgas[s].id
           trim == MaxBodySize - mbufs[m].off - sgas[s].len IN
       /\ panicked' = (FreeMbufs = {} \/ trim > mbufs[m].len)
       /\ IF panicked' THEN UNCHANGED <<mbufs, bufs, same>>
          ELSE \E c \in FreeMbufs :
                /\ mbufs' = [CloneMbuf(mbufs, m, c) EXCEPT ![c].len = @ - trim]
                /\ bufs' = [bufs EXCEPT ![b] = MbufBuf(c, "out")]
                /\ same' = (SgaContent(sgas[s]) = <<<<"mbuf", Base(m)>>, mbufs[m].off, mbufs'[c].len>>)
    /\ UNCHANGED <<heap, sgas, headers, tx, txInline, wire, badFree>>

-----------------------------------------------------------------------------
(***************************************************************************)
(* transmit: a header mbuf, with the body in it if there is room, else     *)
(* with a body mbuf chained to it.                                         *)
(***************************************************************************)
FrameSize(n) == IF n > InlineSpace THEN HeaderSize + n ELSE Larger(HeaderSize + n, MinFrame)

TransmitChained(b, n) ==
    LET buf == bufs[b] IN
    \E m \in FreeMbufs :
        /\ tx' = tx \cup {m}
        /\ IF buf.kind = "mbuf"
           THEN mbufs' = FreeMbuf(CloneMbuf(mbufs, buf.id, m), buf.id) /\ UNCHANGED heap
           ELSE mbufs' = AllocMbuf(mbufs, m, n) /\ heap' = Release(heap, buf.id)
        /\ UNCHANGED txInline

Transmit(b) ==
    /\ Running /\ bufs[b] /= None /\ bufs[b].dir = "out"
    /\ LET n == Len(bufs[b]) IN
       /\ panicked' = (headers = 0 \/ (n > InlineSpace /\ FreeMbufs = {}) \/ n > Room)
       /\ IF panicked' THEN UNCHANGED <<mbufs, heap, bufs, headers, tx, txInline, wire>>
          ELSE /\ headers' = headers - 1
               /\ bufs' = [bufs EXCEPT ![b] = None]
               /\ wire' = [packet |-> HeaderSize + n, frame |-> FrameSize(n)]
               /\ IF n > InlineSpace THEN TransmitChained(b, n)
                  ELSE DropBuf(bufs[b]) /\ txInline' = txInline + 1 /\ UNCHANGED tx
    /\ UNCHANGED <<sgas, same, badFree>>

TransmitHeader ==
    /\ Running
    /\ panicked' = (headers = 0)
    /\ headers' = IF headers = 0 THEN 0 ELSE headers - 1
    /\ txInline' = IF headers = 0 THEN txInline ELSE txInline + 1
    /\ wire' = [packet |-> HeaderSize, frame |-> FrameSize(0)]
    /\ UNCHANGED <<mbufs, heap, bufs, sgas, tx, same, badFree>>

TxDone ==
    /\ Running /\ headers < Headers
    /\ headers' = headers + 1
    /\ IF txInline > 0 THEN txInline' = txInline - 1 /\ UNCHANGED <<tx, mbufs>>
       ELSE /\ \E m \in tx : tx' = tx \ {m} /\ mbufs' = FreeMbuf(mbufs, m)
            /\ UNCHANGED txInline
    /\ UNCHANGED <<heap, bufs, sgas, same, wire, panicked, badFree>>

Next ==
    \/ TransmitHeader \/ TxDone
    \/ \E b \in Bufs : Drop(b) \/ Transmit(b)
    \/ \E b \in Bufs, n \in Sizes : Receive(b, n) \/ ReceiveMigrated(b, n) \/ Adjust(b, n) \/ Trim(b, n)
    \/ \E b, c \in Bufs : CloneHeapBuf(b, c) \/ CloneMbufBuf(b, c)
    \/ \E s \in Sgas : FreeSgarray(s)
    \/ \E s \in Sgas, n \in Sizes : AllocSgarrayMbuf(s, n) \/ AllocSgarrayHeap(s, n)
    \/ \E s \in Sgas, b \in Bufs : IntoSgarray(b, s) \/ CloneSgarrayHeap(s, b) \/ CloneSgarrayMbuf(s, b)

Spec == Init /\ [][Next]_vars

-----------------------------------------------------------------------------
(***************************************************************************)
(* Buffers of Catpowder (src/rust/catpowder/runtime/memory.rs and          *)
(* network.rs): every buffer and every array is on the heap.               *)
(***************************************************************************)
PowderReceive(b, n) ==
    /\ Running /\ bufs[b] = None /\ n \in 1 .. Frame
    /\ \E h \in FreeHeap :
        /\ heap' = NewHeap(h, Frame)
        /\ bufs' = [bufs EXCEPT ![b] = HeapBuf(h, 0, n, "in")]
    /\ UNCHANGED <<mbufs, sgas, headers, tx, txInline, same, wire, panicked, badFree>>

(***************************************************************************)
(* The array gets the start of the allocation, whatever the offset of the  *)
(* buffer.                                                                 *)
(***************************************************************************)
PowderIntoSgarray(b, s) ==
    /\ Running /\ bufs[b] /= None /\ bufs[b].dir = "in" /\ sgas[s] = None
    /\ IntoSga(b, s, 0)
    /\ UNCHANGED <<mbufs, heap, headers, tx, txInline, wire, panicked, badFree>>

PowderAllocSgarray(s, size) == AllocHeapSga(s, size)

PowderFreeSgarray(s) ==
    /\ Running /\ sgas[s] /= None
    /\ FromRawParts(sgas[s])
    /\ sgas' = [sgas EXCEPT ![s] = None]
    /\ UNCHANGED <<mbufs, bufs, headers, tx, txInline, same, wire, panicked>>

PowderCloneSgarray(s, b) == CloneHeapSga(s, b)

PowderTransmit(b) ==
    /\ Running /\ bufs[b] /= None /\ bufs[b].dir = "out"
    /\ DropBuf(bufs[b])
    /\ bufs' = [bufs EXCEPT ![b] = None]
    /\ UNCHANGED <<sgas, headers, tx, txInline, same, wire, panicked, badFree>>

PowderNext ==
    \/ \E b \in Bufs : Drop(b) \/ PowderTransmit(b)
    \/ \E b \in Bufs, n \in Sizes : PowderReceive(b, n) \/ Adjust(b, n) \/ Trim(b, n)
    \/ \E b, c \in Bufs : CloneHeapBuf(b, c)
    \/ \E s \in Sgas : PowderFreeSgarray(s)
    \/ \E s \in Sgas, n \in Sizes : PowderAllocSgarray(s, n)
    \/ \E s \in Sgas, b \in Bufs : PowderIntoSgarray(b, s) \/ PowderCloneSgarray(s, b)

PowderSpec == Init /\ [][PowderNext]_vars

-----------------------------------------------------------------------------
(***************************************************************************)
(* Every mbuf and every allocation has as many references as there are     *)
(* buffers, arrays, frames and clones that use it: nothing leaks, and      *)
(* nothing is freed while it is used.                                      *)
(***************************************************************************)
Holders(kind, id) ==
    Cardinality({b \in Bufs : bufs[b] /= None /\ bufs[b].kind = kind /\ bufs[b].id = id})
    + Cardinality({s \in Sgas : sgas[s] /= None /\ sgas[s].kind = kind /\ sgas[s].id = id})

RefsMatch == Running =>
    /\ \A m \in Mbufs :
        mbufs[m].refs = Holders("mbuf", m) + Cardinality({m} \cap tx)
                        + Cardinality({c \in Mbufs : mbufs[c].refs > 0 /\ mbufs[c].to = m})
    /\ \A h \in Heap : heap[h].refs = Holders("heap", h)

(***************************************************************************)
(* A buffer made from an array, and an array made from a buffer, hold the  *)
(* same data.                                                              *)
(***************************************************************************)
SameContent == same

(***************************************************************************)
(* What sgafree gives back to the heap is a whole allocation.              *)
(***************************************************************************)
FreesAllocated == ~badFree

(***************************************************************************)
(* A frame holds its packet and is not shorter than the minimum.           *)
(***************************************************************************)
FrameHoldsPacket == wire.frame >= wire.packet /\ wire.frame >= MinFrame
=============================================================================
