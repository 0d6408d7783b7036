------------------------------- MODULE MCLibOS -------------------------------
(***************************************************************************)
(* Instances, for TLC, of the libOSes and what they are used through: the  *)
(* buffers of Catnip and Catpowder, the timers, the socket tables of       *)
(* Catnap and Catcollar, the C interface, and the HTTP server that runs on *)
(* it.  A behaviour is one of the component in focus.                      *)
(***************************************************************************)
EXTENDS Integers, Sequences, FiniteSets

CONSTANTS None, x1, x2, x3, y1, y2, z, s1, s2

VARIABLES
    focus,
    mbufs, heap, bufs, sgas, headers, tx, txInline, same, wire, memoryPanicked, badFree,  \* Memory
    now, queued, expiry, state, task, runnable,                                       \* Timer
    kernel, role, born, qtable, sockets, meant, closed, tasks, outcome, panicked,     \* Catnap and
    submitted, named, inKernel, cq, pending, clones, blocked,                         \*   Catcollar
    demikernel, queues, sgarrays, operations, waiting, clock, known, held, mine, heard, last, demiPanicked,  \* DemiApi
    arrived, at, queue, moves, carried, asked, appstate, acceptq, ops, results,       \* HttpServer
    qts, connstate, remaining, batch, answers, serverPanicked

memvars == <<mbufs, heap, bufs, sgas, headers, tx, txInline, same, wire, memoryPanicked, badFree>>
timervars == <<now, queued, expiry, state, task, runnable>>
ringvars == <<submitted, named, inKernel, cq, pending, clones, blocked>>
sockvars == <<kernel, role, born, qtable, sockets, meant, closed, tasks, outcome, panicked>>
demivars == <<demikernel, queues, sgarrays, operations, waiting, clock, known, held, mine, heard, last, demiPanicked>>
servervars == <<arrived, at, queue, moves, carried, asked, appstate, acceptq, ops, results,
                qts, connstate, remaining, batch, answers, serverPanicked>>
vars == <<focus, memvars, timervars, sockvars, ringvars, demivars, servervars>>

-----------------------------------------------------------------------------
(* Sizes that fit in a header mbuf, that take a body mbuf and that are too *)
(* large for one.                                                          *)
Dpdk == INSTANCE Memory WITH
    Mbufs <- {x1, x2}, Heap <- {z}, Bufs <- {y1, y2}, Sgas <- {z}, Headers <- 1,
    InlineBodySize <- 2, MaxBodySize <- 6, Headroom <- 1, HeaderRoom <- 4, HeaderSize <- 2, MinFrame <- 3,
    Frame <- 8, Sizes <- {1, 3, 7}, Migrations <- FALSE, PushesMbufs <- FALSE, panicked <- memoryPanicked

(* Connections migrate in with data, and mbufs are pushed. *)
DpdkMoved == INSTANCE Memory WITH
    Mbufs <- {x1, x2}, Heap <- {z}, Bufs <- {y1, y2}, Sgas <- {z}, Headers <- 1,
    InlineBodySize <- 2, MaxBodySize <- 6, Headroom <- 1, HeaderRoom <- 4, HeaderSize <- 2, MinFrame <- 3,
    Frame <- 8, Sizes <- {3, 5}, Migrations <- TRUE, PushesMbufs <- TRUE, panicked <- memoryPanicked

Powder == INSTANCE Memory WITH
    Mbufs <- {z}, Heap <- {y1, y2}, Bufs <- {x1, x2}, Sgas <- {z}, Headers <- 1,
    InlineBodySize <- 2, MaxBodySize <- 6, Headroom <- 1, HeaderRoom <- 4, HeaderSize <- 2, MinFrame <- 4,
    Frame <- 4, Sizes <- {1, 3}, Migrations <- FALSE, PushesMbufs <- FALSE, panicked <- memoryPanicked

(* Four futures are the least with which a removal merges more than one    *)
(* pair of children.                                                       *)
Timer == INSTANCE Timer WITH Nodes <- {x1, x2, x3, z}, MaxTime <- 2, heap <- queued

(* A file descriptor is closed and used again. *)
Catnap == INSTANCE Catnap WITH MaxQds <- 3, MaxFds <- 2, MaxSockets <- 3, Tokens <- {y1}, Careful <- TRUE

Catcollar == INSTANCE Catcollar WITH
    MaxQds <- 1, MaxFds <- 1, MaxSockets <- 2, MaxRequests <- 2, Tokens <- {y1, y2},
    Careful <- TRUE, OneAtATime <- TRUE

(* A host at port 8080; streams, datagrams, and the clock of wait calls. *)
Host == [ip |-> "host", port |-> <<31, 144>>]
Demi == INSTANCE DemiApi WITH
    Lib <- "catnip", Ops <- {"connect", "accept", "push", "pop"},
    Qds <- {1, 2}, Tokens <- {1}, Bufs <- {z}, Addrs <- {Host}, Room <- 2,
    MaxNow <- 0, Seconds <- {0}, Nanos <- {0}, NanosPerSec <- 4, Word <- 16, Replies <- FALSE,
    kernel <- demikernel, sockets <- queues, bufs <- sgarrays, ops <- operations, now <- clock, panicked <- demiPanicked
DemiCatnap == INSTANCE DemiApi WITH
    Lib <- "catnap", Ops <- {"accept", "pop"},
    Qds <- {1, 2}, Tokens <- {1}, Bufs <- {z}, Addrs <- {Host}, Room <- 2,
    MaxNow <- 0, Seconds <- {0}, Nanos <- {0}, NanosPerSec <- 4, Word <- 16, Replies <- FALSE,
    kernel <- demikernel, sockets <- queues, bufs <- sgarrays, ops <- operations, now <- clock, panicked <- demiPanicked
DemiDatagrams == INSTANCE DemiApi WITH
    Lib <- "catnip", Ops <- {"pushto", "pop"},
    Qds <- {1}, Tokens <- {1, 2}, Bufs <- {z}, Addrs <- {Host}, Room <- 1,
    MaxNow <- 0, Seconds <- {0}, Nanos <- {0}, NanosPerSec <- 4, Word <- 16, Replies <- FALSE,
    kernel <- demikernel, sockets <- queues, bufs <- sgarrays, ops <- operations, now <- clock, panicked <- demiPanicked
DemiClock == INSTANCE DemiApi WITH
    Lib <- "catnip", Ops <- {"pop"},
    Qds <- {1}, Tokens <- {1}, Bufs <- {z}, Addrs <- {Host}, Room <- 2,
    MaxNow <- 5, Seconds <- {0, 1}, Nanos <- {0, 3}, NanosPerSec <- 4, Word <- 16, Replies <- FALSE,
    kernel <- demikernel, sockets <- queues, bufs <- sgarrays, ops <- operations, now <- clock, panicked <- demiPanicked

(* Requests of three, two and three bytes on a connection that moves       *)
(* twice; two connections that move once.                                  *)
Server == INSTANCE HttpServer WITH
    Servers <- {s1, s2}, Conns <- {z}, Home <- s1, BUFSZ <- 5, Stream <- <<"r", "r", "n", "r", "n", "x", "r", "n">>,
    MaxSeg <- 4, MigPerN <- None, MaxMoves <- 2, Room <- 2000, done <- results, panicked <- serverPanicked
ServerOfTwo == INSTANCE HttpServer WITH
    Servers <- {s1, s2}, Conns <- {y1, y2}, Home <- s1, BUFSZ <- 2, Stream <- <<"r", "n">>,
    MaxSeg <- 2, MigPerN <- None, MaxMoves <- 1, Room <- 2000, done <- results, panicked <- serverPanicked

-----------------------------------------------------------------------------
Foci == {"dpdk", "dpdk moved", "powder", "timer", "catnap", "catcollar",
         "streams", "catnap streams", "datagrams", "clock", "server", "server of two"}

Init ==
    /\ focus \in Foci
    /\ CASE focus = "powder" -> Powder!Init [] focus = "dpdk moved" -> DpdkMoved!Init [] OTHER -> Dpdk!Init
    /\ Timer!Init
    /\ IF focus = "catcollar" THEN Catcollar!Init ELSE Catnap!Init
    /\ Catcollar!RingInit
    /\ IF focus = "datagrams" THEN DemiDatagrams!Init ELSE Demi!Init
    /\ IF focus = "server of two" THEN ServerOfTwo!Init ELSE Server!Init

Next ==
    \/ /\ \/ focus = "dpdk" /\ Dpdk!Next
          \/ focus = "dpdk moved" /\ DpdkMoved!Next
          \/ focus = "powder" /\ Powder!PowderNext
       /\ UNCHANGED <<focus, timervars, sockvars, ringvars, demivars, servervars>>
    \/ focus = "timer" /\ Timer!Next
       /\ UNCHANGED <<focus, memvars, sockvars, ringvars, demivars, servervars>>
    \/ focus = "catnap" /\ Catnap!Next
       /\ UNCHANGED <<focus, memvars, timervars, ringvars, demivars, servervars>>
    \/ focus = "catcollar" /\ Catcollar!CollarNext
       /\ UNCHANGED <<focus, memvars, timervars, demivars, servervars>>
    \/ /\ \/ focus = "streams" /\ Demi!Next
          \/ focus = "catnap streams" /\ DemiCatnap!Next
          \/ focus = "datagrams" /\ DemiDatagrams!Next
          \/ focus = "clock" /\ DemiClock!Next
       /\ UNCHANGED <<focus, memvars, timervars, sockvars, ringvars, servervars>>
    \/ /\ \/ focus = "server" /\ Server!Next
          \/ focus = "server of two" /\ ServerOfTwo!Next
       /\ UNCHANGED <<focus, memvars, timervars, sockvars, ringvars, demivars>>

Spec == Init /\ [][Next]_vars

-----------------------------------------------------------------------------

(* The timer queue behaves as a set of deadlines: whatever the shape of    *)
(* the pairing heap, a clock step fires exactly the waits that are due,    *)
(* and wakes their coroutines (Timer::advance_clock, WaitFuture).          *)
TimersFire ==
    /\ [](focus = "timer" => Timer!HeapSound /\ Timer!ExpiredAreWoken)
    /\ Timer!IsDeadlines



(* The HTTP server answers the requests of a connection in order and loses *)
(* no byte, though requests are cut anywhere and the connection moves      *)
(* between servers, and its lists of tokens and of operations agree        *)
(* (push_data_and_run and the loop of http-server.rs).                     *)
RequestsAnswered ==
    /\ focus = "server" => Server!AnswersInOrder /\ Server!NoByteLost
    /\ focus = "server of two" => ServerOfTwo!TokensMatch
=============================================================================
