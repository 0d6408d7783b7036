------------------------------ MODULE MCRuntime ------------------------------
(***************************************************************************)
(* Instances, for TLC, of what the libOSes run on: the scheduler, watched *)
(* values, the wait calls, and the collections, shared memory and          *)
(* profiler that the repository brings.  A behaviour is one of the         *)
(* component in focus.                                                     *)
(***************************************************************************)
EXTENDS Integers, Sequences, FiniteSets

CONSTANTS None, t1, t2, n1, n2, n3, n4, s1, s2

VARIABLES
    focus,
    slab, pages, refcount, notified, completed, dropped, handle, wakers, finished, poll, schedulerPanicked,  \* Scheduler
    waiters, watch, task, runnable, changed, watchPanicked,                           \* Watched
    table, done, list, issued, got, call, expired, outcome,                           \* Wait
    region, front, back, data, wstores, rstores, writer, reader, out,                 \* RingBuffer
    pointers, order, result,                                                          \* LinkedList
    first, last, len, next, strong, held, fifo, popped,                               \* IntrusiveQueue
    pc, shm, linked, objects, length, fds, maps, failures, cleanFailures,             \* SharedMemory
    roots, detached, current, away, guards, clock, visits, resets, frames, truth,     \* Profiler
    kernel, role, born, qtable, sockets, meant, closed, tasks, did, collarPanicked,   \* Catcollar
    submitted, named, inKernel, cq, pending, clones, blocked,
    arrived, at, queue, moves, carried, asked, appstate, acceptq, ops, results,       \* HttpServer
    qts, connstate, remaining, batch, answers, serverPanicked

schedvars == <<slab, pages, refcount, notified, completed, dropped, handle, wakers, finished, poll, schedulerPanicked>>
watchvars == <<waiters, watch, task, runnable, changed, watchPanicked>>
waitvars == <<table, done, list, issued, got, call, expired, outcome>>
ringvars == <<region, front, back, data, wstores, rstores, writer, reader, out>>
listvars == <<pointers, order, result>>
fifovars == <<first, last, len, next, strong, held, fifo, popped>>
shmvars == <<pc, shm, linked, objects, length, fds, maps, failures, cleanFailures>>
profvars == <<roots, detached, current, away, guards, clock, visits, resets, frames, truth>>
collarvars == <<kernel, role, born, qtable, sockets, meant, closed, tasks, did, collarPanicked,
                submitted, named, inKernel, cq, pending, clones, blocked>>
servervars == <<arrived, at, queue, moves, carried, asked, appstate, acceptq, ops, results,
                qts, connstate, remaining, batch, answers, serverPanicked>>
vars == <<focus, schedvars, watchvars, waitvars, ringvars, listvars, fifovars, shmvars, profvars, collarvars, servervars>>

-----------------------------------------------------------------------------
(* Pages of two keys and regions of 2, 2, ... entries, so that two tasks   *)
(* that come and go reach the second page and region.                      *)
Scheduler == INSTANCE Scheduler WITH
    Tasks <- {t1, t2}, FIRST_SLOT_SIZE <- 2, WAKER_BIT_LENGTH <- 2, MaxKey <- 3, MaxWakers <- 1,
    done <- finished, panicked <- schedulerPanicked

Watched == INSTANCE Watched WITH Nodes <- {n1, n2, n3}, state <- watch, panicked <- watchPanicked

(* Each wait call, with room for fewer results than there are tokens. *)
Wait == INSTANCE Wait WITH
    Tokens <- {t1, t2, n1}, MaxOps <- 3, Room <- 2,
    Calls <- {"wait2", "timedwait2", "wait_any2", "wait_any", "wait_any_nonblocking_one2"}
WaitAll == INSTANCE Wait WITH
    Tokens <- {t1, t2}, MaxOps <- 3, Room <- 2, Calls <- {"wait_any2", "wait_any_nonblocking2"}

(* A ring of two places with padding before the array and bytes left over, *)
(* and one of four that fill the region, with the two items in turn.       *)
Ring == INSTANCE RingBuffer WITH
    Values <- {t1, t2}, SizeOfT <- 16, Order <- "tso",
    Regions <- {[address |-> 0, size |-> 80], [address |-> 8, size |-> 87]}

LastItem ==
    LET items == SelectSeq(wstores, LAMBDA store : store.loc = "data")
    IN  IF items /= << >> THEN items[Len(items)].val
        ELSE data[(Ring!Seen(wstores, "back", back) - 1) % region.len]

RingNext ==
    /\ Ring!Next
    /\ region.len = 4 /\ writer.pc = "outside" /\ writer'.pc = "front" =>
        writer'.item = IF LastItem = t1 THEN t2 ELSE t1

List == INSTANCE LinkedList WITH Nodes <- {n1, n2, n3, n4}, list <- pointers

Fifo == INSTANCE IntrusiveQueue WITH Elements <- {n1, n2, n3}, MaxRefs <- 2, front <- first, back <- last, order <- fifo

(* Calls that fail while a region is set up, or dropped; and a program     *)
(* that opens a region only when it is set up.                             *)
Shm == INSTANCE SharedMemory WITH
    Processes <- {n1, n2}, Length <- 1, MaxObjects <- 2, MaxFailures <- 2, CleanFailures <- 1, Ordered <- FALSE
ShmOrdered == INSTANCE SharedMemory WITH
    Processes <- {n1, n2, n3}, Length <- 1, MaxObjects <- 2, MaxFailures <- 1, CleanFailures <- 0, Ordered <- TRUE

Profiler == INSTANCE Profiler WITH
    Names <- {t1, t2}, MaxDepth <- 3, MaxTime <- 1, MaxVisits <- 4, MaxResets <- 1, now <- clock

Collar == INSTANCE Catcollar WITH
    MaxQds <- 1, MaxFds <- 1, MaxSockets <- 1, MaxRequests <- 1, Tokens <- {t1, t2},
    Careful <- TRUE, OneAtATime <- TRUE, outcome <- did, panicked <- collarPanicked

(* In the first request the terminator follows a byte that looks like its  *)
(* beginning; each server gives the connection away after two requests.    *)
Server == INSTANCE HttpServer WITH
    Servers <- {s1, s2}, Conns <- {n1}, Home <- s1, BUFSZ <- 6, Stream <- <<"r", "r", "n", "x", "r", "n">>,
    MaxSeg <- 3, MigPerN <- 2, MaxMoves <- 6, Room <- 2000, done <- results, panicked <- serverPanicked

-----------------------------------------------------------------------------
Foci == {"scheduler", "watched", "wait", "wait all", "ring", "list", "fifo", "shm", "shm ordered", "profiler",
         "collar", "server"}

Init ==
    /\ focus \in Foci
    /\ Scheduler!Init /\ Watched!Init /\ List!Init /\ Fifo!Init /\ Profiler!Init
    /\ IF focus = "shm ordered" THEN ShmOrdered!Init ELSE Shm!Init
    /\ Collar!CollarInit /\ Server!Init
    /\ IF focus = "wait all" THEN WaitAll!Init ELSE Wait!Init
    /\ Ring!Init
    /\ focus /= "ring" => region.size = 80

Next ==
    \/ focus = "scheduler" /\ Scheduler!Next
       /\ UNCHANGED <<focus, watchvars, waitvars, ringvars, listvars, fifovars, shmvars, profvars, collarvars, servervars>>
    \/ focus = "watched" /\ Watched!Next
       /\ UNCHANGED <<focus, schedvars, waitvars, ringvars, listvars, fifovars, shmvars, profvars, collarvars, servervars>>
    \/ ((focus = "wait" /\ Wait!Next) \/ (focus = "wait all" /\ WaitAll!Next))
       /\ UNCHANGED <<focus, schedvars, watchvars, ringvars, listvars, fifovars, shmvars, profvars, collarvars, servervars>>
    \/ focus = "ring" /\ RingNext
       /\ UNCHANGED <<focus, schedvars, watchvars, waitvars, listvars, fifovars, shmvars, profvars, collarvars, servervars>>
    \/ focus = "list" /\ List!Next
       /\ UNCHANGED <<focus, schedvars, watchvars, waitvars, ringvars, fifovars, shmvars, profvars, collarvars, servervars>>
    \/ focus = "fifo" /\ Fifo!Next
       /\ UNCHANGED <<focus, schedvars, watchvars, waitvars, ringvars, listvars, shmvars, profvars, collarvars, servervars>>
    \/ ((focus = "shm" /\ Shm!Next) \/ (focus = "shm ordered" /\ ShmOrdered!Next))
       /\ UNCHANGED <<focus, schedvars, watchvars, waitvars, ringvars, listvars, fifovars, profvars, collarvars, servervars>>
    \/ focus = "profiler" /\ Profiler!Next
       /\ UNCHANGED <<focus, schedvars, watchvars, waitvars, ringvars, listvars, fifovars, shmvars, collarvars, servervars>>
    \/ focus = "collar" /\ Collar!CollarNext
       /\ UNCHANGED <<focus, schedvars, watchvars, waitvars, ringvars, listvars, fifovars, shmvars, profvars, servervars>>
    \/ focus = "server" /\ Server!Next
       /\ UNCHANGED <<focus, schedvars, watchvars, waitvars, ringvars, listvars, fifovars, shmvars, profvars, collarvars>>

(* The application keeps waiting, which runs poll(); woken coroutines are  *)
(* polled; both threads of a ring run and their stores become visible;     *)
(* the HTTP servers run, the client sends, and the migrations that the     *)
(* application asked for end.                                              *)
Fairness ==
    /\ WF_schedvars(focus = "scheduler" /\ Scheduler!Poll)
    /\ \A w \in {n1, n2, n3} : WF_watchvars(focus = "watched" /\ w \in runnable /\ ~watchPanicked /\ Watched!PollWatch(w))
    /\ WF_waitvars(focus = "wait all" /\ WaitAll!Enter)
    /\ WF_waitvars(focus = "wait all" /\ WaitAll!Turn)
    /\ WF_ringvars(focus = "ring" /\ (Ring!WriterLoads \/ Ring!WriterStores))
    /\ WF_ringvars(focus = "ring" /\ Ring!CommitWriter)
    /\ WF_ringvars(focus = "ring" /\ (Ring!Dequeue \/ Ring!ReaderLoads \/ Ring!ReaderCommits))
    /\ WF_ringvars(focus = "ring" /\ Ring!CommitReader)
    /\ \A t \in {t1, t2} : WF_collarvars(focus = "collar" /\ Collar!CanGoOn(t) /\ Collar!CollarPoll(t))
    /\ \A s \in {s1, s2} :
        /\ WF_servervars(focus = "server" /\ Server!Poll(s))
        /\ WF_servervars(focus = "server" /\ Server!Handle(s))
        /\ WF_servervars(focus = "server" /\ Server!Arrive(s, n1))
        /\ WF_servervars(focus = "server" /\ Server!MigrateIn(s, n1))
        /\ WF_servervars(focus = "server" /\ n1 \in asked /\ Server!MigrateOut(s, n1))

Spec == Init /\ [][Next]_vars /\ Fairness

-----------------------------------------------------------------------------

(* The ring of one writer and one reader implements a bounded queue, at    *)
(* the level of its loads and stores; and enqueue and dequeue return       *)
(* (RingBuffer::try_enqueue, try_dequeue).                                 *)
RingIsQueue ==
    /\ [](focus = "ring" => Ring!NoOverrun)
    /\ Ring!IsBoundedQueue
    /\ Ring!EnqueueReturns /\ Ring!DequeueReturns


(* A coroutine that waits for a change of a value resumes after it, also   *)
(* when other waits are dropped (WatchedValue::modify, WatchFuture).       *)
ChangesSeen ==
    /\ [](focus = "watched" => Watched!ListHoldsRegistered /\ Watched!ChangeWakes)
    /\ Watched!ChangeIsSeen

(* The intrusive list and the intrusive queue are sequences: any series of *)
(* operations leaves and returns what it would on a sequence, and every    *)
(* queued element is counted once (double_linked_list.rs,                  *)
(* intrusive_queue.rs).                                                    *)
CollectionsOrdered ==
    /\ focus = "list" => List!ListIsSequence /\ List!ReturnsAsSequence
    /\ focus = "fifo" => Fifo!QueueIsFifo /\ Fifo!CountsReferences

(* A process without a region holds no descriptor, mapping or name, also   *)
(* when a system call failed half way; it removes only its own name; and   *)
(* size() is the size of the region (SharedMemory::new, open, drop).       *)
RegionsReleased ==
    /\ [](focus = "shm" => Shm!NothingLeaks)
    /\ Shm!UnlinksItsOwn
    /\ [](focus = "shm ordered" => ShmOrdered!SizeIsTheRegions)

(* The profile is what happened since the last reset, also when reset is   *)
(* called inside scopes (Profiler::enter_scope, leave_scope, reset).       *)
ProfileTrue == focus = "profiler" => Profiler!CountsMatch /\ Profiler!SharesAddUp

(* The HTTP server answers every request, though its connection moves      *)
(* between servers with a request half received (push_data_and_run, the *)
(* application state that migrates with a connection).                     *)
AllAnswered == focus = "server" => Server!AllAnswered
=============================================================================
