------------------------------ MODULE DemiApi -------------------------------
(***************************************************************************)
(* The C interface of Demikernel (src/rust/demikernel/bindings.rs): the    *)
(* calls of an application, the checks the bindings make, the words they   *)
(* write and the codes they return, on top of a libOS that keeps queues,   *)
(* buffers and operations.                                                 *)
(*                                                                         *)
(* A wait spins in the libOS with DEMIKERNEL borrowed.  Meanwhile a signal *)
(* handler of the application may call the interface.  What the            *)
(* application knows (known, held, mine) it learns from the words a call   *)
(* wrote, and only when the call returned zero.                            *)
(***************************************************************************)
EXTENDS Integers, WaitScan, SequencesExt

(***************************************************************************)
(* What lies between the C interface and a libOS: the dispatch of a call   *)
(* to the libOS that was chosen (src/rust/demikernel/libos), and the       *)
(* conversions of results and addresses between Rust and C (pack_result of *)
(* the libOSes, sockaddr_to_socketaddrv4 of the bindings).                 *)
(*                                                                         *)
(* A port is its two bytes, high byte first.  The build is for a           *)
(* little-endian machine.                                                  *)
(***************************************************************************)
CONSTANT None

LibOSes == {"catnip", "catnap", "catpowder", "catcollar"}

(***************************************************************************)
(* The calls that NetworkLibOS forwards to every libOS.                    *)
(***************************************************************************)
SocketCalls == {"socket", "bind", "listen", "accept", "connect", "close"}
DataCalls == {"push", "push2", "pushto", "pushto2", "pop"}
WaitCalls == {"wait", "timedwait"}
MemoryCalls == {"sgaalloc", "sgafree"}

(***************************************************************************)
(* wait_any and try_wait_any are not there in every libOS: the arm of a    *)
(* libOS that lacks one is unimplemented!().  Catnip has a try_wait_any    *)
(* that is itself unimplemented!().                                        *)
(***************************************************************************)
WaitAnyCalls(lib) == IF lib = "catnap" THEN {} ELSE {"wait_any"}
TryWaitAny(lib) == IF lib = "catnip" THEN {"try_wait_any"} ELSE {}
CatnipMissing == {"try_wait_any"}

(***************************************************************************)
(* Only Catnip migrates connections, the others refuse.                    *)
(***************************************************************************)
InitiateMigration(lib) == IF lib = "catnip" THEN {"initiate_migration"} ELSE {}

(***************************************************************************)
(* Where a call ends: in the libOS, in an error, or in a panic.            *)
(***************************************************************************)
Dispatch(lib, call) ==
    CASE call \in SocketCalls \cup DataCalls \cup WaitCalls \cup MemoryCalls -> "libos"
      [] call \in WaitAnyCalls(lib) -> "libos"
      [] call \in TryWaitAny(lib) \ CatnipMissing -> "libos"
      [] call = "initiate_migration" ->
            IF call \in InitiateMigration(lib) THEN "libos" ELSE "unsupported"
      [] OTHER -> "panic"

-----------------------------------------------------------------------------
(***************************************************************************)
(* A struct sockaddr_in: sin_port is the pair of bytes in memory.  The     *)
(* bindings read it in network byte order; pack_result stores a u16 as the *)
(* machine does, low byte first.                                           *)
(***************************************************************************)

SockaddrToSocketaddrv4(sin) == [ip |-> sin.ip, port |-> <<sin.port[1], sin.port[2]>>]

SockaddrIn(endpoint) ==
    [family |-> "AF_INET", ip |-> endpoint.ip, port |-> <<endpoint.port[2], endpoint.port[1]>>]

(***************************************************************************)
(* The value of a union that was zeroed, and a zeroed socket address.      *)
(***************************************************************************)
Zeroed == [tag |-> "zeroed"]
ZeroAddr == [family |-> "AF_UNSPEC", ip |-> None, port |-> <<0, 0>>]

IntoSgarray(buf, addr) ==
    [tag |-> "sga", sga |-> buf,
     addr |-> IF addr = None THEN ZeroAddr ELSE SockaddrIn(addr)]

(***************************************************************************)
(* The result of an operation as C sees it.  A buffer without data (the    *)
(* end of a stream) has no scatter-gather array: into_sgarray fails.  Only *)
(* Catnip stores the error of an operation that failed.                    *)
(***************************************************************************)

CatnipPackResult(result, qd, qt) ==
    LET Packed(opcode, value) == [opcode |-> opcode, qd |-> qd, qt |-> qt, value |-> value] IN
    CASE result.kind \in {"connect", "push"} -> Packed(result.kind, Zeroed)
      [] result.kind = "accept" ->
            Packed("accept", [tag |-> "ares", qd |-> result.qd, addr |-> ZeroAddr])
      [] result.kind = "pop" /\ result.buf /= None ->
            Packed("pop", IntoSgarray(result.buf, result.addr))
      [] result.kind = "pop" /\ result.buf = None -> Packed("failed", Zeroed)
      [] result.kind = "failed" -> Packed("failed", [tag |-> "err", err |-> result.err])

CatpowderPackResult(result, qd, qt) ==
    IF result.kind = "failed"
    THEN [opcode |-> "failed", qd |-> qd, qt |-> qt, value |-> Zeroed]
    ELSE CatnipPackResult(result, qd, qt)

PackResult(lib, result, qd, qt) ==
    IF lib = "catnip" THEN CatnipPackResult(result, qd, qt)
                      ELSE CatpowderPackResult(result, qd, qt)

-----------------------------------------------------------------------------

CONSTANTS
    Lib,            \* the libOS that was built and chosen
    Qds, Tokens,    \* queue descriptors, places of the scheduler
    Bufs,           \* scatter-gather arrays
    Addrs,          \* addresses of remote hosts
    Ops,            \* operations the application issues
    Room,           \* bound: results demi_wait_any has room for
    MaxNow,         \* bound: the clock, in nanoseconds
    Seconds, Nanos, \* what tv_sec and tv_nsec are taken from
    NanosPerSec, Word,  \* 1_000_000_000 and 2^64, scaled down
    Replies         \* whether an address that was popped is pushed to

VARIABLES
    kernel,     \* DEMIKERNEL holds a libOS
    sockets,    \* the libOS: its queues,
    bufs,       \*   its buffers that are in use,
    ops,        \*   token -> operation, None when vacant
    waiting,    \* the wait that has DEMIKERNEL borrowed, None outside
    now,        \* the clock
    known, held, mine,  \* queues, tokens and buffers the application has
    heard,      \* an address the application popped, as C sees it
    last,       \* the last call that returned and what it wrote
    panicked
libos == <<sockets, bufs, ops>>
app == <<known, held, mine, heard>>
vars == <<kernel, sockets, bufs, ops, waiting, now, known, held, mine, heard, last, panicked>>

EBADF == 9
EBUSY == 16
EINVAL == 22
ENOSYS == 38
EOPNOTSUPP == 95
ETIMEDOUT == 110
Errnos == {EINVAL}

Live == {t \in Tokens : ops[t] /= None}
Done == {t \in Live : ops[t].result /= None}

(***************************************************************************)
(* The queue descriptors an application passes: those it was given, and    *)
(* numbers that are not, or no longer, a queue.                            *)
(***************************************************************************)
Given == known \cup (Qds \ sockets)

Init ==
    /\ kernel = FALSE
    /\ sockets = {} /\ bufs = {}
    /\ ops = [t \in Tokens |-> None]
    /\ waiting = None
    /\ now = 0
    /\ known = {} /\ held = {} /\ mine = {} /\ heard = None
    /\ last = [ret |-> 0]
    /\ panicked = FALSE

-----------------------------------------------------------------------------
(***************************************************************************)
(* A call returns to the application without having written a word.        *)
(***************************************************************************)
Returns(ret) ==
    /\ last' = [ret |-> ret]
    /\ UNCHANGED <<kernel, libos, waiting, now, app, panicked>>

(***************************************************************************)
(* do_syscall: the closure runs when DEMIKERNEL can be borrowed and holds  *)
(* a libOS.                                                                *)
(***************************************************************************)

Borrowed == waiting = None /\ kernel

Refused ==
    \/ waiting /= None /\ Returns(EBUSY)
    \/ waiting = None /\ ~kernel /\ Returns(ENOSYS)

(***************************************************************************)
(* The libOS refuses a call: it has no such queue, or for another reason.  *)
(***************************************************************************)
LibosFails(qd) ==
    \/ qd \notin sockets /\ Returns(EBADF)
    \/ qd \in sockets /\ \E e \in Errnos : Returns(e)

Accepts(call, qd) == Borrowed /\ qd \in sockets /\ Dispatch(Lib, call) = "libos"

(***************************************************************************)
(* The libOS creates an operation and the bindings write its token, which  *)
(* the application then has.                                               *)
(***************************************************************************)
Schedules(op) ==
    \E t \in Tokens \ Live :
       /\ ops' = [ops EXCEPT ![t] = op]
       /\ last' = [ret |-> 0]
       /\ held' = held \cup {t}
       /\ UNCHANGED <<kernel, sockets, bufs, waiting, now, known, mine, heard, panicked>>

Op(kind, qd, buf, asked, to) ==
    [kind |-> kind, qd |-> qd, buf |-> buf, asked |-> asked, to |-> to, result |-> None]

(***************************************************************************)
(* demi_init: CONFIG_PATH may be missing.  LIBOS names a libOS of the      *)
(* build, and the application does not call it again after a success.      *)
(***************************************************************************)
DemiInit ==
    /\ ~kernel
    /\ \/ Returns(-EINVAL)
       \/ /\ kernel' = TRUE
          /\ last' = [ret |-> 0]
          /\ UNCHANGED <<libos, waiting, now, app, panicked>>

DemiSocket ==
    \/ Refused
    \/ Borrowed /\ \E e \in Errnos : Returns(e)
    \/ /\ Borrowed
       /\ \E qd \in Qds \ sockets :
             /\ sockets' = sockets \cup {qd}
             /\ known' = known \cup {qd}
       /\ last' = [ret |-> 0]
       /\ UNCHANGED <<kernel, bufs, ops, waiting, now, held, mine, heard, panicked>>

(***************************************************************************)
(* The address an application passes: of a host, in network byte order, or *)
(* one that it popped; None stands for NULL, a wrong size or family.       *)
(***************************************************************************)
Sin(endpoint) == [family |-> "AF_INET", ip |-> endpoint.ip, port |-> endpoint.port]
Passed == {None} \cup {Sin(a) : a \in Addrs} \cup (IF Replies THEN {heard} ELSE {})

DemiBind ==
    \E qd \in Given, saddr \in Passed :
       IF saddr = None THEN Returns(EINVAL)
       ELSE \/ Refused
            \/ Borrowed /\ LibosFails(qd)
            \/ Accepts("bind", qd) /\ Returns(0)

DemiListen ==
    \E qd \in Given, backlog \in {0, 1} :
       IF backlog < 1 THEN Returns(EINVAL)
       ELSE \/ Refused
            \/ Borrowed /\ LibosFails(qd)
            \/ Accepts("listen", qd) /\ Returns(0)

DemiAccept ==
    \E qd \in Given :
       \/ Refused
       \/ Borrowed /\ LibosFails(qd)
       \/ Accepts("accept", qd) /\ Schedules(Op("accept", qd, None, None, None))

DemiConnect ==
    \E qd \in Given, saddr \in Passed :
       IF saddr = None THEN Returns(EINVAL)
       ELSE \/ Refused
            \/ Borrowed /\ LibosFails(qd)
            \/ /\ Accepts("connect", qd)
               /\ Schedules(Op("connect", qd, None, saddr, SockaddrToSocketaddrv4(saddr)))

DemiClose ==
    \E qd \in Given :
       \/ Refused
       \/ Borrowed /\ LibosFails(qd)
       \/ /\ Accepts("close", qd)
          /\ sockets' = sockets \ {qd}
          /\ known' = known \ {qd}
          /\ last' = [ret |-> 0]
          /\ UNCHANGED <<kernel, bufs, ops, waiting, now, held, mine, heard, panicked>>

DemiPushto ==
    \E qd \in Given, sga \in mine \cup {None}, saddr \in Passed :
       IF sga = None \/ saddr = None THEN Returns(EINVAL)
       ELSE \/ Refused
            \/ Borrowed /\ LibosFails(qd)
            \/ /\ Accepts("pushto", qd)
               /\ Schedules(Op("push", qd, sga, saddr, SockaddrToSocketaddrv4(saddr)))

DemiPush ==
    \E qd \in Given, sga \in mine \cup {None} :
       IF sga = None THEN Returns(EINVAL)
       ELSE \/ Refused
            \/ Borrowed /\ LibosFails(qd)
            \/ Accepts("push", qd) /\ Schedules(Op("push", qd, sga, None, None))

DemiPop ==
    \E qd \in Given :
       \/ Refused
       \/ Borrowed /\ LibosFails(qd)
       \/ Accepts("pop", qd) /\ Schedules(Op("pop", qd, None, None, None))

-----------------------------------------------------------------------------
(***************************************************************************)
(* The deadline in nanoseconds is computed in a u64.                       *)
(***************************************************************************)

Abstime(sec, nsec) == (sec * NanosPerSec + nsec) % Word

Enters(wait) ==
    /\ waiting' = wait
    /\ UNCHANGED <<kernel, libos, now, app, last, panicked>>

DemiTimedwait ==
    \E qt \in Tokens, abstime \in {None} \cup (Seconds \X Nanos) :
       IF abstime = None THEN Returns(EINVAL)
       ELSE \/ Refused
            \/ /\ Borrowed
               /\ IF qt \notin Live THEN Returns(EINVAL)
                  ELSE Enters([call |-> "timedwait", qts |-> <<qt>>,
                               until |-> Abstime(abstime[1], abstime[2]),
                               asked |-> abstime[1] * NanosPerSec + abstime[2]])

DemiWait ==
    \E qt \in Tokens :
       \/ Refused
       \/ /\ Borrowed
          /\ IF qt \notin Live THEN Returns(EINVAL)
             ELSE Enters([call |-> "wait", qts |-> <<qt>>, until |-> None, asked |-> None])

(***************************************************************************)
(* The application lists the tokens it has; timeout_us is -1 or more.      *)
(***************************************************************************)
DemiWaitAny ==
    /\ held /= {}
    /\ \/ Refused
       \/ /\ Borrowed
          /\ IF Dispatch(Lib, "wait_any") = "panic"
             THEN /\ panicked' = TRUE
                  /\ last' = [ret |-> 0, panic |-> "wait_any"]
                  /\ UNCHANGED <<kernel, libos, waiting, now, app>>
             ELSE \E until \in {None, now} :
                     Enters([call |-> "wait_any", qts |-> SetToSortSeq(held, <), 
                             until |-> until, asked |-> until])

(***************************************************************************)
(* The libOS finishes an operation while it polls in a wait.               *)
(***************************************************************************)
Results(op) ==
    {[kind |-> "failed", err |-> e] : e \in Errnos} \cup
    CASE op.kind \in {"connect", "push"} -> {[kind |-> op.kind]}
      [] op.kind = "accept" -> {[kind |-> "accept", qd |-> q, peer |-> a] : q \in Qds \ sockets, a \in Addrs}
      [] op.kind = "pop" -> {[kind |-> "pop", buf |-> b, addr |-> a] :
                                b \in (Bufs \ bufs) \cup {None}, a \in Addrs \cup {None}}

Poll ==
    /\ waiting /= None
    /\ \E t \in Live \ Done : \E r \in Results(ops[t]) :
          /\ ops' = [ops EXCEPT ![t].result = r]
          /\ sockets' = IF r.kind = "accept" THEN sockets \cup {r.qd} ELSE sockets
          /\ bufs' = IF r.kind = "pop" THEN bufs \cup ({r.buf} \ {None}) ELSE bufs
    /\ UNCHANGED <<kernel, waiting, now, app, last, panicked>>

Tick ==
    /\ waiting /= None /\ now < MaxNow
    /\ now' = now + 1
    /\ UNCHANGED <<kernel, libos, waiting, app, last, panicked>>

(***************************************************************************)
(* What the application learns from the results it finds in qr_out.        *)
(***************************************************************************)
NewQds(qrs) == {qr.value.qd : qr \in {q \in qrs : q.value.tag = "ares"}}
NewBufs(qrs) == {qr.value.sga : qr \in {q \in qrs : q.value.tag = "sga"}}
NewAddrs(qrs) == {qr.value.addr : qr \in {q \in qrs : q.value.tag = "sga" /\ q.value.addr /= ZeroAddr}}

(***************************************************************************)
(* A wait returns the results at some positions of its list: packed for C, *)
(* with the offsets of their tokens.                                       *)
(***************************************************************************)
Packed(t) == PackResult(Lib, ops[t].result, ops[t].qd, t)


Delivers(at) ==
    LET ts == {waiting.qts[i] : i \in at}
        qrs == {Packed(t) : t \in ts} IN
    /\ ops' = [t \in Tokens |-> IF t \in ts THEN None ELSE ops[t]]
    /\ waiting' = None
    /\ held' = held \ ts
    /\ known' = known \cup NewQds(qrs)
    /\ mine' = mine \cup NewBufs(qrs)
    /\ heard' = IF NewAddrs(qrs) = {} THEN heard ELSE CHOOSE a \in NewAddrs(qrs) : TRUE
    /\ last' = [ret |-> 0, pairs |-> {<<ops[t], Packed(t), t>> : t \in ts}]
    /\ UNCHANGED <<kernel, sockets, bufs, now, panicked>>

Expires(ret) ==
    /\ waiting' = None
    /\ last' = [ret |-> ret, asked |-> waiting.asked]
    /\ UNCHANGED <<kernel, libos, now, app, panicked>>

(***************************************************************************)
(* A wait that times out with nothing done: demi_timedwait fails,          *)
(* demi_wait_any returns zero with no results.                             *)
(***************************************************************************)
WaitReturns ==
    /\ waiting /= None
    /\ LET at == Taken(waiting.qts, Live, Done, Room)
           over == waiting.until /= None /\ now >= waiting.until IN
       \/ at /= {} /\ Delivers(at)
       \/ /\ at = {} /\ over
          /\ Expires(IF waiting.call = "timedwait" THEN ETIMEDOUT ELSE 0)

DemiWaitAnyNonblocking ==
    \E num \in {-1, 1} :
       IF num < 0 THEN Returns(EINVAL)
       ELSE \/ Refused
            \/ /\ Borrowed
               /\ panicked' = (Dispatch(Lib, "try_wait_any") = "panic")
               /\ last' = [ret |-> 0, panic |-> "wait_any_nonblocking"]
               /\ UNCHANGED <<kernel, libos, waiting, now, app>>

-----------------------------------------------------------------------------
(***************************************************************************)
(* A null array is returned when there is no libOS or no memory.           *)
(***************************************************************************)
DemiSgaalloc ==
    \/ Refused
    \/ Borrowed /\ bufs = Bufs /\ Returns(0)
    \/ /\ Borrowed
       /\ \E b \in Bufs \ bufs : bufs' = bufs \cup {b} /\ mine' = mine \cup {b}
       /\ last' = [ret |-> 0]
       /\ UNCHANGED <<kernel, sockets, ops, waiting, now, known, held, heard, panicked>>

(***************************************************************************)
(* The application frees no array that an operation still pushes.          *)
(***************************************************************************)
DemiSgafree ==
    \E sga \in (mine \ {ops[t].buf : t \in Live}) \cup {None} :
       IF sga = None THEN Returns(EINVAL)
       ELSE \/ Refused
            \/ /\ Borrowed
               /\ bufs' = bufs \ {sga}
               /\ mine' = mine \ {sga}
               /\ last' = [ret |-> 0]
               /\ UNCHANGED <<kernel, sockets, ops, waiting, now, known, held, heard, panicked>>

DemiGetsockname == Returns(ENOSYS)
DemiSetsockopt == Returns(ENOSYS)
DemiGetsockopt == Returns(ENOSYS)

(***************************************************************************)
(* Built with manual-tcp-migration; what a migration does to the           *)
(* connection is not a matter of the interface.                            *)
(***************************************************************************)
DemiInitiateMigration ==
    \E qd \in Given :
       \/ Refused
       \/ /\ Borrowed
          /\ IF Dispatch(Lib, "initiate_migration") = "unsupported"
             THEN Returns(EOPNOTSUPP)
             ELSE LibosFails(qd) \/ Returns(0)

Next ==
    /\ ~panicked
    /\ \/ DemiInit \/ DemiSocket \/ DemiBind \/ DemiListen \/ DemiClose
       \/ ("accept" \in Ops /\ DemiAccept) \/ ("connect" \in Ops /\ DemiConnect)
       \/ ("push" \in Ops /\ DemiPush) \/ ("pushto" \in Ops /\ DemiPushto)
       \/ ("pop" \in Ops /\ DemiPop)
       \/ DemiWait \/ DemiTimedwait \/ DemiWaitAny \/ DemiWaitAnyNonblocking
       \/ Poll \/ Tick \/ WaitReturns
       \/ DemiSgaalloc \/ DemiSgafree
       \/ DemiGetsockname \/ DemiSetsockopt \/ DemiGetsockopt \/ DemiInitiateMigration

Spec == Init /\ [][Next]_vars

-----------------------------------------------------------------------------
TypeOK ==
    /\ kernel \in BOOLEAN /\ panicked \in BOOLEAN
    /\ sockets \subseteq Qds /\ known \subseteq Qds
    /\ bufs \subseteq Bufs /\ mine \subseteq Bufs
    /\ held \subseteq Tokens
    /\ now \in 0 .. MaxNow

(***************************************************************************)
(* Nothing gets lost between the libOS and the application: each queue,    *)
(* operation and buffer of the libOS is one the application was told of,   *)
(* or is on its way in a result that no wait has delivered yet; and the    *)
(* application has none that the libOS does not have.  Calls that fail,    *)
(* waits that time out and calls of signal handlers included.              *)
(***************************************************************************)
NothingForgotten ==
    LET coming == {ops[t].result : t \in Done} IN
    /\ held = Live
    /\ sockets \ {r.qd : r \in {c \in coming : c.kind = "accept"}} \subseteq known
    /\ known \subseteq sockets
    /\ bufs = mine \cup {r.buf : r \in {c \in coming : c.kind = "pop" /\ c.buf /= None}}

(***************************************************************************)
(* A result that is delivered is that of the operation whose token it      *)
(* names: the queue, the token, and the kind of the operation unless it    *)
(* failed.  The offsets of demi_wait_any and the packing must agree.       *)
(***************************************************************************)
ResultMatches ==
    "pairs" \in DOMAIN last =>
        \A p \in last.pairs :
           /\ p[2].qd = p[1].qd /\ p[2].qt = p[3]
           /\ p[2].opcode \in {p[1].kind, "failed"}
           /\ (p[1].result.kind = "pop" /\ p[1].result.buf /= None) => p[2].value.sga = p[1].result.buf

(***************************************************************************)
(* An operation with an address goes to the host whose address, in network *)
(* byte order, the application passed (sockaddr_to_socketaddrv4).          *)
(***************************************************************************)
GoesWhereAsked ==
    \A t \in Live : ops[t].asked /= None => Sin(ops[t].to) = ops[t].asked

(***************************************************************************)
(* While a wait spins, the calls of a signal handler are turned away       *)
(* (do_syscall) and what the application has does not change.              *)
(***************************************************************************)
WaitUndisturbed ==
    [][waiting /= None /\ waiting' /= None => waiting' = waiting /\ app' = app]_vars

(***************************************************************************)
(* demi_timedwait gives up only when the clock has reached abstime.        *)
(***************************************************************************)
NoEarlyTimeout ==
    [][last'.ret = ETIMEDOUT /\ last' /= last => now >= last'.asked]_vars

(***************************************************************************)
(* An error is a positive code, of every call.                             *)
(***************************************************************************)
ErrorsArePositive == last.ret >= 0

(***************************************************************************)
(* The address in a popped array is the source of the data: a push to it   *)
(* goes to a host that has sent something.                                 *)
(***************************************************************************)
ReplyReachesSender == \A t \in Live : ops[t].to /= None => ops[t].to \in Addrs

Delivered(kind) == IF "pairs" \in DOMAIN last THEN {p \in last.pairs : p[1].result.kind = kind} ELSE {}

(***************************************************************************)
(* The result of an accept holds the address of the remote host.           *)
(***************************************************************************)
AcceptTellsPeer == \A p \in Delivered("accept") : p[2].value.addr.ip = p[1].result.peer.ip

(***************************************************************************)
(* The result of a push holds the array that was pushed.                   *)
(***************************************************************************)
PushReturnsArray == \A p \in Delivered("push") : p[2].value = [tag |-> "sga", sga |-> p[1].buf]

(***************************************************************************)
(* The result of an operation that failed holds the error code.            *)
(***************************************************************************)
FailedTellsError == \A p \in Delivered("failed") : p[2].value = [tag |-> "err", err |-> p[1].result.err]

(***************************************************************************)
(* demi_wait_any is there in the libOS that was chosen.                    *)
(***************************************************************************)
WaitAnyWorks == panicked => last.panic /= "wait_any"
=============================================================================
