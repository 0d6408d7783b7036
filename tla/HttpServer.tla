----------------------------- MODULE HttpServer -----------------------------
(***************************************************************************)
(* The event loop of the HTTP server (examples/rust/http-server.rs) on two *)
(* servers between which connections migrate, over a network stack that    *)
(* polls in wait_any2: first packets are received, which may take a        *)
(* connection away, then the coroutines run, then the results are          *)
(* collected.                                                              *)
(*                                                                         *)
(* A queue descriptor is named by its connection.  Segments arrive in      *)
(* order and once: TcpMoved is about that.                                 *)
(***************************************************************************)
EXTENDS Integers, Sequences, SequencesExt, FiniteSets, TLC

(***************************************************************************)
(* The receive buffer of the HTTP server (examples/rust/http-server.rs)    *)
(* and the way it finds requests in a stream of bytes.                     *)
(*                                                                         *)
(* A byte is its position in the stream of the client.  The blank line     *)
(* that ends a request is shortened to the two bytes "r", "n".  A buffer   *)
(* is its data and head, the place in buf where the next byte goes; tail   *)
(* is head - Len(data).                                                    *)
(***************************************************************************)
CONSTANTS BUFSZ, Stream

Terminator == <<"r", "n">>
TermLen == Len(Terminator)

New == [data |-> << >>, head |-> 0]

DataSize(b) == Len(b.data)

(***************************************************************************)
(* The first place where the needle is found, 0 when there is none.        *)
(***************************************************************************)
FindSubsequence(data) ==
    LET found == {i \in 1 .. Len(data) - TermLen + 1 :
                     \A j \in 1 .. TermLen : Stream[data[i + j - 1]] = Terminator[j]} IN
    IF found = {} THEN 0 ELSE Min(found)

Fits(b, data) == b.head + Len(data) <= BUFSZ

PushData(b, data) == [data |-> b.data \o data, head |-> b.head + Len(data)]

PullData(b, size) == [b EXCEPT !.data = SubSeq(@, size + 1, Len(@))]

TryShrink(b) ==
    IF DataSize(b) = 0 THEN New
    ELSE IF b.head < BUFSZ THEN b
    ELSE [b EXCEPT !.head = DataSize(b)]

(***************************************************************************)
(* A buffer that migrates: only the data is written, and the new buffer    *)
(* starts at its front.                                                    *)
(***************************************************************************)
MutSerialize(b) == << >>

Serialize(b) == b.data

Deserialize(data) == PushData(New, data)

-----------------------------------------------------------------------------
(***************************************************************************)
(* The data is one request and the buffer is empty: it is not copied.      *)
(***************************************************************************)
FastPath(b, data) ==
    /\ DataSize(b) = 0
    /\ LET found == FindSubsequence(data) IN found /= 0 /\ found - 1 = Len(data) - TermLen

(***************************************************************************)
(* The loop of push_data_and_run: the requests in the buffer, and what is  *)
(* left in it.                                                             *)
(***************************************************************************)
RECURSIVE Run(_, _)
Run(b, requests) ==
    LET i == FindSubsequence(b.data) IN
    IF i = 0 THEN [requests |-> requests, buffer |-> b]
    ELSE Run(TryShrink(PullData(b, i + TermLen - 1)),
             Append(requests, SubSeq(b.data, 1, i + TermLen - 1)))

PushDataAndRun(b, data) ==
    IF FastPath(b, data) THEN [requests |-> <<data>>, buffer |-> b]
    ELSE Run(PushData(b, data), << >>)

-----------------------------------------------------------------------------

CONSTANTS
    Servers, Conns,
    Home,           \* the server clients connect to
    MaxSeg,         \* bound: bytes in a segment
    MigPerN,        \* MIG_PER_N; None: the stack chooses what migrates
    MaxMoves,       \* bound: migrations of a connection
    Room,           \* length of qrs, 2000 in the code
    None

VARIABLES
    arrived,    \* connection -> bytes of the stream that have arrived
    at,         \* connection -> the server it is established on, or None
    queue,      \* connection -> its receive queue, a sequence of segments
    moves,      \* connection -> migrations so far
    carried,    \* connection -> the migration in flight or not yet accepted
    asked,      \* connections whose migration the application asked for
    appstate,   \* server, connection -> application_state of the stack
    acceptq,    \* server -> connections that wait to be accepted
    ops,        \* server -> operations in the scheduler
    done,       \* server -> results not collected yet
    qts,        \* server -> the tokens in the list of the application
    connstate,  \* server, connection -> the application's buffer
    remaining,  \* server, connection -> requests_remaining
    batch,      \* server -> results that are still to be handled
    answers,    \* connection -> the requests that were answered
    panicked
net == <<arrived, at, queue, moves, carried, asked, acceptq>>
app == <<qts, connstate, remaining, batch>>
vars == <<net, app, appstate, ops, done, answers, panicked>>

AcceptOp == [kind |-> "accept", conn |-> None, n |-> 0]
PopOp(c) == [kind |-> "pop", conn |-> c, n |-> 0]
PushOp(c, n) == [kind |-> "push", conn |-> c, n |-> n]

Init ==
    /\ arrived = [c \in Conns |-> 0]
    /\ at = [c \in Conns |-> None]
    /\ queue = [c \in Conns |-> << >>]
    /\ moves = [c \in Conns |-> 0]
    /\ carried = [c \in Conns |-> None]
    /\ asked = {}
    /\ appstate = [s \in Servers |-> [c \in Conns |-> "none"]]
    /\ \E order \in SetToSeqs(Conns) :
          acceptq = [s \in Servers |-> IF s = Home THEN order ELSE << >>]
    /\ ops = [s \in Servers |-> {AcceptOp}]
    /\ done = [s \in Servers |-> {}]
    /\ qts = [s \in Servers |-> <<AcceptOp>>]
    /\ connstate = [s \in Servers |-> [c \in Conns |-> None]]
    /\ remaining = [s \in Servers |-> [c \in Conns |-> 0]]
    /\ batch = [s \in Servers |-> << >>]
    /\ answers = [c \in Conns |-> << >>]
    /\ panicked = "no"

-----------------------------------------------------------------------------
(* What the stack does while the application waits.                        *)

Waiting(s) == batch[s] = << >> /\ panicked = "no"

Arrive(s, c) ==
    /\ Waiting(s)
    /\ at[c] = s
    /\ \E n \in 1 .. MaxSeg :
          /\ arrived[c] + n <= Len(Stream)
          /\ arrived' = [arrived EXCEPT ![c] = @ + n]
          /\ queue' = [queue EXCEPT ![c] = Append(@, [i \in 1 .. n |-> arrived[c] + i])]
    /\ UNCHANGED <<at, moves, carried, asked, acceptq, app, appstate, ops, done, answers, panicked>>

(***************************************************************************)
(* PREPARE_MIGRATION_ACK is received: the connection leaves with its       *)
(* receive queue, and with the application state if one is registered.     *)
(***************************************************************************)
MigrateOut(s, c) ==
    /\ Waiting(s)
    /\ at[c] = s
    /\ MigPerN = None \/ c \in asked
    /\ moves[c] < MaxMoves
    /\ \E t \in Servers \ {s} :
          carried' = [carried EXCEPT ![c] =
              [to |-> t, landed |-> FALSE,
               state |-> IF appstate[s][c] = "registered" THEN Serialize(connstate[s][c]) ELSE None]]
    /\ appstate' = [appstate EXCEPT ![s][c] = "none"]
    /\ at' = [at EXCEPT ![c] = None]
    /\ moves' = [moves EXCEPT ![c] = @ + 1]
    /\ asked' = asked \ {c}
    /\ UNCHANGED <<arrived, queue, acceptq, app, ops, done, answers, panicked>>

(***************************************************************************)
(* The state arrives.  By then the operations of an earlier stay of the    *)
(* connection on this server have returned.                                *)
(***************************************************************************)
MigrateIn(t, c) ==
    /\ Waiting(t)
    /\ carried[c] /= None
    /\ carried[c].to = t /\ ~carried[c].landed
    /\ \A op \in ops[t] : op.conn /= c
    /\ carried' = [carried EXCEPT ![c].landed = TRUE]
    /\ appstate' = [appstate EXCEPT ![t][c] = IF carried[c].state = None THEN @ ELSE "migrated"]
    /\ acceptq' = [acceptq EXCEPT ![t] = Append(@, c)]
    /\ UNCHANGED <<arrived, at, queue, moves, asked, app, ops, done, answers, panicked>>

(***************************************************************************)
(* The coroutine of an operation can finish, and with what.                *)
(***************************************************************************)
Finishes(s, op) ==
    CASE op.kind = "accept" -> acceptq[s] /= << >>
      [] op.kind = "pop" -> at[op.conn] /= s \/ queue[op.conn] /= << >>
      [] op.kind = "push" -> TRUE

Result(s, op) ==
    CASE op.kind = "accept" -> [op |-> op, is |-> "accept", conn |-> Head(acceptq[s]), data |-> << >>]
      [] op.kind = "pop" /\ at[op.conn] = s ->
             [op |-> op, is |-> "pop", conn |-> op.conn, data |-> Head(queue[op.conn])]
      [] op.kind = "pop" /\ at[op.conn] /= s ->
             [op |-> op, is |-> "failed", conn |-> op.conn, data |-> << >>]
      [] op.kind = "push" -> [op |-> op, is |-> "push", conn |-> op.conn, data |-> << >>]

(***************************************************************************)
(* wait_any2 collects what has finished, in the order of the tokens.       *)
(***************************************************************************)
Numbers(n) == [i \in 1 .. n |-> i]

Indices(s, results) ==
    SelectSeq(Numbers(Len(qts[s])), LAMBDA i : \E r \in results : r.op = qts[s][i])

MutBackwards(s, results) ==
    LET order == Reverse(Indices(s, results)) IN
    [k \in DOMAIN order |-> [index |-> order[k],
                             result |-> CHOOSE r \in results : r.op = qts[s][order[k]]]]

Collect(s, results) ==
    LET order == Indices(s, results) IN
    [k \in 1 .. Min({Room, Len(order)}) |->
        [index |-> order[k], result |-> CHOOSE r \in results : r.op = qts[s][order[k]]]]

Poll(s) ==
    LET pending == {op \in ops[s] : \A r \in done[s] : r.op /= op}
        new == {Result(s, op) : op \in {o \in pending : Finishes(s, o)}}
        collected == Collect(s, done[s] \cup new)
        taken == {collected[k].result : k \in DOMAIN collected}
        accepted == {r.conn : r \in {x \in new : x.is = "accept"}}
        popped == {r.conn : r \in {x \in new : x.is = "pop"}} IN
    /\ Waiting(s)
    /\ new \cup done[s] /= {}
    /\ batch' = [batch EXCEPT ![s] = collected]
    /\ done' = [done EXCEPT ![s] = (@ \cup new) \ taken]
    /\ ops' = [ops EXCEPT ![s] = @ \ {r.op : r \in taken}]
    /\ acceptq' = [acceptq EXCEPT ![s] = IF accepted = {} THEN @ ELSE Tail(@)]
    /\ at' = [c \in Conns |-> IF c \in accepted THEN s ELSE at[c]]
    /\ queue' = [c \in Conns |-> IF c \in popped THEN Tail(queue[c]) ELSE queue[c]]
    /\ UNCHANGED <<arrived, moves, carried, asked, qts, connstate, remaining, appstate, answers, panicked>>

-----------------------------------------------------------------------------
(* What the application does with a result.                                *)

SwapRemove(seq, i) == Front([seq EXCEPT ![i] = Last(seq)])

Issue(s, newops) ==
    /\ ops' = [ops EXCEPT ![s] = @ \cup Range(newops)]
    /\ qts' = [qts EXCEPT ![s] = SwapRemove(@, Last(batch[s]).index) \o newops]

(***************************************************************************)
(* The state that came with the connection, or a new one.                  *)
(***************************************************************************)
AppState(s, c) ==
    IF appstate[s][c] = "migrated" THEN Deserialize(carried[c].state) ELSE New

HandleAccept(s, r) ==
    LET c == r.conn IN
    /\ r.is = "accept"
    /\ panicked' = IF at[c] = s THEN "no" ELSE "other"
    /\ connstate' = [connstate EXCEPT ![s][c] = AppState(s, c)]
    /\ appstate' = [appstate EXCEPT ![s][c] = "registered"]
    /\ remaining' = [remaining EXCEPT ![s][c] = IF MigPerN = None THEN 0 ELSE MigPerN]
    /\ carried' = [carried EXCEPT ![c] = None]
    /\ Issue(s, <<PopOp(c), AcceptOp>>)
    /\ UNCHANGED <<asked, answers>>

Respond(c, requests) == [i \in DOMAIN requests |-> PushOp(c, Len(answers[c]) + i)]

HandlePop(s, r) ==
    LET c == r.conn
        b == connstate[s][c]
        ran == PushDataAndRun(b, r.data)
        again == MigPerN = None \/ remaining[s][c] > 1 IN
    /\ r.is = "pop"
    /\ IF ~FastPath(b, r.data) /\ ~Fits(b, r.data)
       THEN /\ panicked' = IF DataSize(b) + Len(r.data) <= BUFSZ THEN "room" ELSE "full"
            /\ UNCHANGED <<answers, connstate, remaining, asked, ops, qts>>
       ELSE /\ panicked' = IF again \/ at[c] = s THEN "no" ELSE "other"
            /\ answers' = [answers EXCEPT ![c] = IF at[c] = s THEN @ \o ran.requests ELSE @]
            /\ connstate' = [connstate EXCEPT ![s][c] = ran.buffer]
            /\ remaining' = [remaining EXCEPT ![s][c] = IF MigPerN = None THEN @ ELSE @ - 1]
            /\ asked' = IF again THEN asked ELSE asked \cup {c}
            /\ Issue(s, Respond(c, ran.requests) \o IF again THEN <<PopOp(c)>> ELSE << >>)
    /\ UNCHANGED <<appstate, carried>>

(***************************************************************************)
(* A push is done, or the connection has migrated (ETCPMIG).               *)
(***************************************************************************)
HandleOther(s, r) ==
    /\ r.is \in {"push", "failed"}
    /\ Issue(s, << >>)
    /\ UNCHANGED <<connstate, appstate, remaining, carried, asked, answers, panicked>>

Handle(s) ==
    /\ panicked = "no"
    /\ batch[s] /= << >>
    /\ LET r == Last(batch[s]).result IN
       HandleAccept(s, r) \/ HandlePop(s, r) \/ HandleOther(s, r)
    /\ batch' = [batch EXCEPT ![s] = Front(@)]
    /\ UNCHANGED <<arrived, at, queue, moves, acceptq, done>>

Next ==
    \E s \in Servers :
        \/ Poll(s) \/ Handle(s)
        \/ \E c \in Conns : Arrive(s, c) \/ MigrateOut(s, c) \/ MigrateIn(s, c)

Spec == Init /\ [][Next]_vars

(***************************************************************************)
(* The servers run, the client sends and migrations end.  Only a migration *)
(* the application has asked for must happen.                              *)
(***************************************************************************)
Fairness ==
    \A s \in Servers :
        /\ WF_vars(Poll(s)) /\ WF_vars(Handle(s))
        /\ \A c \in Conns :
              /\ WF_vars(Arrive(s, c)) /\ WF_vars(MigrateIn(s, c))
              /\ WF_vars(c \in asked /\ MigrateOut(s, c))

FairSpec == Spec /\ Fairness

-----------------------------------------------------------------------------
(***************************************************************************)
(* The requests in the stream, by their definition: each goes on to the    *)
(* next terminator.                                                        *)
(***************************************************************************)
Ends ==
    SelectSeq(Numbers(Len(Stream)),
              LAMBDA i : i >= TermLen /\ SubSeq(Stream, i - TermLen + 1, i) = Terminator)

Requests ==
    LET from(k) == IF k = 1 THEN 1 ELSE Ends[k - 1] + 1 IN
    [k \in DOMAIN Ends |-> [i \in 1 .. Ends[k] - from(k) + 1 |-> from(k) + i - 1]]

(***************************************************************************)
(* Requests that arrive in pieces, over a connection that is taken away    *)
(* between any two waits, are answered whole, once and in order            *)
(* (push_data_and_run; Buffer::serialize; the poll order of wait_any2).    *)
(***************************************************************************)
AnswersInOrder ==
    \A c \in Conns : IsPrefix(answers[c], Requests)

(***************************************************************************)
(* The list of tokens is what the scheduler runs, each once, although the  *)
(* loop removes by index from a list that it appends to (swap_remove over  *)
(* the results in reverse).                                                *)
(***************************************************************************)
TokensMatch ==
    \A s \in Servers : Waiting(s) =>
        /\ Range(qts[s]) = ops[s]
        /\ \A i, j \in DOMAIN qts[s] : qts[s][i] = qts[s][j] => i = j

(***************************************************************************)
(* No byte is lost between the stack, the buffer and the migration: what   *)
(* has arrived on a connection is answered, or in its buffer, or in the    *)
(* state under way, or in its receive queue.                               *)
(***************************************************************************)
Buffered(c) ==
    IF carried[c] /= None /\ carried[c].state /= None THEN carried[c].state
    ELSE IF at[c] \in Servers /\ connstate[at[c]][c] /= None THEN connstate[at[c]][c].data
    ELSE << >>

NoByteLost ==
    (panicked = "no" /\ \A s \in Servers : Waiting(s)) =>
        \A c \in Conns :
            FlattenSeq(answers[c]) \o Buffered(c) \o FlattenSeq(queue[c]) = [i \in 1 .. arrived[c] |-> i]

(***************************************************************************)
(* Every request of every client is answered.                              *)
(***************************************************************************)
AllAnswered == <>(\A c \in Conns : answers[c] = Requests)

(***************************************************************************)
(* The server gives up only when the unanswered data does not fit the      *)
(* buffer ("Need larger buffer for HTTP messages").                        *)
(***************************************************************************)
PanicsOnlyWhenFull == panicked /= "room"
=============================================================================
