----------------------------- MODULE SoftSwitch -----------------------------
(***************************************************************************)
(* The software switch (feature capybara-switch of tcp/peer.rs): clients   *)
(* open connections to one address, the switch gives each to a back end    *)
(* and rewrites the addresses of what passes, in both directions.          *)
(*                                                                         *)
(* Clients, back ends and the network between them are external.  Segments *)
(* may be delivered late, out of order and more than once; Retries says    *)
(* whether that holds for the SYN of a client too.                         *)
(***************************************************************************)
EXTENDS Integers, Sequences, FiniteSets, Functions

CONSTANTS
    Clients,
    BackendServers,     \* a sequence, four addresses in the code
    NumBackends,        \* NUM_BACKENDS
    Virtual,            \* the address of the switch, with port 10000
    Retries,
    NotFound

Backends == Range(BackendServers)

VARIABLES
    directory,  \* migration_directory: client -> back end, or NotFound
    be_idx,     \* BE_IDX
    inbound,    \* segments on their way to the switch
    outbound,   \* segments the switch has sent
    phase,      \* client -> how far its connection has come
    seen,       \* back end -> the clients it has had segments from
    panicked
vars == <<directory, be_idx, inbound, outbound, phase, seen, panicked>>

Segment(src, dst, kind) == [src |-> src, dst |-> dst, kind |-> kind]

Init ==
    /\ directory = [c \in Clients |-> NotFound]
    /\ be_idx = 0
    /\ inbound = {} /\ outbound = {}
    /\ phase = [c \in Clients |-> "closed"]
    /\ seen = [b \in Backends |-> {}]
    /\ panicked = FALSE

-----------------------------------------------------------------------------
(* The switch.                                                             *)

Get(addr) == IF addr \in Clients THEN directory[addr] ELSE NotFound

Transmitted(p) == outbound \cup {p}

NextIndex == (be_idx + 1) % NumBackends

ReceiveSyn(p) ==
    LET be == BackendServers[be_idx + 1] IN
    /\ p.kind = "syn"
    /\ panicked' = (Get(p.src) /= NotFound)
    /\ directory' = [directory EXCEPT ![p.src] = be]
    /\ outbound' = IF panicked' THEN outbound ELSE Transmitted([p EXCEPT !.dst = be])
    /\ be_idx' = IF panicked' THEN be_idx ELSE NextIndex
    /\ inbound' = IF Retries THEN inbound ELSE inbound \ {p}

MutRewrite(p) ==
    CASE Get(p.src) /= NotFound /\ Get(p.dst) = NotFound -> [p EXCEPT !.dst = BackendServers[be_idx + 1]]
      [] Get(p.src) = NotFound /\ Get(p.dst) /= NotFound -> [p EXCEPT !.src = Virtual]

Rewrite(p) ==
    CASE Get(p.src) /= NotFound /\ Get(p.dst) = NotFound -> [p EXCEPT !.dst = Get(p.src)]
      [] Get(p.src) = NotFound /\ Get(p.dst) /= NotFound -> [p EXCEPT !.src = Virtual]

ReceiveOther(p) ==
    /\ p.kind /= "syn"
    /\ panicked' = ((Get(p.src) = NotFound) = (Get(p.dst) = NotFound))
    /\ outbound' = IF panicked' THEN outbound ELSE Transmitted(Rewrite(p))
    /\ UNCHANGED <<directory, be_idx, inbound>>

Receive(p) ==
    /\ ~panicked
    /\ p \in inbound
    /\ ReceiveSyn(p) \/ ReceiveOther(p)
    /\ UNCHANGED <<phase, seen>>

-----------------------------------------------------------------------------
(* Clients and back ends.                                                  *)

Connect(c) ==
    /\ phase[c] = "closed"
    /\ phase' = [phase EXCEPT ![c] = "opening"]
    /\ inbound' = inbound \cup {Segment(c, Virtual, "syn")}
    /\ UNCHANGED <<directory, be_idx, outbound, seen, panicked>>

(***************************************************************************)
(* A client listens to the address it has connected to and to no other.    *)
(***************************************************************************)
ClientReceives(c, p) ==
    /\ p \in outbound
    /\ p.dst = c /\ p.src = Virtual
    /\ phase' = [phase EXCEPT ![c] = IF p.kind = "synack" /\ @ = "opening" THEN "open"
                                     ELSE IF p.kind = "data" /\ @ = "open" THEN "served" ELSE @]
    /\ inbound' = inbound \cup {Segment(c, Virtual, "data")}
    /\ UNCHANGED <<directory, be_idx, outbound, seen, panicked>>

BackendReceives(b, p) ==
    /\ p \in outbound
    /\ p.dst = b
    /\ seen' = [seen EXCEPT ![b] = @ \cup {p.src}]
    /\ inbound' = inbound \cup {Segment(b, p.src, IF p.kind = "syn" THEN "synack" ELSE "data")}
    /\ UNCHANGED <<directory, be_idx, outbound, phase, panicked>>

Addresses == Clients \cup Backends \cup {Virtual}

Segments == [src : Addresses, dst : Addresses, kind : {"syn", "synack", "data"}]

Next ==
    \/ \E p \in inbound : Receive(p)
    \/ \E c \in Clients : Connect(c) \/ \E p \in outbound : ClientReceives(c, p)
    \/ \E b \in Backends, p \in outbound : BackendReceives(b, p)

Spec == Init /\ [][Next]_vars

(***************************************************************************)
(* The switch polls for ever, clients connect, and what is sent arrives in *)
(* the end.                                                                *)
(***************************************************************************)
FairSpec ==
    /\ Spec
    /\ \A p \in Segments :
          /\ WF_vars(Receive(p))
          /\ \A c \in Clients : WF_vars(ClientReceives(c, p))
          /\ \A b \in Backends : WF_vars(BackendReceives(b, p))
    /\ \A c \in Clients : WF_vars(Connect(c))

-----------------------------------------------------------------------------
(***************************************************************************)
(* However segments are delayed, repeated and reordered, all segments of a *)
(* connection go to one back end (migration_directory).                    *)
(***************************************************************************)
OneBackend ==
    \A b1, b2 \in Backends : b1 /= b2 => seen[b1] \cap seen[b2] = {}

(***************************************************************************)
(* Connections go round the first NUM_BACKENDS servers: an earlier server  *)
(* has as many as a later one, or one more (BE_IDX).                       *)
(***************************************************************************)
Given(i) == Cardinality({c \in Clients : directory[c] = BackendServers[i]})

Balanced ==
    \A i, j \in 1 .. NumBackends : i < j => Given(i) - Given(j) \in {0, 1}

(***************************************************************************)
(* Every client is served.                                                 *)
(***************************************************************************)
Served == \A c \in Clients : <>(phase[c] = "served")

(***************************************************************************)
(* A SYN finds no entry for its client in the directory, and every other   *)
(* segment finds exactly one (the panics of receive).                      *)
(***************************************************************************)
SwitchRuns == ~panicked
=============================================================================
