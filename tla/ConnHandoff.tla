---------------------------- MODULE ConnHandoff ----------------------------
(***************************************************************************)
(* What connection migration promises.  A connection is at one server, or  *)
(* on its way between two, or lost on the way.  Segments are received and  *)
(* read only at the server that has the connection, and are read in order, *)
(* each once, wherever the connection has been.                            *)
(***************************************************************************)
EXTENDS Naturals, Sequences

CONSTANTS
    Server, Client,
    Transit, Lost,   \* the places of a connection that is at no server
    MaxSeg           \* bound: segments received at once

VARIABLES
    holder,   \* where the connection of a client is
    unread,   \* how many segments it has received that were not read yet
    read      \* the segments read, in order

vars == <<holder, unread, read>>

Init ==
    /\ holder \in [Client -> Server]
    /\ unread = [c \in Client |-> 0]
    /\ read = [c \in Client |-> <<>>]

(* The server that has the connection receives segments in order. *)
Receive(c) ==
    /\ holder[c] \in Server
    /\ \E n \in 1 .. MaxSeg : unread' = [unread EXCEPT ![c] = @ + n]
    /\ UNCHANGED <<holder, read>>

(* Its application reads the next one. *)
Read(c) ==
    /\ holder[c] \in Server
    /\ unread[c] > 0
    /\ unread' = [unread EXCEPT ![c] = @ - 1]
    /\ read' = [read EXCEPT ![c] = Append(@, Len(@) + 1)]
    /\ UNCHANGED holder

(* The connection leaves its server, arrives at one, or is lost between. *)
Depart(c) ==
    /\ holder[c] \in Server
    /\ holder' = [holder EXCEPT ![c] = Transit]
    /\ UNCHANGED <<unread, read>>

Arrive(c) ==
    /\ holder[c] = Transit
    /\ \E s \in Server : holder' = [holder EXCEPT ![c] = s]
    /\ UNCHANGED <<unread, read>>

Vanish(c) ==
    /\ holder[c] = Transit
    /\ holder' = [holder EXCEPT ![c] = Lost]
    /\ unread' = [unread EXCEPT ![c] = 0]
    /\ UNCHANGED read

Next == \E c \in Client : Receive(c) \/ Read(c) \/ Depart(c) \/ Arrive(c) \/ Vanish(c)

Spec == Init /\ [][Next]_vars
=============================================================================
