-------------------------- MODULE TcpMigReliable ---------------------------
(***************************************************************************)
(* What holds of every behaviour in which the links keep the order of      *)
(* their packets and lose none, and no application closes a connection.    *)
(***************************************************************************)
EXTENDS TcpMigFifo, TcpMigProofs

(* Over reliable links, the packets of a migration in flight and what the  *)
(* switch and the servers know always fit together.                        *)
THEOREM OrderlyCorrect == Reliable /\ Spec => []Orderly
<1> SUFFICES ASSUME Reliable
             PROVE  Spec => []Orderly
  OBVIOUS
<1>1. Inductive /\ Inductive' /\ Orderly /\ [Next]_vars => Orderly'
  BY OrderlyNext
<1> QED
  BY <1>1, OrderlyInit, InductiveCorrect, PTL DEF Spec

(* While links keep the order of their packets and lose none, and no       *)
(* application closes a connection, the switch routes every connection to  *)
(* the server that has it, or to the one whose PREPARE_MIG_ACK the holder  *)
(* is about to receive; and its state travels to the server it is routed   *)
(* to, however many connections migrate between however many servers.      *)
THEOREM RoutingAgreesCorrect == Reliable /\ Spec => []RoutingAgrees
<1>1. Inductive /\ Orderly => RoutingAgrees
  BY OrderlyOwner, OrderlyState DEF RoutingAgrees
<1> QED
  BY <1>1, InductiveCorrect, OrderlyCorrect, PTL

(* Under the same conditions no segment is dropped for want of its         *)
(* connection (TcpPeer::receive finds the control block, or TcpMigPeer     *)
(* buffers it), and none is left in the buffer of an origin, which goes    *)
(* away with CONN_STATE_ACK.                                               *)
THEOREM SegmentsFindTheConnectionCorrect == Reliable /\ Spec => []SegmentsFindTheConnection
BY OrderlySegments, InductiveCorrect, OrderlyCorrect, PTL

(* Under the same conditions no packet makes a server panic: neither "no   *)
(* such active migration" nor any of the expect and assert of the hand-off *)
(* can be reached.                                                         *)
THEOREM OnlyUsersPanicCorrect == Reliable /\ Spec => []OnlyUsersPanic
<1>1. Orderly => OnlyUsersPanic
  BY DEF Orderly
<1> QED
  BY <1>1, OrderlyCorrect, PTL

(* Under the same conditions TcpMigPeer::receive is right to take a        *)
(* PREPARE_MIG that finds an active migration for its own one, returned by *)
(* the switch.                                                             *)
THEOREM ReturnedIsOwnCorrect == Reliable /\ Spec => []ReturnedIsOwn
<1> SUFFICES ASSUME Reliable
             PROVE  Spec => []ReturnedIsOwn
  OBVIOUS
<1>1. Inductive /\ Orderly => ReturnedIsOwn
  BY OrderlyReturned
<1>2. Spec => []Orderly
  BY OrderlyCorrect
<1> QED
  BY <1>1, <1>2, InductiveCorrect, PTL

=============================================================================
