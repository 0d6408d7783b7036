------------------------------ MODULE MCTcpMig ------------------------------
(* Instances of TcpMig for TLC. *)
EXTENDS TcpMig, TLC

CONSTANTS MaxInit, MaxClose, MaxLose, MaxRetx, MaxApp

MCBudget == [init |-> MaxInit, close |-> MaxClose, lose |-> MaxLose, retx |-> MaxRetx, app |-> MaxApp]

Symmetry == Permutations(Client)
=============================================================================
