------------------------------ MODULE MCDriver ------------------------------
(* Instances of Driver for TLC. *)
EXTENDS Driver

\* Every await but the one that commits a turn.
BetweenTurns == Operations \ {"apply"}
Everywhere == Operations
=============================================================================
