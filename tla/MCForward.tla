------------------------------ MODULE MCForward ------------------------------
(* Values for TLC: every client forwards the one source there is.            *)
EXTENDS Forward, TLC

MCRetention == [s \in Sources |-> 0]
MCSourceOf == [k \in Clients |-> CHOOSE s \in Sources : TRUE]

Symmetry == Permutations(Channels) \cup Permutations(DeliveryIds)
=============================================================================
