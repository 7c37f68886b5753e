------------------------------ MODULE MCReplay -------------------------------
(* Values for TLC: every client forwards the one source there is.            *)
EXTENDS Replay, TLC

MCRetention == [s \in Sources |-> 0]
MCSourceOf == [k \in Clients |-> CHOOSE s \in Sources : TRUE]
=============================================================================
