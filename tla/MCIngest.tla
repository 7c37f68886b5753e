------------------------------- MODULE MCIngest -------------------------------
(* Values for TLC: uniform retention per source, symmetric requests and ids. *)
EXTENDS Ingest, TLC

CONSTANT RetentionOfEach

MCRetention == [s \in Sources |-> RetentionOfEach]

Symmetry == Permutations(Requests) \cup Permutations(DeliveryIds)
=============================================================================
