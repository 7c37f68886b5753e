-------------------------------- MODULE MCPush --------------------------------
(* Values for TLC: no source has a retention, slots, ids, admins symmetric. *)
EXTENDS Push, TLC

MCRetention == [s \in Sources |-> 0]

Symmetry == Permutations(Channels) \cup Permutations(DeliveryIds) \cup Permutations(Admins)
=============================================================================
