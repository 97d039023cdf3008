---------------------- MODULE MCHeartbeatRegistration ----------------------
(* HeartbeatRegistration with few commands, targets and lines.             *)
EXTENDS HeartbeatRegistration

CONSTANTS c1, c2, s1, s2

Symmetry == Permutations(Commands) \cup Permutations(Launches)
=============================================================================
