--------------------------- MODULE MCLeaderFencing ---------------------------
(* A finite instance of LeaderFencing.                                   *)
EXTENDS LeaderFencing, TLC

Symm == Permutations(Nodes) \cup Permutations(Rows)
=============================================================================
