--------------------------- MODULE MCRideMatching ---------------------------
(* A finite instance of RideMatching.                                       *)
EXTENDS RideMatching, TLC

Symm == Permutations(Flows) \cup Permutations(Requests) \cup Permutations(Drivers)
=============================================================================
