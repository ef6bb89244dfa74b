---------------------------- MODULE MCSeatBooking ----------------------------
(* A finite instance of SeatBooking.                                        *)
EXTENDS SeatBooking, TLC

Symm == Permutations(Requests) \cup Permutations(Holders) \cup Permutations(Seats) \cup Permutations(Keys)
=============================================================================
