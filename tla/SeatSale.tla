------------------------------ MODULE SeatSale ------------------------------
(***************************************************************************)
(* What the ticket booking service promises: a seat is sold once, to one   *)
(* holder, for good: its first order is its last.  How a confirm gets      *)
(* there (locks, payments, retries, crashes) is SeatBooking's business.    *)
(***************************************************************************)
CONSTANTS Seats, Holders

VARIABLE orders     \* of each seat, in the order they were made

Init == orders = [s \in Seats |-> << >>]

Sell(s, h) ==
  /\ orders[s] = << >>
  /\ orders' = [orders EXCEPT ![s] = <<h>>]

Next == \E s \in Seats, h \in Holders : Sell(s, h)

Spec == Init /\ [][Next]_orders
=============================================================================
