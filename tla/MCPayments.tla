----------------------------- MODULE MCPayments -----------------------------
(* A finite instance of Payments.                                           *)
EXTENDS Payments

SmallAmounts == {-1, 3}
=============================================================================
