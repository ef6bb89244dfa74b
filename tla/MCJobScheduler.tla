--------------------------- MODULE MCJobScheduler ---------------------------
(* A finite instance of JobScheduler.                                       *)
EXTENDS JobScheduler
=============================================================================
