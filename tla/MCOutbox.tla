------------------------------- MODULE MCOutbox -------------------------------
(* A finite instance of Outbox.                                             *)
EXTENDS Outbox
=============================================================================
