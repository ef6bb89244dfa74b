--------------------------- MODULE MCRateLimiter ---------------------------
(* A finite instance of RateLimiter, on its own.                            *)
EXTENDS RateLimiter
=============================================================================
