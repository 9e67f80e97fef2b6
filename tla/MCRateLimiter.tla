--------------------------- MODULE MCRateLimiter ---------------------------
(* RateLimiter with one address and two handlers.                          *)
EXTENDS RateLimiter
=============================================================================
