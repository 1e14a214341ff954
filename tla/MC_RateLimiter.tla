--------------------------- MODULE MC_RateLimiter ---------------------------
(***************************************************************************)
(* RateLimiter for TLC.  The clock stops at MaxTime.                       *)
(***************************************************************************)
EXTENDS RateLimiter
=============================================================================
