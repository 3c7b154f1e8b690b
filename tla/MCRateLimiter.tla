---------------------------- MODULE MCRateLimiter ----------------------------
(***************************************************************************)
(* A small limiter for TLC.                                                *)
(***************************************************************************)
EXTENDS RateLimiter, TLC

Symmetry == Permutations(Goroutines)
=============================================================================
