---------------------------- MODULE MCRateLimiter -----------------------------
(* RateLimiter for small limits; its keys are interchangeable.             *)
EXTENDS RateLimiter, TLC

Symmetry == Permutations(Keys)
===============================================================================
