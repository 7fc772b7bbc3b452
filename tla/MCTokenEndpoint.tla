---------------------------- MODULE MCTokenEndpoint ---------------------------
(* TokenEndpoint with small sets of model values, which are                *)
(* interchangeable.                                                        *)
EXTENDS TokenEndpoint, TLC

Symmetry == Permutations(Clients) \cup Permutations(Jtis)
===============================================================================
