------------------------------ MODULE MCRegistry ------------------------------
(* Registry with small sets of model values.  Ids, keys, sites and admin   *)
(* requests are interchangeable: nothing in Registry names one of them.    *)
EXTENDS Registry, TLC

Symmetry ==
    Permutations(Ids) \cup Permutations(Keys) \cup Permutations(Sites)
        \cup Permutations(Admins)
===============================================================================
