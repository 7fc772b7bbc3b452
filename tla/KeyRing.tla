-------------------------------- MODULE KeyRing -------------------------------
(***************************************************************************)
(* What the key directory promises, without files: a manifest that lists   *)
(* the published keys and the active one, and a portal that serves what it *)
(* loaded when it started.  SigningKeys implements it file operation by    *)
(* file operation; Access builds on it.                                    *)
(***************************************************************************)
EXTENDS Naturals

CONSTANT Kids       \* numbers of the keys, in the order of generation

VARIABLES
    published,  \* the keys in the manifest
    active,     \* the one that signs after the next start, or 0
    loaded      \* the KeyStore of the running portal

ring == <<published, active, loaded>>

Unloaded == [keys |-> {}, active |-> 0]

Init ==
    /\ published = {}
    /\ active = 0
    /\ loaded = Unloaded

(* The first start, and the rotation command: a new key becomes active,    *)
(* the others stay published.                                              *)
Rotate(k) ==
    /\ k > active
    /\ published' = published \cup {k}
    /\ active' = k
    /\ UNCHANGED loaded

LoadActive ==
    /\ active \in published
    /\ loaded' = [keys |-> {active}, active |-> active]
    /\ UNCHANGED <<published, active>>

Load ==
    /\ active \in published
    /\ loaded' = [keys |-> published, active |-> active]
    /\ UNCHANGED <<published, active>>

Unload ==
    /\ loaded' = Unloaded
    /\ UNCHANGED <<published, active>>

(* By hand: README, "the retired key may be removed from manifest.json".   *)
Remove(k) ==
    /\ k \in published \ {active}
    /\ published' = published \ {k}
    /\ UNCHANGED <<active, loaded>>

Next ==
    \/ \E k \in Kids : Rotate(k) \/ Remove(k)
    \/ Load
    \/ Unload

Spec == Init /\ [][Next]_ring
===============================================================================
