------------------------------- MODULE MCHealth -------------------------------
(* Health with what reports may say of the two counters.                   *)
EXTENDS Health

(* Either counter grows, stands still or falls, alone or with the other;   *)
(* packets_received may be missing.                                        *)
Metered == {<<0, 0>>, <<0, 1>>, <<1, 1>>, <<Null, 1>>}

(* Both counters grow once and fall under one started_at, and the report   *)
(* by which published grows may lack the packets.                          *)
Uneven == {<<0, 0>>, <<2, 1>>, <<1, 0>>, <<Null, 1>>}
===============================================================================
