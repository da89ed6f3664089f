---------------------------- MODULE MCHostHop ----------------------------
(* Instance of HostHop for TLC: a custom mask with an odd channel, and the   *)
(* thresholds of rf_ll.c and rf_ll.h cut in proportion: 8/10 packets,        *)
(* differences of 2/8 hits, silence after 15/375 ticks.                      *)
EXTENDS HostHop

CustomMask  == [i \in Index |-> IF i = 0 THEN 9 ELSE 4]
ShortMaxPkt  == [m \in Mode |-> IF m = "normal" THEN 4 ELSE 5]
ShortHitDiff == [m \in Mode |-> IF m = "normal" THEN 1 ELSE 4]
ShortAlways  == [m \in Mode |-> IF m = "normal" THEN 2 ELSE 3]
=============================================================================
