--------------------------- MODULE MCChannelSync ---------------------------
EXTENDS ChannelSync

CustomMask == [i \in Index |-> IF i = 0 THEN 0 ELSE 7]
ShortMaxPkt  == [m \in Mode |-> IF m = "normal" THEN 3 ELSE 4]
ShortHitDiff == [m \in Mode |-> IF m = "normal" THEN 1 ELSE 3]
Always       == [m \in Mode |-> IF m = "normal" THEN 6 ELSE 12]
=============================================================================
