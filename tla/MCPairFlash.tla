---------------------------- MODULE MCPairFlash ----------------------------
(* Instance of PairFlash for TLC: bytes of two bits, ids of two bytes. *)
EXTENDS PairFlash

TwoBits == {0, 1}
\* Three devices: neither bit differs between all of them, and one clears everything.
Three == {<<{0}, {1}>>, <<{0, 1}, {0}>>, <<{}, {}>>}
Two == {<<{0}, {1}>>, <<{}, {0, 1}>>}
Both == {"soft", "manual"}
SoftOnly   == {"soft"}
ManualOnly == {"manual"}
=============================================================================
