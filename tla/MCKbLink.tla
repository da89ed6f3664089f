---------------------------- MODULE MCKbLink ----------------------------
(* Instance of KbLink for TLC.  The constants are small but keep the order  *)
(* the properties depend on: NoLink < RetryThresh (400 < 1024),             *)
(* SilenceLoops < BasicLoops (1 s < 166 * 12 ms), 1 < LongLoops.            *)
EXTENDS KbLink
=============================================================================
