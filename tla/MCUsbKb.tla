------------------------------ MODULE MCUsbKb ------------------------------
(* Instance of UsbKb for TLC: one report of each class of keys. *)
EXTENDS UsbKb

FewKeys == [normal |-> {"a"}, sys |-> {"sleep"}, media |-> {"volume"}]
LessKeys == [normal |-> {"a"}, sys |-> {}, media |-> {"volume"}]
=============================================================================
