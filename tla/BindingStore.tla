---------------------------- MODULE BindingStore ----------------------------
(***************************************************************************)
(* What the pairing table of the dongle promises, without flash cells,     *)
(* slots or verification: the dongle serves one device of each type, and   *)
(* starts to serve another one only after that device is what a restart    *)
(* would serve.  Storing is not atomic, so a restart in the middle of it   *)
(* may find anything for the type being stored, and nothing else changed.  *)
(***************************************************************************)
CONSTANTS Type, Value, None
VARIABLES
  stored,  \* [Type -> Value], the devices a restart would serve
  served   \* [Type -> Value], the devices the dongle serves

Init ==
  /\ stored = [t \in Type |-> None]
  /\ served = stored

\* A part of a device id is stored; the other types are not touched.
Store(t) ==
  /\ \A u \in Type \ {t} : stored[u] = served[u] /\ stored'[u] = stored[u]
  /\ stored' \in [Type -> Value]
  /\ UNCHANGED served

\* The dongle serves what is stored: a pairing is complete, or it restarts.
Serve ==
  /\ served' = stored
  /\ UNCHANGED stored

Next == (\E t \in Type : Store(t)) \/ Serve

Spec == Init /\ [][Next]_<<stored, served>>
=============================================================================
