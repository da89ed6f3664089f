---------------------------- MODULE KeyDelivery ----------------------------
(***************************************************************************)
(* What the radio link promises to a typist, without radio, sequence       *)
(* numbers or retries: key reports are handed in one after the other, the  *)
(* host receives each of them at most once and in order, possibly leaving  *)
(* some out, and a report is confirmed only if the host has received it.   *)
(* The one exception is a host that has received nothing since it was      *)
(* plugged in.                                                             *)
(***************************************************************************)
EXTENDS Naturals, Sequences

VARIABLES
  submitted,  \* number of key reports handed in
  received,   \* the reports the host has received since it was plugged in
  confirmed   \* the report confirmed last

vars == <<submitted, received, confirmed>>

Received(n) == \E i \in DOMAIN received : received[i] = n

Init ==
  /\ submitted = 0
  /\ received = <<>>
  /\ confirmed = 0

Submit ==
  /\ submitted' = submitted + 1
  /\ UNCHANGED <<received, confirmed>>

\* The newest report reaches the host: never again once it is there.
Deliver ==
  /\ \A i \in DOMAIN received : received[i] < submitted
  /\ received' = Append(received, submitted)

\* The keyboard learns that the newest report has arrived.
Confirm ==
  /\ confirmed' = submitted
  /\ Received(submitted)' \/ received' = <<>>

Exchange ==
  /\ Deliver \/ UNCHANGED received
  /\ Confirm \/ UNCHANGED confirmed
  /\ UNCHANGED submitted

Replug ==
  /\ received' = <<>>
  /\ UNCHANGED <<submitted, confirmed>>

Next == Submit \/ Exchange \/ Replug

Spec == Init /\ [][Next]_vars
=============================================================================
