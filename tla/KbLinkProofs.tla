---------------------------- MODULE KbLinkProofs ----------------------------
(***************************************************************************)
(* Proofs about KbLink, for every value of its constants: types, the       *)
(* invariants of the link, that it implements KeyDelivery and what that    *)
(* means for the typist, what ends the transmissions of a keyboard nobody  *)
(* answers, and what becomes of a dongle's request for the id.             *)
(***************************************************************************)
EXTENDS KbLink, TLAPS

-----------------------------------------------------------------------------
(* Types *)

\* pkt_km.seq_no++ stays a byte and always changes the number.
LEMMA NextSeq ==
  ASSUME NEW s \in 0..SeqMod-1
  PROVE  (s + 1) % SeqMod \in 0..SeqMod-1 /\ (s + 1) % SeqMod # s
<1>1. CASE s + 1 < SeqMod
  <2>1. (s + 1) % SeqMod = s + 1
    BY <1>1, LinkAssumption
  <2> QED
    BY <1>1, <2>1, LinkAssumption
<1>2. CASE s + 1 = SeqMod
  <2>1. (s + 1) % SeqMod = 0
    BY <1>2, LinkAssumption
  <2> QED
    BY <1>2, <2>1, LinkAssumption
<1> QED
  BY <1>1, <1>2, LinkAssumption

\* The elements of a sequence over S are in S.
LEMMA ElementOfSeq ==
  ASSUME NEW S, NEW s \in Seq(S), NEW i \in DOMAIN s
  PROVE  s[i] \in S
OBVIOUS

\* Append adds one element at the end and leaves the others alone.
LEMMA AppendFacts ==
  ASSUME NEW S, NEW s \in Seq(S), NEW e \in S
  PROVE  /\ Append(s, e) \in Seq(S)
         /\ Len(s) \in Nat /\ DOMAIN s = 1..Len(s)
         /\ DOMAIN Append(s, e) = 1..Len(s)+1
         /\ Append(s, e)[Len(s)+1] = e
         /\ \A i \in 1..Len(s) : Append(s, e)[i] = s[i]
OBVIOUS

\* Zero is in the range of every counter.
LEMMA Zeros ==
  /\ 0 \in 0..SeqMod-1 /\ 0 \in 0..MaxEvents /\ 0 \in 0..SilenceLoops
  /\ 0 \in 0..RetryThresh /\ 0 \in 0..NoLink /\ 1 \in 0..NoLink
  /\ 0 \in 0..YoungLoops /\ 0 \in 0..TxRetry /\ 0 \in 0..MaxBoots
  /\ 0 \in 0..MaxReplugs
  /\ Larger(BasicLoops, LongLoops) \in Nat
  /\ 0 \in 0..Larger(BasicLoops, LongLoops)
<1>1. Larger(BasicLoops, LongLoops) \in Nat
  BY LinkAssumption DEF Larger
<1> QED
  BY <1>1, LinkAssumption

LEMMA BlankType == BlankPacket \in Packet
BY Zeros DEF BlankPacket, Packet, Kind

LEMMA TypeInit == Init => TypeOK
<1> SUFFICES ASSUME Init PROVE TypeOK
  OBVIOUS
<1>1. log \in Seq(1..MaxEvents)
  BY DEF Init
<1> QED
  BY <1>1, Zeros, BlankType DEF Init, TypeOK

\* Whatever a scan returns, the packet it loads is a packet.
LEMMA LoadedType ==
  ASSUME TypeOK, NEW h \in BOOLEAN, NEW k \in Kind \cup {"none", "forced"},
         ScanYields(h, k), Reported(k) \/ Joins
  PROVE  /\ Loaded(k) \in Packet
         /\ IsEvent(k) => popped + 1 \in 0..MaxEvents
<1>1. IsEvent(k) => popped + 1 \in 0..MaxEvents
  BY LinkAssumption DEF IsEvent, ScanYields, TypeOK, Kind
<1>2. (pkt.seq + 1) % SeqMod \in 0..SeqMod-1
  BY NextSeq DEF TypeOK, Packet
<1>3. (IF Joins THEN "zero" ELSE KindAfter(k)) \in Kind
  BY DEF Reported, KindAfter, Kind
<1> QED
  BY <1>1, <1>2, <1>3, LinkAssumption DEF Loaded, Packet

LEMMA LoadPacketType ==
  ASSUME TypeOK, NEW h \in BOOLEAN, NEW k \in Kind \cup {"none", "forced"},
         ScanYields(h, k), LoadPacket(k)
  PROVE  /\ valid' \in BOOLEAN /\ pkt' \in Packet /\ popped' \in 0..MaxEvents
         /\ sending' \in BOOLEAN /\ thresh' \in 0..RetryThresh
<1> DEFINE new == Reported(k) \/ Joins
<1> DEFINE p   == IF new THEN Loaded(k) ELSE pkt
<1>1. p \in Packet
  BY LoadedType DEF TypeOK
<1>2. /\ [p EXCEPT !.did = TRUE, !.type = "SEND_ID"] \in Packet
      /\ [p EXCEPT !.type = "KEYBOARD"] \in Packet
  BY <1>1 DEF Packet
<1>3. pkt' \in Packet
  BY <1>2 DEF LoadPacket
<1>4. popped' \in 0..MaxEvents
  BY LoadedType DEF LoadPacket, TypeOK
<1>5. valid' \in BOOLEAN
  BY DEF LoadPacket, TypeOK
<1> DEFINE left == IF new \/ AllowId(new, p) THEN RetryThresh ELSE thresh
<1>6. sending' \in BOOLEAN
  <2>1. sending' = (left # 0) \/ sending' = sending
    BY DEF LoadPacket
  <2> QED
    BY <2>1 DEF TypeOK
<1>7. thresh' \in 0..RetryThresh
  <2>1. left \in 0..RetryThresh
    BY LinkAssumption DEF TypeOK
  <2>2. thresh' = thresh \/ thresh' = IF left # 0 THEN left - 1 ELSE 0
    BY DEF LoadPacket
  <2> HIDE DEF left
  <2> QED
    BY <2>1, <2>2, LinkAssumption DEF TypeOK
<1> QED
  BY <1>3, <1>4, <1>5, <1>6, <1>7

LEMMA LoopType ==
  ASSUME TypeOK, NEW h \in BOOLEAN, NEW k \in Kind \cup {"none", "forced"},
         Loop(h, k)
  PROVE  TypeOK'
<1>1. /\ valid' \in BOOLEAN /\ pkt' \in Packet /\ popped' \in 0..MaxEvents
      /\ sending' \in BOOLEAN /\ thresh' \in 0..RetryThresh
  BY LoadPacketType DEF Loop, TypeOK
<1>2. locked' \in BOOLEAN /\ lastZero' \in BOOLEAN /\ held' \in BOOLEAN
  BY DEF Loop, TypeOK, LockAfter
<1>3. /\ kbMode' \in {"SYNCING", "NORMAL", "WAIT_DEEP", "DEEP"}
      /\ phase' \in {"scan", "tx", "pmBusy", "pmIdle"}
      /\ loops' \in 0..YoungLoops
  BY LinkAssumption DEF Loop, TypeOK
<1> QED
  BY <1>1, <1>2, <1>3 DEF Loop, TypeOK, dongleVars

LEMMA FreshRamType ==
  ASSUME FreshRam
  PROVE  /\ lastZero' \in BOOLEAN /\ valid' \in BOOLEAN
         /\ silence' \in 0..SilenceLoops /\ pkt' \in Packet /\ sending' \in BOOLEAN
         /\ thresh' \in 0..RetryThresh /\ sendId' \in BOOLEAN
         /\ noAck' \in 0..NoLink /\ loops' \in 0..YoungLoops
         /\ sleep' \in {"BASIC", "LONG", "WAIT_DEEP"}
         /\ cnt' \in 0..Larger(BasicLoops, LongLoops) /\ held' \in BOOLEAN
         /\ phase' \in {"scan", "tx", "pmBusy", "pmIdle"} /\ tries' \in 0..TxRetry
BY Zeros, BlankType DEF FreshRam

LEMMA FinishType ==
  ASSUME TypeOK, NEW f \in Fate, Finish(f) \/ Miss
  PROVE  /\ tries' \in 0..TxRetry /\ noAck' \in 0..NoLink
         /\ phase' \in {"scan", "tx", "pmBusy", "pmIdle"}
         /\ sending' \in BOOLEAN /\ silence' \in 0..SilenceLoops
         /\ acked' \in 0..MaxEvents
<1>1. Miss => tries' \in 0..TxRetry /\ noAck' \in 0..NoLink
  BY LinkAssumption DEF Miss, Least, TypeOK
<1>2. CASE Miss
  BY <1>1, <1>2 DEF Miss, TypeOK
<1>3. CASE Done
  <2>1. pkt.ev \in 0..MaxEvents
    BY DEF TypeOK, Packet
  <2> QED
    BY <1>3, <2>1, Zeros DEF Done, TypeOK
<1> QED
  BY <1>2, <1>3 DEF Finish

LEMMA RadioType ==
  ASSUME TypeOK, TxLost \/ Heard
  PROVE  TypeOK'
<1>1. CASE TxLost
  BY <1>1, FinishType DEF TxLost, Fate, TypeOK, txFrame, dongleVars
<1>2. ASSUME NEW f \in Fate, NEW strong \in BOOLEAN, TxPairing(f, strong)
      PROVE  TypeOK'
  <2>1. /\ tries' \in 0..TxRetry /\ noAck' \in 0..NoLink
        /\ phase' \in {"scan", "tx", "pmBusy", "pmIdle"}
        /\ sending' \in BOOLEAN /\ silence' \in 0..SilenceLoops
        /\ acked' \in 0..MaxEvents
    BY <1>2, FinishType DEF TxPairing
  <2>2. linked' \in BOOLEAN /\ bound' \in {"none", "kb", "other"}
    BY <1>2 DEF TxPairing, TypeOK
  <2> QED
    BY <1>2, <2>1, <2>2 DEF TxPairing, TypeOK, txFrame
<1>3. ASSUME NEW f \in Fate, NEW asks \in BOOLEAN, TxKeyboard(f, asks)
      PROVE  TypeOK'
  <2>1. /\ tries' \in 0..TxRetry /\ noAck' \in 0..NoLink
        /\ phase' \in {"scan", "tx", "pmBusy", "pmIdle"}
        /\ sending' \in BOOLEAN /\ silence' \in 0..SilenceLoops
        /\ acked' \in 0..MaxEvents
    BY <1>3, FinishType DEF TxKeyboard
  <2>2. bound' \in {"none", "kb", "other"} /\ askId' \in BOOLEAN /\ gotId' \in BOOLEAN
    BY <1>3 DEF TxKeyboard, LearnId, BoundAfter, TypeOK
  <2>3. dseq' \in 0..SeqMod-1 /\ log' \in Seq(1..MaxEvents)
    <3>1. ASSUME pkt.ev # 0 PROVE Append(log, pkt.ev) \in Seq(1..MaxEvents)
      <4>1. pkt.ev \in 1..MaxEvents
        BY <3>1, LinkAssumption DEF TypeOK, Packet
      <4>2. log \in Seq(1..MaxEvents)
        BY DEF TypeOK
      <4> QED
        BY <4>1, <4>2
    <3>2. pkt.seq \in 0..SeqMod-1
      BY DEF TypeOK, Packet
    <3>3. dseq' \in 0..SeqMod-1
      BY <1>3, <3>2 DEF TxKeyboard, PassOn, TypeOK
    <3>4. log' = log \/ (pkt.ev # 0 /\ log' = Append(log, pkt.ev))
      BY <1>3 DEF TxKeyboard, PassOn
    <3>5. log \in Seq(1..MaxEvents)
      BY DEF TypeOK
    <3> QED
      BY <3>1, <3>3, <3>4, <3>5
  <2>4. sendId' \in BOOLEAN /\ valid' \in BOOLEAN /\ working' \in BOOLEAN
    BY <1>3 DEF TxKeyboard, TakeAnswer, TypeOK
  <2> QED
    BY <1>3, <2>1, <2>2, <2>3, <2>4 DEF TxKeyboard, TypeOK, txFrame
<1> QED
  BY <1>1, <1>2, <1>3 DEF Heard

LEMMA PmType ==
  ASSUME TypeOK, NEW led \in BOOLEAN,
         Suspend(led) \/ WaitDeep(led) \/ DeepSleep(led)
  PROVE  TypeOK'
<1>1. silence \in 0..SilenceLoops => Least(silence + 1, SilenceLoops) \in 0..SilenceLoops
  BY LinkAssumption DEF Least
<1>2. CASE Suspend(led)
  <2>1. sleep' \in {"BASIC", "LONG", "WAIT_DEEP"}
    BY <1>2 DEF Suspend, SleepStep, TypeOK
  <2>2. cnt' \in 0..Larger(BasicLoops, LongLoops)
    <3>1. cnt' \in {0, 1, cnt} \/ cnt' = cnt + 1
      BY <1>2 DEF Suspend, SleepStep
    <3>3. cnt \in Nat /\ cnt <= Larger(BasicLoops, LongLoops)
      BY Zeros DEF TypeOK
    <3>2. cnt' = cnt + 1 => cnt + 1 < BasicLoops \/ cnt + 1 <= LongLoops
                            \/ cnt' \in {0, 1, cnt}
      BY <1>2, <3>3, LinkAssumption DEF Suspend, SleepStep, GoesDeep
    <3>4. BasicLoops <= Larger(BasicLoops, LongLoops)
          /\ LongLoops <= Larger(BasicLoops, LongLoops)
      BY LinkAssumption DEF Larger
    <3> QED
      BY <3>1, <3>2, <3>3, <3>4, Zeros, LinkAssumption
  <2>3. loops' \in 0..YoungLoops
    BY <1>2, LinkAssumption DEF Suspend, Least, TypeOK
  <2> QED
    BY <1>1, <1>2, <2>1, <2>2, <2>3 DEF Suspend, TypeOK, pmFrame, dongleVars
<1>3. CASE WaitDeep(led)
  <2>1. cnt' \in 0..Larger(BasicLoops, LongLoops) /\ loops' \in 0..YoungLoops
    BY <1>3, LinkAssumption DEF WaitDeep, Larger
  <2> QED
    BY <1>1, <1>3, <2>1 DEF WaitDeep, TypeOK, pmFrame, dongleVars
<1>4. CASE DeepSleep(led)
  BY <1>4, FreshRamType DEF DeepSleep, TypeOK, pmFrame, dongleVars
<1> QED
  BY <1>2, <1>3, <1>4

LEMMA TypeStep == TypeOK /\ [Next]_vars => TypeOK'
<1> SUFFICES ASSUME TypeOK, [Next]_vars PROVE TypeOK'
  OBVIOUS
<1>1. CASE Scan
  BY <1>1, LoopType DEF Scan
<1>2. CASE TxLost \/ Heard
  BY <1>2, RadioType
<1>3. CASE Pm
  BY <1>3, PmType DEF Pm
<1>4. CASE Wake
  BY <1>4, FreshRamType, LinkAssumption DEF Wake, TypeOK, dongleVars
<1>5. CASE BatteryChange
  <2>1. boots' \in 0..MaxBoots
    BY <1>5, LinkAssumption DEF BatteryChange, TypeOK
  <2>2. /\ kbMode' \in {"SYNCING", "NORMAL", "WAIT_DEEP", "DEEP"}
        /\ linked' \in BOOLEAN /\ locked' \in BOOLEAN
    BY <1>5 DEF BatteryChange
  <2> QED
    BY <1>5, <2>1, <2>2, FreshRamType DEF BatteryChange, TypeOK, dongleVars
<1>6. CASE Replug
  <2>1. log' \in Seq(1..MaxEvents) /\ dseq' \in 0..SeqMod-1
        /\ replugs' \in 0..MaxReplugs
    BY <1>6, Zeros, LinkAssumption DEF Replug, TypeOK
  <2>2. bound' \in {"none", "kb", "other"} /\ working' \in BOOLEAN
        /\ askId' \in BOOLEAN /\ gotId' \in BOOLEAN
    BY <1>6 DEF Replug
  <2> QED
    BY <1>6, <2>1, <2>2 DEF Replug, TypeOK, kbVars
<1>7. CASE OtherPairs
  BY <1>7 DEF OtherPairs, TypeOK, kbVars
<1>8. CASE UNCHANGED vars
  BY <1>8 DEF vars, kbVars, dongleVars, TypeOK
<1> QED
  BY <1>1, <1>2, <1>3, <1>4, <1>5, <1>6, <1>7, <1>8 DEF Next

\* Every reachable state is well typed.
THEOREM LinkTypeCorrect == Spec => []TypeOK
BY TypeInit, TypeStep, PTL DEF Spec
-----------------------------------------------------------------------------
(* The inductive invariant *)

\* The report in pkt_km is the newest one, the host has nothing newer, and once
\* the host has it the dongle remembers its number.
Numbering ==
  /\ pkt.ev \in {0, popped}
  /\ \A i \in DOMAIN log : log[i] <= popped
  /\ pkt.ev # 0 /\ Delivered(pkt.ev) => dseq = pkt.seq

\* Real keys are read only while the host status is known and nothing is being
\* sent; the dongle's number is then the keyboard's, if it has passed anything on.
InStep == kbMode = "NORMAL" /\ valid /\ ~sending /\ log # <<>> => dseq = pkt.seq

\* Every loop of a report that is being sent costs one retry and one no_ack.
Budget ==
  /\ kbMode = "NORMAL" => linked
  /\ kbMode = "NORMAL" /\ sending => phase # "pmIdle"
  /\ kbMode = "NORMAL" /\ sending /\ phase = "scan" =>
       noAck < NoLink /\ thresh + noAck >= RetryThresh
  /\ kbMode = "NORMAL" /\ sending /\ phase = "tx" =>
       thresh + noAck >= RetryThresh - 1
  /\ kbMode = "NORMAL" /\ sending /\ phase = "pmBusy" =>
       noAck = NoLink \/ thresh + noAck >= RetryThresh

\* Loops without radio age the host status faster than they lead to sleep.
Idling ==
  kbMode = "NORMAL" /\ phase \in {"scan", "pmIdle"} =>
    /\ sleep = "BASIC" => cnt <= silence \/ silence = SilenceLoops
    /\ sleep = "LONG" => silence = SilenceLoops
    /\ sleep = "LONG" /\ (phase = "pmIdle" \/ cnt >= 2) => ~valid
    /\ phase = "pmIdle" /\ held /\ ~locked => ~(sleep = "LONG" /\ cnt >= 2)

\* A state without a link transmits on the pairing pipe in every loop; one that
\* waits for its keys has lost the host and transmits no more.
Quiet ==
  /\ kbMode \in {"SYNCING", "DEEP"} => phase # "pmIdle"
  /\ kbMode = "WAIT_DEEP" => phase # "tx"
  /\ sleep = "WAIT_DEEP" <=> kbMode = "WAIT_DEEP"

\* The dongle asks for the id of the keyboard that is talking to it only while it
\* knows none: the answer can not overwrite the keyboard paired by another path.
AskOnlyUnbound == askId => bound = "none" /\ working

IInv ==
  /\ TypeOK
  /\ Numbering /\ FreshSequence /\ InStep /\ Budget
  /\ AskOnlyUnbound
  /\ Idling /\ Quiet /\ WaitDeepOnlyWhenLost
-----------------------------------------------------------------------------
(* One pass of the main loop up to the radio *)

\* What kb_rf_proc does to the packet and its budget, with and without a report.
LEMMA LoadFacts ==
  ASSUME TypeOK, NEW k \in Kind \cup {"none", "forced"}, LoadPacket(k)
  PROVE  /\ valid' = (valid /\ silence < SilenceLoops)
         /\ Reported(k) \/ Joins =>
              /\ pkt'.seq = (pkt.seq + 1) % SeqMod
              /\ pkt'.ev = IF IsEvent(k) THEN popped + 1 ELSE 0
              /\ popped' = IF IsEvent(k) THEN popped + 1 ELSE popped
              /\ sending' /\ thresh' = RetryThresh - 1
         /\ ~(Reported(k) \/ Joins) =>
              /\ pkt'.seq = pkt.seq /\ pkt'.ev = pkt.ev /\ popped' = popped
              /\ \/ sending' /\ thresh' = RetryThresh - 1
                 \/ sending /\ thresh # 0 /\ sending' /\ thresh' = thresh - 1
                 \/ sending /\ thresh = 0 /\ ~sending'
                 \/ ~sending /\ ~sending' /\ thresh' = thresh
<1> DEFINE new  == Reported(k) \/ Joins
<1> DEFINE p    == IF new THEN Loaded(k) ELSE pkt
<1> DEFINE left == IF new \/ AllowId(new, p) THEN RetryThresh ELSE thresh
<1>1. pkt' = [p EXCEPT !.did = TRUE, !.type = "SEND_ID"]
      \/ pkt' = [p EXCEPT !.type = "KEYBOARD"]
  BY DEF LoadPacket
<1>2. pkt'.seq = p.seq /\ pkt'.ev = p.ev
  <2>1. DOMAIN p = {"seq", "ev", "kind", "did", "type"}
    BY DEF TypeOK, Packet, Loaded
  <2> HIDE DEF p
  <2> QED
    BY <1>1, <2>1
<1>3. new => p.seq = (pkt.seq + 1) % SeqMod /\ p.ev = IF IsEvent(k) THEN popped + 1 ELSE 0
  BY DEF Loaded
<1>4. sending \/ new \/ AllowId(new, p) =>
        /\ sending' = (left # 0)
        /\ thresh' = IF left # 0 THEN left - 1 ELSE 0
  BY DEF LoadPacket
<1>5. ~(sending \/ new \/ AllowId(new, p)) => UNCHANGED <<sending, thresh>>
  BY DEF LoadPacket
<1>6. RetryThresh # 0
  BY LinkAssumption
<1>7. new \/ AllowId(new, p) => sending' /\ thresh' = RetryThresh - 1
  BY <1>4, <1>6
<1>8. ~(new \/ AllowId(new, p)) =>
        \/ sending /\ thresh # 0 /\ sending' /\ thresh' = thresh - 1
        \/ sending /\ thresh = 0 /\ ~sending'
        \/ ~sending /\ ~sending' /\ thresh' = thresh
  BY <1>4, <1>5
<1>9. /\ popped' = IF new /\ IsEvent(k) THEN popped + 1 ELSE popped
      /\ valid' = (valid /\ silence < SilenceLoops)
  BY DEF LoadPacket
<1> HIDE DEF left
<1> QED
  BY <1>2, <1>3, <1>7, <1>8, <1>9

\* A report of the user is read only in step with the host.
LEMMA EventFacts ==
  ASSUME TypeOK, kbMode = "NORMAL", NEW h \in BOOLEAN,
         NEW k \in Kind \cup {"none", "forced"},
         ScanYields(h, k), Reported(k), IsEvent(k)
  PROVE  valid /\ ~sending
<1>1. k \in Kind /\ ~sending /\ ~Forced
  BY DEF ScanYields, IsEvent, Kind
<1>2. CASE valid
  BY <1>1, <1>2
<1>3. CASE ~valid
  <2>1. locked
    BY <1>1, <1>3 DEF Forced
  <2>2. Toggles(k)
    BY <2>1 DEF Reported, LockAfter
  <2>3. KindAfter(k) = "zero" /\ k = "lock"
    BY <1>3, <2>1, <2>2 DEF KindAfter, Toggles
  <2> QED
    BY <2>3 DEF IsEvent
<1> QED
  BY <1>2, <1>3

LEMMA LoopKeeps ==
  ASSUME IInv, NEW h \in BOOLEAN, NEW k \in Kind \cup {"none", "forced"},
         Loop(h, k)
  PROVE  IInv'
<1> DEFINE new == Reported(k) \/ Joins
<1>1. TypeOK /\ TypeOK'
  BY LoopType DEF IInv
<1>2. CASE ~linked
  <2>1. kbMode # "NORMAL" /\ kbMode' = kbMode /\ ~Joins
    BY <1>2 DEF IInv, Budget, Loop, Joins
  <2>2. UNCHANGED <<valid, pkt, popped, sending, thresh, log, dseq, askId, bound,
                    working, noAck, sleep>>
    BY <1>2 DEF Loop, dongleVars
  <2>3. Numbering' /\ AskOnlyUnbound'
    BY <2>2 DEF IInv, Numbering, Delivered, AskOnlyUnbound
  <2>4. FreshSequence' /\ InStep' /\ Budget' /\ Idling'
    BY <2>1 DEF FreshSequence, InStep, Budget, Idling
  <2>5. Quiet' /\ WaitDeepOnlyWhenLost'
    <3>1. phase' = IF kbMode # "WAIT_DEEP" THEN "tx" ELSE "pmIdle"
      BY <1>2 DEF Loop
    <3>2. kbMode # "DEEP"
      BY DEF Loop
    <3> QED
      BY <2>1, <2>2, <3>1, <3>2 DEF IInv, Quiet, WaitDeepOnlyWhenLost
  <2> QED
    BY <1>1, <2>3, <2>4, <2>5 DEF IInv
<1>3. CASE linked
  <2>1. /\ valid' = (valid /\ silence < SilenceLoops)
        /\ new => /\ pkt'.seq = (pkt.seq + 1) % SeqMod
                  /\ pkt'.ev = IF IsEvent(k) THEN popped + 1 ELSE 0
                  /\ popped' = IF IsEvent(k) THEN popped + 1 ELSE popped
                  /\ sending' /\ thresh' = RetryThresh - 1
        /\ ~new => /\ pkt'.seq = pkt.seq /\ pkt'.ev = pkt.ev /\ popped' = popped
                   /\ \/ sending' /\ thresh' = RetryThresh - 1
                      \/ sending /\ thresh # 0 /\ sending' /\ thresh' = thresh - 1
                      \/ sending /\ thresh = 0 /\ ~sending'
                      \/ ~sending /\ ~sending' /\ thresh' = thresh
    <3>1. LoadPacket(k)
      BY <1>3 DEF Loop
    <3> QED
      BY <1>1, <3>1, LoadFacts
  <2>2. /\ phase = "scan" /\ kbMode # "DEEP" /\ ScanYields(h, k) /\ held' = h
        /\ locked' = IF k = "none" THEN locked ELSE LockAfter(k)
        /\ kbMode' = IF Joins THEN "NORMAL" ELSE kbMode
        /\ phase' = IF sending' /\ kbMode # "WAIT_DEEP" THEN "tx" ELSE "pmIdle"
        /\ UNCHANGED <<linked, silence, noAck, sleep, cnt, log, dseq, askId, bound,
                       working>>
    BY <1>3 DEF Loop, dongleVars
  <2>3. Joins <=> kbMode = "SYNCING"
    BY <1>3 DEF Joins
  \* A report that is being sent is never dropped here.
  <2>4. kbMode = "NORMAL" /\ sending => sending'
    BY <2>1, <2>2, <1>1, LinkAssumption DEF IInv, Budget, TypeOK
  <2>5. Numbering'
    <3>1. \A i \in DOMAIN log : log[i] <= popped /\ log[i] \in Nat
      <4>1. \A i \in DOMAIN log : log[i] \in 1..MaxEvents
        BY <1>1, ElementOfSeq DEF TypeOK
      <4> QED
        BY <4>1, LinkAssumption DEF IInv, Numbering
    <3>2. popped \in Nat /\ (popped' = popped \/ popped' = popped + 1)
      BY <2>1, <1>1 DEF TypeOK
    <3>3. CASE new
      <4>1. pkt'.ev = popped' \/ pkt'.ev = 0
        BY <2>1, <3>3
      <4>2. pkt'.ev # 0 => ~Delivered(pkt.ev)' 
        BY <2>1, <2>2, <3>1, <3>2, <3>3 DEF Delivered
      <4>3. \A i \in DOMAIN log' : log'[i] <= popped'
        BY <2>2, <3>1, <3>2
      <4> QED
        BY <4>1, <4>2, <4>3 DEF Numbering
    <3>4. CASE ~new
      BY <2>1, <2>2, <3>4 DEF IInv, Numbering, Delivered
    <3> QED
      BY <3>3, <3>4
  <2>6. FreshSequence'
    <3> SUFFICES ASSUME kbMode' = "NORMAL", pkt'.ev # 0, ~Delivered(pkt.ev)',
                        log # <<>>
                 PROVE  pkt'.seq # dseq
      BY <2>2 DEF FreshSequence
    <3>1. CASE new
      <4>1. IsEvent(k) /\ ~Joins
        BY <2>1, <3>1 DEF IsEvent
      <4>2. kbMode = "NORMAL" /\ Reported(k)
        BY <2>2, <3>1, <4>1
      <4>3. valid /\ ~sending
        BY <1>1, <2>2, <4>1, <4>2, EventFacts
      <4>4. dseq = pkt.seq
        BY <4>2, <4>3 DEF IInv, InStep
      <4>5. pkt.seq \in 0..SeqMod-1
        BY <1>1 DEF TypeOK, Packet
      <4> QED
        BY <2>1, <3>1, <4>4, <4>5, NextSeq
    <3>2. CASE ~new
      <4>1. kbMode = "NORMAL"
        BY <2>2, <3>2
      <4> QED
        BY <2>1, <2>2, <3>2, <4>1 DEF IInv, FreshSequence, Delivered
    <3> QED
      BY <3>1, <3>2
  <2>7. InStep'
    <3>1. ~sending' => ~new
      BY <2>1
    <3> QED
      BY <2>1, <2>2, <2>4, <3>1 DEF IInv, InStep
  <2>8. Budget'
    <3>1. noAck \in Nat /\ thresh \in Nat /\ RetryThresh \in Nat
      BY <1>1, LinkAssumption DEF TypeOK
    <3>2. kbMode' = "NORMAL" /\ sending' => thresh' + noAck >= RetryThresh - 1
      <4>1. CASE thresh' = RetryThresh - 1
        BY <3>1, <4>1
      <4>2. CASE thresh' # RetryThresh - 1
        <5> SUFFICES ASSUME kbMode' = "NORMAL", sending'
                     PROVE  thresh' + noAck >= RetryThresh - 1
          OBVIOUS
        <5>1. ~new /\ kbMode = "NORMAL" /\ sending /\ thresh' = thresh - 1
          BY <2>1, <2>2, <4>2
        <5>2. thresh + noAck >= RetryThresh
          BY <2>2, <5>1 DEF IInv, Budget
        <5> QED
          BY <3>1, <5>1, <5>2
      <4> QED
        BY <4>1, <4>2
    <3>3. kbMode' = "NORMAL" /\ sending' => phase' = "tx"
      BY <2>2, <2>3
    <3>4. linked' /\ noAck' = noAck
      BY <1>3, <2>2
    <3> QED
      BY <3>2, <3>3, <3>4 DEF Budget
  <2>9. AskOnlyUnbound'
    BY <2>2 DEF IInv, AskOnlyUnbound
  <2>10. Idling'
    <3> SUFFICES ASSUME kbMode' = "NORMAL", phase' \in {"scan", "pmIdle"}
                 PROVE  Idling'
      BY DEF Idling
    <3>1. phase' = "pmIdle" /\ ~sending' /\ ~new /\ kbMode = "NORMAL"
      BY <2>1, <2>2, <2>3
    <3>2. h /\ ~locked' => valid
      <4> SUFFICES ASSUME h, ~locked', ~valid PROVE FALSE
        OBVIOUS
      <4>1. k = "none"
        BY <2>2, <3>1 DEF Reported
      <4> QED
        BY <2>2, <3>1, <4>1 DEF ScanYields, Forced, Kind
    <3>3. sleep = "LONG" => silence = SilenceLoops /\ ~valid'
      BY <2>1, <2>2, <3>1, <1>1, LinkAssumption DEF IInv, Idling, TypeOK
    <3> QED
      BY <2>2, <3>1, <3>2, <3>3 DEF IInv, Idling
  <2>11. Quiet' /\ WaitDeepOnlyWhenLost'
    BY <2>2, <2>3 DEF IInv, Quiet, WaitDeepOnlyWhenLost
  <2> QED
    BY <1>1, <2>5, <2>6, <2>7, <2>8, <2>9, <2>10, <2>11 DEF IInv
<1> QED
  BY <1>2, <1>3
-----------------------------------------------------------------------------
(* Transmissions *)

\* What a transmission does to the budget and to the phase does not depend on
\* the pipe it is made on.
LEMMA TransmissionKeeps ==
  ASSUME IInv, NEW f \in Fate, Finish(f) \/ Miss, phase = "tx", linked => linked',
         UNCHANGED <<kbMode, thresh, sleep>>
  PROVE  Budget' /\ Idling' /\ Quiet' /\ WaitDeepOnlyWhenLost'
<1>1. kbMode # "WAIT_DEEP"
  BY DEF IInv, Quiet
<1>2. \/ phase' = "pmBusy" /\ ~sending'
      \/ phase' = "tx" /\ noAck' = noAck /\ sending' = sending
      \/ phase' = "pmBusy" /\ noAck' = Least(noAck + 1, NoLink) /\ sending' = sending
  BY DEF Finish, Done, Miss
<1>3. kbMode = "NORMAL" => linked'
  BY DEF IInv, Budget
<1>4. /\ noAck \in Nat /\ thresh \in Nat /\ RetryThresh \in Nat /\ NoLink \in Nat
      /\ noAck <= NoLink
  BY LinkAssumption DEF IInv, TypeOK
<1>5. kbMode = "NORMAL" /\ sending => thresh + noAck >= RetryThresh - 1
  BY DEF IInv, Budget
<1>6. Least(noAck + 1, NoLink) = NoLink \/ Least(noAck + 1, NoLink) = noAck + 1
  BY <1>4 DEF Least
<1>7. Budget'
  BY <1>2, <1>3, <1>4, <1>5, <1>6 DEF Budget
<1>8. Idling' /\ Quiet' /\ WaitDeepOnlyWhenLost'
  BY <1>1, <1>2 DEF Idling, Quiet, WaitDeepOnlyWhenLost, IInv
<1> QED
  BY <1>7, <1>8

LEMMA TxLostKeeps ==
  ASSUME IInv, TxLost
  PROVE  IInv'
<1>1. TypeOK'
  BY RadioType DEF IInv
<1>2. /\ UNCHANGED <<kbMode, linked, thresh, sleep, pkt, popped, log, dseq, valid,
                     sending, bound, working, askId>>
      /\ phase = "tx" /\ Miss
  BY DEF TxLost, Miss, txFrame, dongleVars
<1>3. Budget' /\ Idling' /\ Quiet' /\ WaitDeepOnlyWhenLost'
  BY <1>2, TransmissionKeeps DEF Fate
<1>4. Numbering' /\ FreshSequence' /\ InStep' /\ AskOnlyUnbound'
  BY <1>2 DEF IInv, Numbering, FreshSequence, InStep, AskOnlyUnbound, Delivered
<1> QED
  BY <1>1, <1>3, <1>4 DEF IInv

LEMMA TxPairingKeeps ==
  ASSUME IInv, NEW f \in Fate, NEW strong \in BOOLEAN, TxPairing(f, strong)
  PROVE  IInv'
<1>1. TypeOK'
  BY RadioType DEF IInv, Heard
<1>2. /\ UNCHANGED <<kbMode, thresh, sleep, pkt, popped, log, dseq, valid,
                     working, askId>>
      /\ phase = "tx" /\ (Finish(f) \/ Miss) /\ kbMode = "SYNCING"
  BY DEF TxPairing, txFrame
<1>3. linked => linked'
  BY DEF TxPairing, IInv, TypeOK
<1>4. Budget' /\ Idling' /\ Quiet' /\ WaitDeepOnlyWhenLost'
  BY <1>2, <1>3, TransmissionKeeps
<1>5. Numbering' /\ FreshSequence' /\ InStep'
  BY <1>2 DEF IInv, Numbering, FreshSequence, InStep, Delivered
<1>6. AskOnlyUnbound'
  BY <1>2 DEF IInv, AskOnlyUnbound, TxPairing
<1> QED
  BY <1>1, <1>4, <1>5, <1>6 DEF IInv

LEMMA TxKeyboardKeeps ==
  ASSUME IInv, NEW f \in Fate, NEW asks \in BOOLEAN, TxKeyboard(f, asks)
  PROVE  IInv'
<1>1. TypeOK /\ TypeOK'
  BY RadioType DEF IInv, Heard
<1>2. /\ UNCHANGED <<kbMode, linked, thresh, sleep, pkt, popped>>
      /\ phase = "tx" /\ Finish(f) /\ working'
  BY DEF TxKeyboard, txFrame
<1>3. Budget' /\ Idling' /\ Quiet' /\ WaitDeepOnlyWhenLost'
  BY <1>2, TransmissionKeeps
<1>4. dseq' = pkt.seq
  BY DEF TxKeyboard, PassOn, Accepts
<1>5. \/ log' = log /\ (pkt.seq = dseq \/ pkt.ev = 0)
      \/ pkt.seq # dseq /\ pkt.ev # 0 /\ log' = Append(log, pkt.ev)
  BY DEF TxKeyboard, PassOn, Accepts
<1>6. AskOnlyUnbound'
  BY <1>1, <1>2 DEF IInv, AskOnlyUnbound, TxKeyboard, LearnId, BoundAfter, TypeOK
<1>7. InStep'
  BY <1>2, <1>4 DEF InStep
<1>8. log \in Seq(1..MaxEvents) /\ pkt.ev \in 0..MaxEvents /\ popped \in Nat
  BY <1>1 DEF TypeOK, Packet
<1>9. log' = Append(log, pkt.ev) /\ pkt.ev # 0 =>
        /\ Len(log) \in Nat /\ DOMAIN log = 1..Len(log)
        /\ DOMAIN log' = 1..Len(log)+1
        /\ log'[Len(log)+1] = pkt.ev
        /\ \A i \in 1..Len(log) : log'[i] = log[i]
  <2>1. pkt.ev # 0 => pkt.ev \in 1..MaxEvents
    BY <1>8, LinkAssumption
  <2> QED
    BY <1>8, <2>1, AppendFacts
<1>10. Numbering'
  <2>1. pkt'.ev \in {0, popped'}
    BY <1>2 DEF IInv, Numbering
  <2>2. \A i \in DOMAIN log' : log'[i] <= popped'
    <3>1. CASE log' = log
      BY <1>2, <3>1 DEF IInv, Numbering
    <3>2. CASE log' = Append(log, pkt.ev) /\ pkt.ev # 0
      <4>1. pkt.ev = popped /\ pkt.ev <= popped
        BY <1>8, <3>2 DEF IInv, Numbering
      <4>2. \A i \in 1..Len(log)+1 : i \in 1..Len(log) \/ i = Len(log)+1
        BY <1>9, <3>2
      <4> QED
        BY <1>2, <1>9, <3>2, <4>1, <4>2 DEF IInv, Numbering
    <3> QED
      BY <1>5, <3>1, <3>2
  <2> QED
    BY <1>2, <1>4, <2>1, <2>2 DEF Numbering
<1>11. FreshSequence'
  <2>1. CASE log' = log /\ (pkt.seq = dseq \/ pkt.ev = 0)
    BY <1>2, <1>4, <2>1 DEF IInv, FreshSequence, Delivered
  <2>2. CASE log' = Append(log, pkt.ev) /\ pkt.ev # 0
    <3>1. Len(log)+1 \in DOMAIN log' /\ log'[Len(log)+1] = pkt'.ev
      BY <1>2, <1>9, <2>2
    <3> QED
      BY <3>1 DEF FreshSequence, Delivered
  <2> QED
    BY <1>5, <2>1, <2>2
<1> QED
  BY <1>1, <1>3, <1>6, <1>7, <1>10, <1>11 DEF IInv
-----------------------------------------------------------------------------
(* Power management, restarts and the rest *)

\* A keyboard that has just started, whatever its mode and registers.
LEMMA FreshKeeps ==
  ASSUME IInv, TypeOK', FreshRam, kbMode' \in {"NORMAL", "SYNCING", "DEEP"},
         kbMode' = "NORMAL" => linked',
         UNCHANGED <<popped, log, dseq, bound, working, askId>>
  PROVE  IInv'
<1>1. pkt'.ev = 0 /\ ~sending' /\ ~valid' /\ sleep' = "BASIC" /\ cnt' = 0
      /\ phase' = "scan" /\ silence' = 0
  BY DEF FreshRam, BlankPacket
<1>2. Numbering' /\ FreshSequence' /\ InStep' /\ AskOnlyUnbound'
  BY <1>1 DEF IInv, Numbering, FreshSequence, InStep, AskOnlyUnbound
<1>3. Budget' /\ Idling' /\ Quiet' /\ WaitDeepOnlyWhenLost'
  BY <1>1, LinkAssumption DEF Budget, Idling, Quiet, WaitDeepOnlyWhenLost
<1> QED
  BY <1>2, <1>3 DEF IInv

LEMMA SuspendKeeps ==
  ASSUME IInv, NEW led \in BOOLEAN, Suspend(led)
  PROVE  IInv'
<1>1. TypeOK /\ TypeOK'
  BY PmType DEF IInv
<1>2. /\ UNCHANGED <<kbMode, linked, locked, thresh, pkt, popped, log, dseq, valid,
                     sending, bound, working, askId, noAck, held>>
      /\ phase \in {"pmBusy", "pmIdle"} /\ phase' = "scan"
      /\ ~QuickSleep
  BY DEF Suspend, pmFrame, dongleVars, GoesDeep
<1>3. Numbering' /\ FreshSequence' /\ InStep' /\ AskOnlyUnbound'
  BY <1>2 DEF IInv, Numbering, FreshSequence, InStep, AskOnlyUnbound, Delivered
<1>4. kbMode = "NORMAL" => noAck < NoLink
  BY <1>1, <1>2, LinkAssumption DEF QuickSleep, TypeOK
<1>5. Budget'
  BY <1>1, <1>2, <1>4, LinkAssumption DEF IInv, Budget, TypeOK
<1>6. kbMode # "WAIT_DEEP"
  BY <1>1, <1>2, LinkAssumption DEF IInv, WaitDeepOnlyWhenLost, QuickSleep, TypeOK
<1>7. Quiet' /\ WaitDeepOnlyWhenLost'
  <2>1. sleep' \in {"BASIC", "LONG"}
    BY <1>1, <1>6 DEF Suspend, SleepStep, IInv, Quiet, TypeOK
  <2> QED
    BY <1>2, <1>6, <2>1 DEF Quiet, WaitDeepOnlyWhenLost
<1>8. Idling'
  <2> SUFFICES ASSUME kbMode = "NORMAL" PROVE Idling'
    BY <1>2 DEF Idling
  <2>1. /\ silence \in Nat /\ SilenceLoops \in Nat /\ cnt \in Nat
        /\ silence <= SilenceLoops /\ BasicLoops \in Nat /\ SilenceLoops < BasicLoops
    BY <1>1, Zeros, LinkAssumption DEF TypeOK
  <2>2. \/ silence' = SilenceLoops
        \/ silence' = silence + 1 /\ silence + 1 < SilenceLoops
    BY <2>1 DEF Suspend, Least
  <2>3. silence = SilenceLoops => silence' = SilenceLoops
    BY <2>1, <2>2
  <2>4. CASE phase = "pmBusy"
    <3>1. sleep' = "BASIC" /\ cnt' = 0
      BY <2>4 DEF Suspend, SleepStep, Busy
    <3> QED
      BY <1>1, <1>2, <2>1, <2>2, <3>1 DEF Idling
  <2>5. CASE phase = "pmIdle"
    <3>1. /\ sleep = "BASIC" => cnt <= silence \/ silence = SilenceLoops
          /\ sleep = "LONG" => silence = SilenceLoops /\ ~valid
      BY <2>5 DEF IInv, Idling
    <3>2. \/ sleep' = "BASIC" /\ cnt' = 0
          \/ sleep = "BASIC" /\ sleep' = "BASIC" /\ cnt' = cnt + 1
          \/ sleep = "BASIC" /\ sleep' = "LONG" /\ cnt' = 1 /\ cnt + 1 >= BasicLoops
          \/ sleep = "LONG" /\ sleep' = "LONG"
      BY <1>1, <1>6 DEF Suspend, SleepStep, IInv, Quiet, TypeOK
    <3>3. sleep' = "BASIC" => cnt' <= silence' \/ silence' = SilenceLoops
      BY <2>1, <2>2, <2>3, <3>1, <3>2
    <3>4. sleep' = "LONG" => silence' = SilenceLoops
      <4>1. sleep = "BASIC" /\ cnt + 1 >= BasicLoops => silence = SilenceLoops
        BY <2>1, <3>1
      <4> QED
        BY <2>3, <3>1, <3>2, <4>1
    <3>5. sleep' = "LONG" /\ cnt' >= 2 => ~valid
      BY <3>1, <3>2
    <3> QED
      BY <1>2, <3>3, <3>4, <3>5 DEF Idling
  <2> QED
    BY <1>2, <2>4, <2>5
<1> QED
  BY <1>1, <1>3, <1>5, <1>7, <1>8 DEF IInv

LEMMA WaitDeepKeeps ==
  ASSUME IInv, NEW led \in BOOLEAN, WaitDeep(led)
  PROVE  IInv'
<1>1. TypeOK /\ TypeOK'
  BY PmType DEF IInv
<1>2. /\ UNCHANGED <<linked, pkt, popped, log, dseq, bound, working, askId, noAck>>
      /\ phase \in {"pmBusy", "pmIdle"} /\ phase' = "scan" /\ held
      /\ kbMode' = "WAIT_DEEP" /\ sleep' = "WAIT_DEEP" /\ kbMode # "DEEP"
  BY DEF WaitDeep, pmFrame, dongleVars
<1>3. Numbering' /\ AskOnlyUnbound'
  BY <1>2 DEF IInv, Numbering, AskOnlyUnbound, Delivered
<1>4. FreshSequence' /\ InStep' /\ Budget' /\ Idling' /\ Quiet'
  BY <1>2 DEF FreshSequence, InStep, Budget, Idling, Quiet
<1>5. noAck >= NoLink
  <2>1. CASE QuickSleep
    BY <2>1 DEF QuickSleep
  <2>2. CASE kbMode = "WAIT_DEEP"
    BY <2>2 DEF IInv, WaitDeepOnlyWhenLost
  <2>3. CASE ~QuickSleep /\ kbMode # "WAIT_DEEP"
    <3>1. ~Busy(led) /\ sleep = "LONG" /\ cnt + 1 > LongLoops
      BY <2>3 DEF WaitDeep, GoesDeep
    <3>2. phase = "pmIdle" /\ ~locked
      BY <1>2, <3>1 DEF Busy
    <3>3. kbMode = "NORMAL"
      BY <1>1, <1>2, <2>3, <3>2 DEF IInv, Quiet, TypeOK
    <3>4. cnt >= 2
      <4>1. cnt \in Nat
        BY <1>1, Zeros DEF TypeOK
      <4> QED
        BY <3>1, <4>1, LinkAssumption
    <3> QED
      BY <1>2, <3>1, <3>2, <3>3, <3>4 DEF IInv, Idling
  <2> QED
    BY <2>1, <2>2, <2>3
<1> QED
  BY <1>1, <1>2, <1>3, <1>4, <1>5 DEF IInv, WaitDeepOnlyWhenLost

LEMMA LinkInit == Init => IInv
<1> SUFFICES ASSUME Init PROVE IInv
  OBVIOUS
<1>1. TypeOK
  BY TypeInit
<1>2. Numbering /\ FreshSequence /\ InStep /\ AskOnlyUnbound
  BY DEF Init, Numbering, FreshSequence, InStep, AskOnlyUnbound, BlankPacket
<1>3. Budget /\ Idling /\ Quiet /\ WaitDeepOnlyWhenLost
  BY DEF Init, Budget, Idling, Quiet, WaitDeepOnlyWhenLost
<1> QED
  BY <1>1, <1>2, <1>3 DEF IInv

LEMMA LinkStep == IInv /\ [Next]_vars => IInv'
<1> SUFFICES ASSUME IInv, [Next]_vars PROVE IInv'
  OBVIOUS
<1>0. TypeOK'
  BY TypeStep DEF IInv
<1>1. CASE Scan
  BY <1>1, LoopKeeps DEF Scan
<1>2. CASE TxLost
  BY <1>2, TxLostKeeps
<1>3. CASE Heard
  BY <1>3, TxPairingKeeps, TxKeyboardKeeps DEF Heard
<1>4. ASSUME NEW led \in BOOLEAN, Suspend(led) \/ WaitDeep(led) \/ DeepSleep(led)
      PROVE  IInv'
  <2>1. CASE DeepSleep(led)
    BY <1>0, <2>1, FreshKeeps DEF DeepSleep, pmFrame, dongleVars
  <2> QED
    BY <1>4, <2>1, SuspendKeeps, WaitDeepKeeps
<1>5. CASE Wake
  BY <1>0, <1>5, FreshKeeps DEF Wake, dongleVars
<1>6. CASE BatteryChange
  BY <1>0, <1>6, FreshKeeps DEF BatteryChange, dongleVars
<1>7. CASE Replug
  <2>1. UNCHANGED kbVars /\ popped' = popped /\ log' = <<>> /\ ~askId'
    BY <1>7 DEF Replug
  <2>2. Numbering' /\ FreshSequence' /\ InStep' /\ AskOnlyUnbound'
    BY <2>1 DEF IInv, Numbering, FreshSequence, InStep, AskOnlyUnbound, Delivered,
                kbVars
  <2>3. Budget' /\ Idling' /\ Quiet' /\ WaitDeepOnlyWhenLost'
    BY <2>1 DEF IInv, Budget, Idling, Quiet, WaitDeepOnlyWhenLost, kbVars
  <2> QED
    BY <1>0, <2>2, <2>3 DEF IInv
<1>8. CASE OtherPairs \/ UNCHANGED vars
  <2>1. UNCHANGED <<kbVars, dseq, popped, log>>
    BY <1>8 DEF OtherPairs, vars, dongleVars
  <2>2. AskOnlyUnbound'
    BY <1>8 DEF IInv, AskOnlyUnbound, OtherPairs, vars, dongleVars
  <2>3. Numbering' /\ FreshSequence' /\ InStep'
    BY <2>1 DEF IInv, Numbering, FreshSequence, InStep, Delivered, kbVars
  <2>4. Budget' /\ Idling' /\ Quiet' /\ WaitDeepOnlyWhenLost'
    BY <2>1 DEF IInv, Budget, Idling, Quiet, WaitDeepOnlyWhenLost, kbVars
  <2> QED
    BY <1>0, <2>2, <2>3, <2>4 DEF IInv
<1> QED
  BY <1>1, <1>2, <1>3, <1>4, <1>5, <1>6, <1>7, <1>8 DEF Next, Pm

THEOREM LinkInvariant == Spec => []IInv
BY LinkInit, LinkStep, PTL DEF Spec
-----------------------------------------------------------------------------
(* What follows for the link *)

\* A report the host has not had never carries the number the dongle skips.
THEOREM LinkFreshSequence == Spec => []FreshSequence
<1>1. IInv => FreshSequence
  BY DEF IInv
<1> QED
  BY <1>1, LinkInvariant, PTL

\* kb_tx_retry_thresh never runs out under a report.
THEOREM LinkNeverGivesUp == Spec => []NeverGivesUp
<1>1. IInv => NeverGivesUp
  BY LinkAssumption DEF IInv, Budget, NeverGivesUp, TypeOK
<1> QED
  BY <1>1, LinkInvariant, PTL

\* STATE_WAIT_DEEP always has a way out.
THEOREM LinkWaitDeepOnlyWhenLost == Spec => []WaitDeepOnlyWhenLost
<1>1. IInv => WaitDeepOnlyWhenLost
  BY DEF IInv
<1> QED
  BY <1>1, LinkInvariant, PTL

\* The dongle asks for an id only while it knows none.
THEOREM LinkAskOnlyUnbound == Spec => []AskOnlyUnbound
<1>1. IInv => AskOnlyUnbound
  BY DEF IInv
<1> QED
  BY <1>1, LinkInvariant, PTL

\* The dongle never changes the keyboard it is bound to.
THEOREM LinkBindingStable == Spec => BindingStable
<1>1. IInv /\ [Next]_vars
        => [bound # "none" => bound' = bound \/ replugs' # replugs]_vars
  <2> SUFFICES ASSUME IInv, Next, bound # "none", replugs' = replugs
               PROVE  bound' = bound
    OBVIOUS
  <2>1. ~askId
    BY DEF IInv, AskOnlyUnbound
  <2>2. ASSUME NEW h \in BOOLEAN, NEW k \in Kind \cup {"none", "forced"}, Loop(h, k)
        PROVE  bound' = bound
    BY <2>2 DEF Loop, dongleVars
  <2>3. ASSUME NEW f \in Fate, NEW strong \in BOOLEAN, TxPairing(f, strong)
        PROVE  bound' = bound
    BY <2>3 DEF TxPairing
  <2>4. ASSUME NEW f \in Fate, NEW asks \in BOOLEAN, TxKeyboard(f, asks)
        PROVE  bound' = bound
    BY <2>1, <2>4 DEF TxKeyboard, LearnId, BoundAfter
  <2>5. ASSUME NEW led \in BOOLEAN, Suspend(led) \/ WaitDeep(led) \/ DeepSleep(led)
        PROVE  bound' = bound
    BY <2>5 DEF Suspend, WaitDeep, DeepSleep, pmFrame, dongleVars
  <2>6. CASE TxLost \/ Wake \/ BatteryChange \/ OtherPairs
    BY <2>6 DEF TxLost, Wake, BatteryChange, OtherPairs, dongleVars
  <2>7. ~Replug
    BY DEF Replug, IInv, TypeOK
  <2> QED
    BY <2>2, <2>3, <2>4, <2>5, <2>6, <2>7 DEF Next, Scan, Heard, Pm
<1> QED
  BY <1>1, LinkInvariant, PTL DEF Spec, BindingStable

\* Every step of the link is a step of KeyDelivery or none of its business.
LEMMA DeliveryStep ==
  ASSUME IInv, IInv', [Next]_vars
  PROVE  [KD!Next]_(KD!vars)
<1>1. ASSUME NEW h \in BOOLEAN, NEW k \in Kind \cup {"none", "forced"}, Loop(h, k)
      PROVE  [KD!Next]_(KD!vars)
  <2>1. log' = log /\ acked' = acked
    BY <1>1 DEF Loop
  <2>2. popped' = popped \/ popped' = popped + 1
    BY <1>1 DEF Loop, LoadPacket
  <2> QED
    BY <2>1, <2>2 DEF KD!Next, KD!Submit, KD!vars
<1>2. ASSUME NEW f \in Fate, NEW asks \in BOOLEAN, TxKeyboard(f, asks)
      PROVE  [KD!Next]_(KD!vars)
  <2>1. /\ popped' = popped /\ pkt' = pkt /\ kbMode = "NORMAL" /\ kbMode' = kbMode
        /\ dseq' = pkt.seq
    BY <1>2 DEF TxKeyboard, txFrame, PassOn, Accepts
  <2>2. popped \in Nat /\ \A i \in DOMAIN log : log[i] \in Nat /\ log[i] <= popped
    <3>1. log \in Seq(1..MaxEvents) /\ popped \in Nat
      BY DEF IInv, TypeOK
    <3>2. \A i \in DOMAIN log : log[i] \in 1..MaxEvents
      BY <3>1, ElementOfSeq
    <3> QED
      BY <3>1, <3>2, LinkAssumption DEF IInv, Numbering
  <2>3. KD!Deliver \/ log' = log
    <3> SUFFICES ASSUME log' # log PROVE KD!Deliver
      OBVIOUS
    <3>1. pkt.seq # dseq /\ pkt.ev # 0 /\ log' = Append(log, pkt.ev)
      BY <1>2 DEF TxKeyboard, PassOn, Accepts
    <3>2. pkt.ev = popped /\ ~Delivered(popped)
      BY <3>1 DEF IInv, Numbering
    <3>3. \A i \in DOMAIN log : log[i] < popped
      BY <2>2, <3>2 DEF Delivered
    <3> QED
      BY <3>1, <3>2, <3>3 DEF KD!Deliver
  <2>4. KD!Confirm \/ acked' = acked
    <3> SUFFICES ASSUME acked' # acked PROVE KD!Confirm
      OBVIOUS
    <3>1. pkt.ev # 0 /\ acked' = pkt.ev
      BY <1>2 DEF TxKeyboard, Finish, Done, Miss
    <3>2. pkt.ev = popped
      BY <3>1 DEF IInv, Numbering
    \* After the exchange the numbers agree, so FreshSequence leaves no other way.
    <3>3. Delivered(pkt.ev)' \/ log' = <<>>
      BY <2>1, <3>1 DEF IInv, FreshSequence
    <3>4. KD!Received(popped)' \/ log' = <<>>
      BY <2>1, <3>2, <3>3 DEF KD!Received, Delivered
    <3> QED
      BY <3>1, <3>2, <3>4 DEF KD!Confirm
  <2> QED
    BY <2>1, <2>3, <2>4 DEF KD!Next, KD!Exchange
<1>3. CASE Replug
  BY <1>3 DEF Replug, KD!Next, KD!Replug
<1>4. ASSUME NEW f \in Fate, NEW strong \in BOOLEAN, TxPairing(f, strong)
      PROVE  UNCHANGED <<popped, log, acked>>
  BY <1>4 DEF TxPairing, txFrame, Finish, Done, Miss
<1>5. ASSUME NEW led \in BOOLEAN, Suspend(led) \/ WaitDeep(led) \/ DeepSleep(led)
      PROVE  UNCHANGED <<popped, log, acked>>
  BY <1>5 DEF Suspend, WaitDeep, DeepSleep, pmFrame
<1>6. CASE TxLost \/ Wake \/ BatteryChange \/ OtherPairs \/ UNCHANGED vars
  <2>1. UNCHANGED <<popped, log, acked>>
    BY <1>6 DEF TxLost, Miss, txFrame, Wake, BatteryChange, OtherPairs, vars
  <2> QED
    BY <2>1 DEF KD!vars
<1> QED
  BY <1>1, <1>2, <1>3, <1>4, <1>5, <1>6 DEF Next, Scan, Heard, Pm, KD!vars

\* The link implements KeyDelivery: at most once, in order, and confirmed only
\* when received.
THEOREM LinkDelivers == Spec => Delivers
<1>1. Init => KD!Init
  BY DEF Init, KD!Init
<1>2. IInv /\ IInv' /\ [Next]_vars => [KD!Next]_(KD!vars)
  BY DeliveryStep
<1> QED
  BY <1>1, <1>2, LinkInvariant, PTL DEF Spec, Delivers, KD!Spec
-----------------------------------------------------------------------------
(* What every implementation of KeyDelivery promises to the typist *)

Ordered(s) == \A i, j \in DOMAIN s : i < j => s[i] < s[j]
Arrived(s, n) == (\E i \in DOMAIN s : s[i] = n) \/ \A i \in DOMAIN s : n < s[i]

\* The reports the host has had came in the order they were typed, none of them
\* twice: each is newer than every one before it.
InOrder == Ordered(log)

\* A report the keyboard counts as delivered is with the host, unless the host
\* was plugged in since and has had newer reports only.
ConfirmedArrived == Arrived(log, acked)

\* The invariant of KeyDelivery behind both: nothing is with the host or
\* confirmed that was not handed in.
DInv ==
  /\ popped \in Nat /\ log \in Seq(Nat) /\ acked \in Nat
  /\ \A i \in DOMAIN log : log[i] <= popped
  /\ acked <= popped
  /\ InOrder
  /\ ConfirmedArrived

\* A report newer than all of them goes to the end of the log.
LEMMA NewestLast ==
  ASSUME NEW s \in Seq(Nat), Ordered(s),
         NEW m \in Nat, \A i \in DOMAIN s : s[i] < m
  PROVE  /\ Append(s, m) \in Seq(Nat)
         /\ \A i \in DOMAIN Append(s, m) : Append(s, m)[i] <= m
         /\ Ordered(Append(s, m))
         /\ \A n \in 0..m : Arrived(s, n) \/ n = m => Arrived(Append(s, m), n)
<1> DEFINE t == Append(s, m)
<1>1. /\ t \in Seq(Nat)
      /\ Len(s) \in Nat /\ DOMAIN s = 1..Len(s)
      /\ DOMAIN t = 1..Len(s)+1
      /\ t[Len(s)+1] = m
      /\ \A i \in 1..Len(s) : t[i] = s[i]
  BY AppendFacts
<1>2. \A i \in 1..Len(s) : s[i] \in Nat
  BY <1>1, ElementOfSeq
<1> HIDE DEF t
<1>3. \A i \in DOMAIN t : i \in 1..Len(s) \/ i = Len(s) + 1
  BY <1>1
<1>4. \A i \in DOMAIN t : t[i] <= m
  <2>1. \A i \in 1..Len(s) : t[i] \in Nat /\ t[i] < m
    BY <1>1, <1>2
  <2>2. \A a \in Nat : a < m => a <= m
    OBVIOUS
  <2>3. ASSUME NEW i \in DOMAIN t PROVE t[i] <= m
    <3>1. i = Len(s) + 1 => t[i] = m
      BY <1>1
    <3>2. i \in 1..Len(s) => t[i] <= m
      BY <2>1, <2>2
    <3> QED
      BY <1>3, <3>1, <3>2
  <2> QED
    BY <2>3
<1>5. Ordered(t)
  <2> SUFFICES ASSUME NEW i \in DOMAIN t, NEW j \in DOMAIN t, i < j
               PROVE  t[i] < t[j]
    BY DEF Ordered
  <2>1. i \in 1..Len(s) /\ t[i] = s[i]
    BY <1>1
  <2>2. CASE j \in 1..Len(s)
    BY <1>1, <2>1, <2>2 DEF Ordered
  <2>3. CASE j = Len(s) + 1
    BY <1>1, <2>1, <2>3
  <2> QED
    BY <1>3, <2>2, <2>3
<1>6. ASSUME NEW n \in 0..m, Arrived(s, n) \/ n = m
      PROVE  Arrived(t, n)
  <2>1. CASE n = m
    BY <1>1, <2>1 DEF Arrived
  <2>2. CASE \E i \in DOMAIN s : s[i] = n
    BY <1>1, <2>2 DEF Arrived
  <2>3. CASE n # m /\ \A i \in DOMAIN s : n < s[i]
    <3>1. n < m
      BY <2>3
    <3>2. \A i \in 1..Len(s) : n < t[i]
      BY <1>1, <2>3
    <3> QED
      BY <1>1, <1>3, <3>1, <3>2 DEF Arrived
  <2> QED
    BY <1>6, <2>1, <2>2, <2>3 DEF Arrived
<1> QED
  BY <1>1, <1>4, <1>5, <1>6 DEF t

LEMMA DeliveryKeeps == DInv /\ [KD!Next]_(KD!vars) => DInv'
<1> SUFFICES ASSUME DInv, [KD!Next]_(KD!vars) PROVE DInv'
  OBVIOUS
<1>1. CASE KD!Submit
  BY <1>1 DEF KD!Submit, DInv, InOrder, ConfirmedArrived
<1>2. CASE KD!Exchange
  <2>1. popped' = popped /\ popped \in 0..popped /\ acked \in 0..popped
    BY <1>2 DEF KD!Exchange, DInv
  <2>2. acked' = acked \/ (acked' = popped /\ (KD!Received(popped)' \/ log' = <<>>))
    BY <1>2 DEF KD!Exchange, KD!Confirm
  <2>3. CASE log' = log
    <3>1. acked' = popped /\ KD!Received(popped)' => Arrived(log', acked')
      BY <2>1 DEF KD!Received, Arrived
    <3>2. log' = <<>> => Arrived(log', acked')
      BY DEF Arrived
    <3>3. acked' = acked => Arrived(log', acked')
      BY <2>3 DEF DInv, ConfirmedArrived
    <3> QED
      BY <2>1, <2>2, <2>3, <3>1, <3>2, <3>3 DEF DInv, InOrder, ConfirmedArrived
  <2>4. CASE KD!Deliver
    <3>1. log' = Append(log, popped) /\ \A i \in DOMAIN log : log[i] < popped
      BY <2>4 DEF KD!Deliver
    <3>2. /\ log' \in Seq(Nat)
          /\ \A i \in DOMAIN log' : log'[i] <= popped
          /\ Ordered(log')
          /\ \A n \in 0..popped : Arrived(log, n) \/ n = popped => Arrived(log', n)
      BY <3>1, NewestLast DEF DInv, InOrder
    <3>3. acked' \in 0..popped /\ Arrived(log', acked')
      BY <2>1, <2>2, <3>2 DEF DInv, ConfirmedArrived
    <3> QED
      BY <2>1, <3>2, <3>3 DEF DInv, InOrder, ConfirmedArrived
  <2> QED
    BY <1>2, <2>3, <2>4 DEF KD!Exchange
<1>3. CASE KD!Replug
  BY <1>3 DEF KD!Replug, DInv, InOrder, ConfirmedArrived, Ordered, Arrived
<1>4. CASE UNCHANGED KD!vars
  BY <1>4 DEF KD!vars, DInv, InOrder, ConfirmedArrived
<1> QED
  BY <1>1, <1>2, <1>3, <1>4 DEF KD!Next

\* KeyDelivery alone is enough: at most once, in order, and nothing is counted
\* as delivered that the host has missed.
THEOREM DeliveryInOrder == Delivers => [](InOrder /\ ConfirmedArrived)
<1>1. KD!Init => DInv
  BY DEF KD!Init, DInv, InOrder, ConfirmedArrived, Ordered, Arrived
<1>2. DInv => InOrder /\ ConfirmedArrived
  BY DEF DInv
<1> QED
  BY <1>1, <1>2, DeliveryKeeps, PTL DEF Delivers, KD!Spec

\* So nothing typed on the keyboard reaches the host twice or out of order, and
\* a report device_send_packet saw acknowledged is not lost, whatever happens on
\* the radio and however often the keyboard sleeps.
THEOREM LinkInOrder == Spec => [](InOrder /\ ConfirmedArrived)
BY LinkDelivers, DeliveryInOrder, PTL
-----------------------------------------------------------------------------
(* Into a dead link the keyboard does not transmit for ever *)

\* The loops of transmissions an unanswered keyboard has left: until no_ack is at
\* HOST_NO_LINK and, while it is pairing, until quick sleep is allowed; and the
\* one that is under way then.
Patience ==
  (NoLink - noAck) + (IF phase = "pmBusy" \/ noAck = NoLink THEN 1 ELSE 0)
    + (IF kbMode = "SYNCING" THEN YoungLoops - loops ELSE 0)

\* A step that brings no acknowledgement and no restart, while no key is down.
Unanswered == ~held' /\ noAck' # 0 /\ kbMode' # "DEEP" /\ boots' = boots

\* A loop of transmissions that ends without sleep has cost some of the patience,
\* and nothing gives it back: the variant behind DeadRadioSleeps.
TiresOut ==
  [][Unanswered => /\ Patience' <= Patience
                   /\ phase = "pmBusy" /\ phase' = "scan" => Patience' < Patience]_vars

LEMMA PatienceType == TypeOK => Patience \in Nat
BY LinkAssumption DEF TypeOK, Patience

\* A turn of device_send_packet, answered or not.
LEMMA TurnTires ==
  ASSUME TypeOK, NEW f \in Fate, phase = "tx", Finish(f) \/ Miss,
         UNCHANGED <<kbMode, loops>>, noAck' # 0
  PROVE  Patience' <= Patience /\ phase' # "scan"
<1>1. Miss
  BY DEF Finish, Done
<1>2. /\ noAck \in 0..NoLink /\ NoLink \in Nat
      /\ loops \in 0..YoungLoops /\ YoungLoops \in Nat
  BY LinkAssumption DEF TypeOK
<1>3. \/ phase' = "tx" /\ noAck' = noAck
      \/ phase' = "pmBusy" /\ noAck' = Least(noAck + 1, NoLink)
  BY <1>1 DEF Miss
<1>4. CASE phase' = "tx" /\ noAck' = noAck
  <2>1. Patience' = Patience
    BY <1>4 DEF Patience
  <2> QED
    BY <1>4, <2>1, PatienceType
<1>5. CASE phase' = "pmBusy" /\ noAck' = Least(noAck + 1, NoLink)
  <2> DEFINE young == IF kbMode = "SYNCING" THEN YoungLoops - loops ELSE 0
  <2>1. young' = young /\ young \in Nat
    BY <1>2
  <2> HIDE DEF young
  <2>2. CASE noAck = NoLink
    <3>1. noAck' = NoLink
      BY <1>2, <1>5, <2>2 DEF Least
    <3>2. Patience' = 1 + young' /\ Patience = 1 + young
      BY <1>2, <2>1, <2>2, <3>1 DEF Patience, young
    <3> QED
      BY <1>5, <2>1, <3>2
  <2>3. CASE noAck < NoLink
    <3>1. noAck' = noAck + 1
      BY <1>2, <1>5, <2>3 DEF Least
    <3>2. Patience' = (NoLink - (noAck + 1)) + 1 + young'
      BY <1>5, <3>1 DEF Patience, young
    <3>3. Patience = (NoLink - noAck) + young
      BY <1>2, <2>1, <2>3 DEF Patience, young
    <3> QED
      BY <1>2, <1>5, <2>1, <3>2, <3>3
  <2> QED
    BY <1>2, <2>2, <2>3
<1> QED
  BY <1>3, <1>4, <1>5

LEMMA SuspendTires ==
  ASSUME IInv, NEW led \in BOOLEAN, Suspend(led)
  PROVE  /\ Patience' <= Patience
         /\ phase = "pmBusy" => Patience' < Patience
<1>1. /\ noAck \in 0..NoLink /\ NoLink \in Nat
      /\ loops \in 0..YoungLoops /\ YoungLoops \in Nat
  BY LinkAssumption DEF IInv, TypeOK
<1>2. noAck' = noAck /\ kbMode' = kbMode /\ phase' = "scan" /\ phase # "scan"
  BY DEF Suspend
<1>3. ~QuickSleep
  BY DEF Suspend, GoesDeep
<1>4. CASE noAck = NoLink
  <2>1. kbMode = "SYNCING" /\ loops < YoungLoops
    BY <1>1, <1>3, <1>4 DEF QuickSleep
  <2>2. loops' = loops + 1
    BY <1>1, <2>1 DEF Suspend, Least
  <2>3. Patience' = (NoLink - NoLink) + 1 + (YoungLoops - (loops + 1))
    BY <1>2, <1>4, <2>1, <2>2 DEF Patience
  <2>4. Patience = (NoLink - NoLink) + 1 + (YoungLoops - loops)
    BY <1>4, <2>1 DEF Patience
  <2> QED
    BY <1>1, <2>1, <2>3, <2>4
<1>5. CASE noAck < NoLink
  <2> DEFINE young == IF kbMode = "SYNCING" THEN YoungLoops - loops ELSE 0
  <2>1. young \in Nat /\ young' \in Nat /\ young' <= young
    <3>1. kbMode = "SYNCING" => loops' = Least(loops + 1, YoungLoops)
      BY DEF Suspend
    <3>2. kbMode = "SYNCING" => loops' \in 0..YoungLoops /\ loops <= loops'
      BY <1>1, <3>1 DEF Least
    <3> QED
      BY <1>1, <1>2, <3>2
  <2> HIDE DEF young
  <2>2. Patience' = (NoLink - noAck) + 0 + young'
    BY <1>1, <1>2, <1>5 DEF Patience, young
  <2> DEFINE debt == IF phase = "pmBusy" THEN 1 ELSE 0
  <2>3. Patience = (NoLink - noAck) + debt + young
    BY <1>1, <1>5 DEF Patience, young
  <2>4. debt \in 0..1 /\ (phase = "pmBusy" => debt = 1)
    OBVIOUS
  <2> HIDE DEF debt
  <2>5. NoLink - noAck \in Nat
    BY <1>1
  <2>6. Patience' <= Patience
    BY <2>1, <2>2, <2>3, <2>4, <2>5
  <2>7. phase = "pmBusy" => Patience' < Patience
    BY <2>1, <2>2, <2>3, <2>4, <2>5
  <2> QED
    BY <2>6, <2>7
<1> QED
  BY <1>1, <1>4, <1>5

\* Every unanswered loop of transmissions brings deep sleep closer, for every
\* HOST_NO_LINK, retry count and pairing time: 400 loops, 20 s of pairing.
THEOREM LinkTiresOut == Spec => TiresOut
<1> DEFINE Tires == Unanswered =>
      /\ Patience' <= Patience
      /\ phase = "pmBusy" /\ phase' = "scan" => Patience' < Patience
<1>1. IInv /\ [Next]_vars => [Tires]_vars
  <2> SUFFICES ASSUME IInv, Next, Unanswered
               PROVE  /\ Patience' <= Patience
                      /\ phase = "pmBusy" /\ phase' = "scan" => Patience' < Patience
    OBVIOUS
  <2>1. TypeOK /\ Patience \in Nat
    BY PatienceType DEF IInv
  <2>2. ASSUME NEW h \in BOOLEAN, NEW k \in Kind \cup {"none", "forced"}, Loop(h, k)
        PROVE  Patience' <= Patience /\ phase # "pmBusy"
    <3>1. phase = "scan" /\ phase' \in {"tx", "pmIdle"} /\ noAck' = noAck /\ ~h
      BY <2>2 DEF Loop, Unanswered
    <3>2. loops' = loops /\ (kbMode' = kbMode \/ kbMode' = "NORMAL")
      BY <2>2, <3>1 DEF Loop
    <3>3. CASE kbMode' = kbMode
      <4>1. Patience' = Patience
        BY <3>1, <3>2, <3>3 DEF Patience
      <4> QED
        BY <2>1, <3>1, <4>1
    <3>4. CASE kbMode' = "NORMAL"
      <4>1. Patience' = (NoLink - noAck) + (IF noAck = NoLink THEN 1 ELSE 0) + 0
        BY <3>1, <3>4 DEF Patience
      <4>2. noAck \in 0..NoLink /\ loops \in 0..YoungLoops
        BY <2>1 DEF TypeOK
      <4> QED
        BY <3>1, <4>1, <4>2, LinkAssumption DEF Patience
    <3> QED
      BY <3>2, <3>3, <3>4
  <2>3. CASE TxLost
    <3>1. phase = "tx" /\ Miss /\ UNCHANGED <<kbMode, loops>>
      BY <2>3 DEF TxLost, txFrame
    <3>2. "lost" \in Fate /\ noAck' # 0
      BY DEF Fate, Unanswered
    <3> QED
      BY <2>1, <3>1, <3>2, TurnTires
  <2>4. ASSUME NEW f \in Fate, NEW strong \in BOOLEAN, TxPairing(f, strong)
        PROVE  Patience' <= Patience /\ phase # "pmBusy"
    <3>1. phase = "tx" /\ (Finish(f) \/ Miss) /\ UNCHANGED <<kbMode, loops>>
      BY <2>4 DEF TxPairing, txFrame
    <3> QED
      BY <2>1, <3>1, TurnTires DEF Unanswered
  <2>5. ASSUME NEW f \in Fate, NEW asks \in BOOLEAN, TxKeyboard(f, asks)
        PROVE  Patience' <= Patience /\ phase # "pmBusy"
    <3>1. phase = "tx" /\ Finish(f) /\ UNCHANGED <<kbMode, loops>>
      BY <2>5 DEF TxKeyboard, txFrame
    <3> QED
      BY <2>1, <3>1, TurnTires DEF Unanswered
  <2>6. ASSUME NEW led \in BOOLEAN, Suspend(led)
        PROVE  Patience' <= Patience /\ (phase = "pmBusy" => Patience' < Patience)
    BY <2>6, SuspendTires
  <2>7. ASSUME NEW led \in BOOLEAN, WaitDeep(led) \/ DeepSleep(led)
        PROVE  FALSE
    BY <2>7 DEF WaitDeep, DeepSleep, Unanswered
  <2>8. ~Wake /\ ~BatteryChange
    BY <2>1, LinkAssumption DEF Wake, BatteryChange, Unanswered, TypeOK
  <2>9. CASE Replug \/ OtherPairs
    <3>1. UNCHANGED <<noAck, phase, kbMode, loops>>
      BY <2>9 DEF Replug, OtherPairs, kbVars
    <3>2. Patience' = Patience
      BY <3>1 DEF Patience
    <3> QED
      BY <2>1, <3>1, <3>2
  <2> QED
    BY <2>2, <2>3, <2>4, <2>5, <2>6, <2>7, <2>8, <2>9 DEF Next, Scan, Heard, Pm
<1> QED
  BY <1>1, LinkInvariant, PTL DEF Spec, TiresOut
-----------------------------------------------------------------------------
(* Waiting for deep sleep *)

\* A step of a keyboard in STATE_WAIT_DEEP, new batteries apart: it sends nothing, looks
\* again at the end of each loop, and sleeps in the first one that ends with all keys up,
\* also if the dongle has come back and a key is struck meanwhile: the only step behind
\* WaitDeepEnds.
WaitDeepStep ==
  /\ UNCHANGED <<dongleVars, log>>
  /\ phase = "scan" => kbMode' = "WAIT_DEEP" /\ phase' = "pmIdle"
  /\ phase # "scan" => IF held THEN kbMode' = "WAIT_DEEP" /\ phase' = "scan"
                               ELSE kbMode' = "DEEP"
OnlySleepEndsWait ==
  [][kbMode = "WAIT_DEEP" /\ ~UNCHANGED kbVars /\ boots' = boots => WaitDeepStep]_vars

LEMMA WaitDeepStepIs ==
  ASSUME IInv, Next, kbMode = "WAIT_DEEP", ~UNCHANGED kbVars, boots' = boots
  PROVE  WaitDeepStep
<1>1. phase # "tx" /\ QuickSleep
  BY DEF IInv, Quiet, WaitDeepOnlyWhenLost, QuickSleep
<1>2. ASSUME NEW h \in BOOLEAN, NEW k \in Kind \cup {"none", "forced"}, Loop(h, k)
      PROVE  WaitDeepStep
  <2>1. phase = "scan" /\ kbMode' = "WAIT_DEEP" /\ phase' = "pmIdle"
    BY <1>2 DEF Loop, Joins
  <2>2. UNCHANGED <<dongleVars, log>>
    BY <1>2 DEF Loop
  <2> QED
    BY <2>1, <2>2 DEF WaitDeepStep
<1>3. ~TxLost /\ ~Heard
  BY <1>1 DEF TxLost, Heard, TxPairing, TxKeyboard
<1>4. ASSUME NEW led \in BOOLEAN
      PROVE  ~Suspend(led)
  BY <1>1 DEF Suspend, GoesDeep
<1>5. ASSUME NEW led \in BOOLEAN, WaitDeep(led) \/ DeepSleep(led)
      PROVE  WaitDeepStep
  <2>1. phase # "scan" /\ UNCHANGED <<dongleVars, log>>
    BY <1>5 DEF WaitDeep, DeepSleep, pmFrame
  <2>2. IF held THEN kbMode' = "WAIT_DEEP" /\ phase' = "scan" ELSE kbMode' = "DEEP"
    BY <1>5 DEF WaitDeep, DeepSleep
  <2> QED
    BY <2>1, <2>2 DEF WaitDeepStep
<1>6. ~Wake /\ ~Replug /\ ~OtherPairs /\ ~BatteryChange
  BY DEF Wake, Replug, OtherPairs, BatteryChange, IInv, TypeOK
<1> QED
  BY <1>2, <1>3, <1>4, <1>5, <1>6 DEF Next, Scan, Pm

THEOREM LinkOnlySleepEndsWait == Spec => OnlySleepEndsWait
<1>1. IInv /\ [Next]_vars =>
        [kbMode = "WAIT_DEEP" /\ ~UNCHANGED kbVars /\ boots' = boots => WaitDeepStep]_vars
  BY WaitDeepStepIs
<1> QED
  BY <1>1, LinkInvariant, PTL DEF Spec, OnlySleepEndsWait
-----------------------------------------------------------------------------
(* What becomes of a request for the id *)

\* A dongle that has heard a keyboard and is bound to none asks for the id, and has
\* not had one.
Asks ==
  /\ gotId => bound # "none"
  /\ working /\ bound = "none" => askId

LEMMA NextAsks ==
  ASSUME TypeOK, Asks, [Next]_vars
  PROVE  Asks'
<1>1. ASSUME UNCHANGED dongleVars PROVE Asks'
  BY <1>1 DEF Asks, dongleVars
<1>2. ASSUME NEW f \in Fate, NEW asks \in BOOLEAN, TxKeyboard(f, asks) PROVE Asks'
  <2>1. LearnId /\ gotId \in BOOLEAN /\ askId \in BOOLEAN
    BY <1>2 DEF TxKeyboard, TypeOK
  <2>2. bound' = BoundAfter /\ (bound # "none" => BoundAfter # "none")
    BY <2>1 DEF LearnId, BoundAfter
  <2>3. gotId' = (gotId \/ BoundAfter # "none")
    BY <2>1 DEF LearnId
  <2>4. askId' = IF gotId THEN askId ELSE BoundAfter = "none"
    BY <2>1 DEF LearnId
  <2> QED
    BY <2>2, <2>3, <2>4 DEF Asks
<1>3. ASSUME NEW f \in Fate, NEW strong \in BOOLEAN, TxPairing(f, strong) PROVE Asks'
  <2>1. /\ bound # "none" => bound' # "none"
        /\ working' = working /\ askId' = askId /\ gotId' = gotId
    BY <1>3 DEF TxPairing
  <2> QED
    BY <2>1 DEF Asks
<1>4. CASE Replug
  BY <1>4 DEF Replug, Asks
<1>5. CASE OtherPairs
  BY <1>5 DEF OtherPairs, Asks
<1>6. CASE Scan \/ TxLost \/ Pm \/ Wake \/ BatteryChange \/ UNCHANGED vars
  <2>1. UNCHANGED dongleVars
    BY <1>6 DEF Scan, Loop, TxLost, Pm, Suspend, WaitDeep, DeepSleep, pmFrame, Wake,
                BatteryChange, vars
  <2> QED
    BY <1>1, <2>1
<1> QED
  BY <1>2, <1>3, <1>4, <1>5, <1>6 DEF Next, Heard

\* A keyboard that has been asked for its id sends it in the next loop, unless that
\* reads a new wide report; the first frame with it that a dongle which has asked hears
\* binds that dongle, and nothing else makes the keyboard forget the request but a
\* dongle just plugged in, which then asks itself: the step behind IdHandedOver.
RequestStep ==
  /\ phase = "scan" /\ phase' # "scan" =>
       \/ pkt'.type = "SEND_ID" /\ phase' = "tx"
       \/ pkt'.kind = "wide" /\ popped' = popped + 1
  /\ \A f \in Fate, asks \in BOOLEAN :
       TxKeyboard(f, asks) /\ pkt.type = "SEND_ID" /\ working => bound' # "none"
  /\ ~sendId' => bound' # "none" \/ ~working
RequestStays ==
  [][sendId /\ kbMode = "NORMAL" /\ kbMode' = "NORMAL" /\ boots' = boots => RequestStep]_vars

LEMMA LoopSendsId ==
  ASSUME IInv, sendId, kbMode = "NORMAL",
         NEW h \in BOOLEAN, NEW k \in Kind \cup {"none", "forced"}, Loop(h, k)
  PROVE  \/ pkt'.type = "SEND_ID" /\ phase' = "tx"
         \/ pkt'.kind = "wide" /\ popped' = popped + 1
<1> DEFINE new  == Reported(k) \/ Joins
           p    == IF new THEN Loaded(k) ELSE pkt
           id   == AllowId(new, p)
<1>1. LoadPacket(k)
  BY DEF Loop, IInv, Budget
<1>2. DOMAIN p = {"seq", "ev", "kind", "did", "type"} /\ popped \in Nat
  BY DEF IInv, TypeOK, Packet, Loaded
<1>3. CASE id
  <2>1. pkt' = [p EXCEPT !.did = TRUE, !.type = "SEND_ID"]
    BY <1>1, <1>3 DEF LoadPacket
  <2>2. sending' = (RetryThresh # 0)
    BY <1>1, <1>3 DEF LoadPacket
  <2> HIDE DEF p, id
  <2>3. RetryThresh # 0
    BY LinkAssumption
  <2>4. phase' = "tx"
    BY <2>2, <2>3, Zenon DEF Loop
  <2>5. pkt'.type = "SEND_ID"
    BY <1>2, <2>1
  <2> QED
    BY <2>4, <2>5
<1>4. CASE ~id
  <2>1. new /\ p.kind = "wide"
    BY <1>4 DEF AllowId
  <2>2. pkt' = [p EXCEPT !.type = "KEYBOARD"]
    BY <1>1, <1>4 DEF LoadPacket
  <2>3. p = Loaded(k)
    BY <2>1
  <2>4. ~Joins /\ KindAfter(k) = "wide"
    BY <2>1, <2>3 DEF Loaded
  <2>5. IsEvent(k)
    BY <2>4 DEF IsEvent, KindAfter, Kind
  <2>6. popped' = popped + 1
    BY <1>1, <2>1, <2>5 DEF LoadPacket
  <2> HIDE DEF p, id
  <2>7. pkt'.kind = "wide"
    BY <1>2, <2>1, <2>2
  <2> QED
    BY <2>6, <2>7
<1> QED
  BY <1>3, <1>4

LEMMA HeardBinds ==
  ASSUME IInv, Asks, NEW f \in Fate, NEW asks \in BOOLEAN, TxKeyboard(f, asks)
  PROVE  /\ pkt.type = "SEND_ID" /\ working => bound' # "none"
         /\ ~sendId' /\ sendId => bound' # "none" \/ ~working
<1>1. LearnId /\ bound' = BoundAfter /\ gotId \in BOOLEAN /\ askId \in BOOLEAN
  BY DEF TxKeyboard, LearnId, IInv, TypeOK
<1>2. ASSUME bound' = "none" PROVE gotId = FALSE /\ bound = "none" /\ askId' = TRUE
  <2>1. bound = "none"
    BY <1>1, <1>2 DEF BoundAfter
  <2>2. ~gotId
    BY <2>1 DEF Asks
  <2> QED
    BY <1>1, <1>2, <2>1, <2>2 DEF LearnId
<1>3. ASSUME pkt.type = "SEND_ID", working PROVE bound' # "none"
  <2>1. SUFFICES ASSUME bound' = "none" PROVE FALSE
    OBVIOUS
  <2>2. ~gotId /\ askId
    BY <1>2, <1>3, <2>1 DEF Asks
  <2> QED
    BY <1>1, <1>3, <2>1, <2>2 DEF BoundAfter
<1>4. ASSUME ~sendId', sendId, working PROVE bound' # "none"
  <2>1. SUFFICES ASSUME bound' = "none" PROVE FALSE
    OBVIOUS
  <2>2. askId /\ askId'
    BY <1>2, <1>4, <2>1 DEF Asks
  <2>3. asks = TRUE
    BY <1>1, <2>2 DEF TxKeyboard
  <2>4. sendId' = sendId \/ sendId' = asks
    BY DEF TxKeyboard, TakeAnswer
  <2> QED
    BY <1>4, <2>3, <2>4
<1> QED
  BY <1>3, <1>4

LEMMA RequestStepIs ==
  ASSUME IInv, Asks, Next, sendId, kbMode = "NORMAL", kbMode' = "NORMAL", boots' = boots
  PROVE  RequestStep
<1>1. ASSUME NEW f \in Fate, NEW asks \in BOOLEAN, TxKeyboard(f, asks), pkt.type = "SEND_ID",
             working
      PROVE  bound' # "none"
  BY <1>1, HeardBinds
<1>2. ASSUME NEW h \in BOOLEAN, NEW k \in Kind \cup {"none", "forced"}, Loop(h, k)
      PROVE  RequestStep
  <2>1. sendId' = sendId
    BY <1>2 DEF Loop
  <2> QED
    BY <1>1, <1>2, <2>1, LoopSendsId DEF RequestStep
<1>3. ASSUME phase = "tx", ~sendId' => bound' # "none" \/ ~working PROVE RequestStep
  BY <1>1, <1>3 DEF RequestStep
<1>4. ASSUME sendId' = sendId, phase = "scan" => phase' = "scan" PROVE RequestStep
  BY <1>1, <1>4 DEF RequestStep
<1>5. CASE TxLost
  BY <1>3, <1>5 DEF TxLost
<1>6. CASE Heard
  <2>1. ~\E f \in Fate, strong \in BOOLEAN : TxPairing(f, strong)
    BY DEF TxPairing
  <2>2. PICK f \in Fate, asks \in BOOLEAN : TxKeyboard(f, asks)
    BY <1>6, <2>1 DEF Heard
  <2>3. phase = "tx"
    BY <2>2 DEF TxKeyboard
  <2> QED
    BY <1>3, <2>2, <2>3, HeardBinds
<1>7. CASE Pm
  <2>1. sendId' = sendId /\ phase # "scan"
    BY <1>7 DEF Pm, Suspend, WaitDeep, DeepSleep
  <2> QED
    BY <1>4, <2>1
<1>8. ~Wake /\ ~BatteryChange
  BY DEF Wake, BatteryChange, IInv, TypeOK
<1>9. CASE Replug \/ OtherPairs
  <2>1. sendId' = sendId /\ phase' = phase
    BY <1>9 DEF Replug, OtherPairs, kbVars
  <2> QED
    BY <1>4, <2>1
<1> QED
  BY <1>2, <1>5, <1>6, <1>7, <1>8, <1>9 DEF Next, Scan

THEOREM LinkRequestStays == Spec => RequestStays
<1>1. Init => Asks
  BY DEF Init, Asks
<1>2. IInv /\ Asks /\ [Next]_vars => Asks'
  BY NextAsks DEF IInv
<1>3. IInv /\ Asks /\ [Next]_vars =>
        [sendId /\ kbMode = "NORMAL" /\ kbMode' = "NORMAL" /\ boots' = boots => RequestStep]_vars
  BY RequestStepIs
<1> QED
  BY <1>1, <1>2, <1>3, LinkInvariant, PTL DEF Spec, RequestStays
=============================================================================
