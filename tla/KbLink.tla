------------------------------- MODULE KbLink -------------------------------
(***************************************************************************)
(* The data link between one wireless keyboard and its dongle:             *)
(*   keyboard: vendor/keyboard_remington/kb.c, kb_rf.c, kb_pm.c, kb_info.c *)
(*   dongle:   vendor/dongle/dongle.c (rf_rx_response and its callbacks)   *)
(*                                                                         *)
(* One pass of the keyboard's main loop is cut into the steps between      *)
(* which something else can happen: Loop (scan, lock, pairing, first half  *)
(* of kb_rf_proc), one step per transmission of device_send_packet, and    *)
(* Pm (kb_pm_proc).  The dongle answers a frame inside the keyboard's      *)
(* listening window, so an exchange is one step whose frame or answer may  *)
(* be lost.  Both sides may restart at any point: the keyboard loses its   *)
(* RAM in deep sleep and keeps only what kb_info_save wrote, the dongle    *)
(* forgets everything when it is unplugged.                                *)
(*                                                                         *)
(* Abstracted: radio channels (a frame on the wrong channel is a lost      *)
(* frame), the key matrix (a scan yields any report its guards allow), LED *)
(* patterns and battery (see KbIdle), EMI test mode.  The dongle is in its *)
(* default configuration, automatic pairing.                               *)
(***************************************************************************)
EXTENDS Integers, Sequences

CONSTANTS
  SeqMod,       \* seq_no is a u8: 256
  TxRetry,      \* kb_status.tx_retry
  RetryThresh,  \* loops a report is retried: kb_tx_retry_thresh = 0x400
  NoLink,       \* HOST_NO_LINK: loops without acknowledgement before sleeping, 400
  SilenceLoops, \* loops without acknowledgement until the host status is stale, 1 s
  BasicLoops,   \* kb_sleep.thresh_basic_suspend = 166
  LongLoops,    \* kb_sleep.thresh_long_suspend = 19
  YoungLoops,   \* KB_NO_QUICK_SLEEP_CNT: loops of pairing that never sleep, 20 s
  MaxEvents, MaxBoots, MaxReplugs   \* bounds of the model

ASSUME LinkAssumption ==
  /\ SeqMod \in Nat \ {0, 1}
  /\ TxRetry \in Nat
  /\ RetryThresh \in Nat /\ NoLink \in Nat /\ 1 < NoLink /\ NoLink < RetryThresh
  /\ SilenceLoops \in Nat /\ BasicLoops \in Nat /\ SilenceLoops < BasicLoops
  /\ LongLoops \in Nat /\ 1 < LongLoops
  /\ YoungLoops \in Nat
  /\ MaxEvents \in Nat /\ MaxBoots \in Nat /\ MaxReplugs \in Nat

\* Key reports (kb_data_t): no key, one or two keys, three or more, the lock key
\* alone.  Keycodes 2 to 5 of a wide report share bytes 4 to 7 with the device id.
Kind == {"zero", "narrow", "wide", "lock"}

VARIABLES
  \* keyboard
  kbMode,   \* "SYNCING" (also STATE_PAIRING), "NORMAL", "WAIT_DEEP", "DEEP" (asleep)
  linked,   \* mode_link & LINK_PIPE_CODE_OK; in deep sleep, what the registers keep
  locked,   \* kb_is_lock_pressed
  lastZero, \* kb_lock_status.last_kb_cnt = 0
  valid,    \* host_keyboard_status is not KB_NUMLOCK_STATUS_INVALID
  silence,  \* loops since tick_last_tx, capped
  pkt,      \* pkt_km: sequence number, report, id written over its last bytes, type
  sending,  \* km_dat_sending
  thresh,   \* kb_tx_retry_thresh
  sendId,   \* pipe1_send_id_flg
  noAck,    \* kb_status.no_ack, capped at NoLink
  loops,    \* kb_status.loop_cnt while pairing, capped at YoungLoops
  sleep,    \* kb_sleep.mode: "BASIC", "LONG" or "WAIT_DEEP"
  cnt,      \* kb_sleep.cnt_basic_suspend or cnt_long_suspend, whichever counts
  held,     \* scan_pin_need # 0
  phase,    \* where the main loop is
  tries,    \* the loop variable of device_send_packet
  \* dongle
  bound,    \* custom_binding[1]: "none" (U32_MAX), "kb" or "other"
  working,  \* binding_device[1]
  dseq,     \* seq_no_keyboard
  askId,    \* ack_keyboard.type = FRAME_AUTO_ACK_KB_ASK_ID
  gotId,    \* kb_auto_getid_flg
  \* history
  popped,   \* number of key reports the keyboard has taken up for sending
  log,      \* the key reports passed to the host since the dongle was plugged in
  acked,    \* the key report acknowledged last
  boots, replugs

kbVars     == <<kbMode, linked, locked, lastZero, valid, silence, pkt, sending,
                thresh, sendId, noAck, loops, sleep, cnt, held, phase, tries>>
dongleVars == <<bound, working, dseq, askId, gotId>>
vars       == <<kbVars, dongleVars, popped, log, acked, boots, replugs>>

Packet == [seq : 0..SeqMod-1, ev : 0..MaxEvents, kind : Kind, did : BOOLEAN,
           type : {"KEYBOARD", "SEND_ID"}]
BlankPacket == [seq |-> 0, ev |-> 0, kind |-> "zero", did |-> FALSE,
                type |-> "KEYBOARD"]
Delivered(n) == \E i \in DOMAIN log : log[i] = n
Least(a, b)  == IF a < b THEN a ELSE b
Larger(a, b) == IF a < b THEN b ELSE a
-----------------------------------------------------------------------------
(* Start and restart of the keyboard *)

\* The RAM of a keyboard that has just run user_init.
FreshRam ==
  /\ lastZero' = TRUE /\ valid' = FALSE /\ silence' = 0
  /\ pkt' = BlankPacket /\ sending' = FALSE /\ thresh' = 0 /\ sendId' = FALSE
  /\ noAck' = 1 /\ loops' = 0 /\ sleep' = "BASIC" /\ cnt' = 0
  /\ held' = FALSE /\ phase' = "scan" /\ tries' = 0

Init ==
  /\ kbMode = "SYNCING" /\ linked = FALSE /\ locked = FALSE
  /\ lastZero = TRUE /\ valid = FALSE /\ silence = 0
  /\ pkt = BlankPacket /\ sending = FALSE /\ thresh = 0 /\ sendId = FALSE
  /\ noAck = 1 /\ loops = 0 /\ sleep = "BASIC" /\ cnt = 0
  /\ held = FALSE /\ phase = "scan" /\ tries = 0
  /\ bound = "none" /\ working = FALSE /\ dseq = 0
  /\ askId = FALSE /\ gotId = FALSE
  /\ popped = 0 /\ log = <<>> /\ acked = 0 /\ boots = 0 /\ replugs = 0

\* A key wakes the keyboard: user_init with kb_info_load and kb_rf_init.
Wake ==
  /\ kbMode = "DEEP" /\ boots < MaxBoots
  /\ kbMode' = IF linked THEN "NORMAL" ELSE "SYNCING"
  /\ FreshRam
  /\ boots' = boots + 1
  /\ UNCHANGED <<linked, locked, dongleVars, popped, log, acked, replugs>>

\* The battery is taken out: the retention registers are lost too.
BatteryChange ==
  /\ boots < MaxBoots
  /\ kbMode' = "SYNCING" /\ linked' = FALSE /\ locked' = FALSE
  /\ FreshRam
  /\ boots' = boots + 1
  /\ UNCHANGED <<dongleVars, popped, log, acked, replugs>>
-----------------------------------------------------------------------------
(* Keyboard: one pass of main_loop up to the radio *)

\* kb_scan_key returns an empty report while the host status is unknown, even if
\* a report is still being sent.
NeverForced == FALSE  \* mutant: real keys are read from the first scan on
Forced == ~valid /\ kbMode = "NORMAL" /\ ~locked

\* What a scan may return: nothing, the forced empty report, or the next report,
\* the last only if no report is being sent (read_key = !km_dat_sending).
ScanYields(h, k) ==
  \/ k = "none" /\ (~h \/ ~Forced)
  \/ k = "forced" /\ h /\ Forced
  \/ k \in Kind /\ h /\ ~Forced /\ ~sending /\ popped < MaxEvents

\* kb_lock_func: the lock key, pressed alone after a release, toggles the lock;
\* unlocking sends an empty report if the host status is unknown; while locked
\* nothing is reported.
Toggles(k)   == k = "lock" /\ lastZero
LockAfter(k) == IF Toggles(k) THEN ~locked ELSE locked
KindAfter(k) ==
  IF k = "forced" \/ (Toggles(k) /\ locked /\ ~valid) THEN "zero" ELSE k
Reported(k)  == k # "none" /\ ~LockAfter(k)

\* kb_paring_and_syncing_proc: the link has just been granted.
Joins == kbMode = "SYNCING" /\ linked

\* The report loaded into pkt_km (key_scaned in kb_rf_proc).  A report of the
\* user gets a number of its own, a forced or joining empty one the number 0.
IsEvent(k) == k \in Kind /\ KindAfter(k) = k /\ ~Joins

LoadedUnwrapped(k) ==  \* mutant: a seq_no wider than a byte
  [seq  |-> pkt.seq + 1,
   ev   |-> IF IsEvent(k) THEN popped + 1 ELSE 0,
   kind |-> IF Joins THEN "zero" ELSE KindAfter(k),
   did  |-> FALSE,
   type |-> "KEYBOARD"]
Loaded(k) ==
  [seq  |-> (pkt.seq + 1) % SeqMod,
   ev   |-> IF IsEvent(k) THEN popped + 1 ELSE 0,
   kind |-> IF Joins THEN "zero" ELSE KindAfter(k),
   did  |-> FALSE,
   type |-> "KEYBOARD"]

\* The dongle asked for the id: it goes out over bytes 4 to 7, unless a new wide
\* report needs them.
AllowId(new, p) == sendId /\ (new => p.kind # "wide")

\* kb_rf_proc before device_send_packet, with a link.
LoadPacket(k) ==
  LET new  == Reported(k) \/ Joins
      p    == IF new THEN Loaded(k) ELSE pkt
      id   == AllowId(new, p)
      left == IF new \/ id THEN RetryThresh ELSE thresh
  IN /\ valid' = (valid /\ silence < SilenceLoops)
     /\ pkt' = IF id THEN [p EXCEPT !.did = TRUE, !.type = "SEND_ID"]
                     ELSE [p EXCEPT !.type = "KEYBOARD"]
     /\ popped' = IF new /\ IsEvent(k) THEN popped + 1 ELSE popped
     /\ IF sending \/ new \/ id
        THEN sending' = (left # 0) /\ thresh' = IF left # 0 THEN left - 1 ELSE 0
        ELSE UNCHANGED <<sending, thresh>>

\* h: a key is down (or was within six scans); k: what the scan returns.
\* While pairing ESC+Q may restart the pairing window (loop_cnt).
Loop(h, k) ==
  /\ phase = "scan" /\ kbMode # "DEEP"
  /\ ScanYields(h, k)
  /\ held' = h
  /\ locked' = IF k = "none" THEN locked ELSE LockAfter(k)
  /\ lastZero' = IF k = "none" THEN lastZero ELSE KindAfter(k) = "zero"
  /\ kbMode' = IF Joins THEN "NORMAL" ELSE kbMode
  /\ loops' \in IF h /\ kbMode = "SYNCING" THEN {loops, 0} ELSE {loops}
  /\ IF linked THEN LoadPacket(k)
               ELSE UNCHANGED <<valid, pkt, popped, sending, thresh>>
  /\ phase' = IF (sending' \/ ~linked) /\ kbMode # "WAIT_DEEP" THEN "tx" ELSE "pmIdle"
  /\ UNCHANGED <<linked, silence, sendId, noAck, sleep, cnt, tries,
                 dongleVars, log, acked, boots, replugs>>
-----------------------------------------------------------------------------
(* One transmission of device_send_packet and the dongle's answer *)

\* No acknowledgement in the window: send again, or give up until the next loop.
MissUncounted ==  \* mutant: no_ack is not counted
  /\ IF tries < TxRetry
     THEN tries' = tries + 1 /\ UNCHANGED <<phase, noAck>>
     ELSE tries' = 0 /\ phase' = "pmBusy" /\ UNCHANGED noAck
  /\ UNCHANGED <<sending, silence, acked>>
Miss ==
  /\ IF tries < TxRetry
     THEN tries' = tries + 1 /\ UNCHANGED <<phase, noAck>>
     ELSE tries' = 0 /\ phase' = "pmBusy" /\ noAck' = Least(noAck + 1, NoLink)
  /\ UNCHANGED <<sending, silence, acked>>

\* irq_device_rx took the answer as the acknowledgement of this frame.
Done ==
  /\ tries' = 0 /\ phase' = "pmBusy" /\ noAck' = 0
  /\ sending' = FALSE /\ silence' = 0
  /\ acked' = IF kbMode = "NORMAL" /\ pkt.ev # 0 THEN pkt.ev ELSE acked

\* The fate of an answer: lost; received, but ignored because it carries the tick
\* of the answer before (ll_chn_tick); or received.
Fate == {"lost", "stale", "ok"}
Finish(f) == IF f = "ok" THEN Done ELSE Miss

txFrame == <<kbMode, locked, lastZero, pkt, thresh, loops, sleep, cnt, held,
             popped, boots, replugs>>

\* The frame does not reach the dongle.
TxLost ==
  /\ phase = "tx" /\ kbMode # "DEEP"
  /\ Miss
  /\ UNCHANGED <<txFrame, linked, valid, sendId, dongleVars, log>>

\* A frame on the pairing pipe: rf_rx_response grants the link to the keyboard it
\* is bound to; otherwise callback_pairing binds it if nothing is bound, no
\* keyboard is working yet and the signal is strong, and the answer is no
\* acknowledgement.
TxPairing(f, strong) ==
  /\ phase = "tx" /\ kbMode = "SYNCING"
  /\ IF bound = "kb"
     THEN /\ linked' = (f # "lost" \/ linked)
          /\ Finish(f)
          /\ UNCHANGED bound
     ELSE /\ bound' = IF ~working /\ bound = "none" /\ strong THEN "kb" ELSE bound
          /\ Miss
          /\ UNCHANGED linked
  /\ UNCHANGED <<txFrame, valid, sendId, working, dseq, askId, gotId, log>>

\* callback_keyboard: learn the id if it was asked for, ask for it if it is still
\* unknown.
BoundAfterDeaf == IF gotId /\ askId /\ pkt.type = "SEND_ID" THEN "kb" ELSE bound  \* mutant: flag tested the wrong way round
BoundAfter == IF ~gotId /\ askId /\ pkt.type = "SEND_ID" THEN "kb" ELSE bound
LearnId ==
  /\ bound' = BoundAfter
  /\ askId' = IF gotId THEN askId ELSE BoundAfter = "none"
  /\ gotId' = (gotId \/ BoundAfter # "none")

\* callback_keyboard: "skip same packet"; anything else goes to the host.
AcceptsAll(p) == TRUE  \* mutant: nothing is skipped
Accepts(p) == p.seq # dseq
PassOn ==
  /\ dseq' = IF Accepts(pkt) THEN pkt.seq ELSE dseq
  /\ log' = IF Accepts(pkt) /\ pkt.ev # 0 THEN Append(log, pkt.ev) ELSE log

\* rf_rx_process on the keyboard: an answer that asks for the id sets the flag
\* only; any other one brings the host status and clears the flag.
TakeAnswer(asks) ==
  /\ sendId' = asks
  /\ valid' = (valid \/ ~asks)

\* A frame on the keyboard pipe.  The answer is handed to the radio before
\* callback_keyboard may change its type, so it goes out with either type.
TxKeyboard(f, asks) ==
  /\ phase = "tx" /\ kbMode = "NORMAL"
  /\ working' = TRUE
  /\ LearnId
  /\ PassOn
  /\ asks \in {askId, askId'}
  /\ IF f = "lost" THEN UNCHANGED <<sendId, valid>> ELSE TakeAnswer(asks)
  /\ Finish(f)
  /\ UNCHANGED <<txFrame, linked>>
-----------------------------------------------------------------------------
(* Power management of the keyboard: kb_pm_proc and kb_slp_mode_machine *)

BusyUnlocked(led) == phase = "pmBusy" \/ led  \* mutant: lock and keys down not counted
Busy(led)  == phase = "pmBusy" \/ led \/ (locked /\ held)
QuickSleepLinked == noAck >= NoLink /\ kbMode # "SYNCING"  \* mutant: never while pairing
QuickSleep == noAck >= NoLink /\ (kbMode = "SYNCING" => loops >= YoungLoops)

GoesDeepOnce(led) ==  \* mutant: quick_sleep not looked at again while waiting
  (QuickSleep /\ sleep # "WAIT_DEEP") \/ (~Busy(led) /\ sleep = "LONG" /\ cnt + 1 > LongLoops)
GoesDeep(led) ==
  QuickSleep \/ (~Busy(led) /\ sleep = "LONG" /\ cnt + 1 > LongLoops)

\* kb_slp_mode_machine when it does not decide for deep sleep.
SleepStep(led) ==
  \/ /\ Busy(led)
     /\ sleep' = "BASIC" /\ cnt' = 0
  \/ /\ ~Busy(led) /\ sleep = "BASIC" /\ cnt + 1 < BasicLoops
     /\ sleep' = "BASIC" /\ cnt' = cnt + 1
  \/ /\ ~Busy(led) /\ sleep = "BASIC" /\ cnt + 1 >= BasicLoops
     /\ sleep' = "LONG" /\ cnt' = 1
  \/ /\ ~Busy(led) /\ sleep # "BASIC"
     /\ sleep' = sleep /\ cnt' = IF sleep = "LONG" THEN cnt + 1 ELSE cnt

pmFrame == <<linked, locked, dongleVars, popped, log, acked, boots, replugs>>

\* The end of a loop that goes on; led: KB_LED_BUSY.
Suspend(led) ==
  /\ phase \in {"pmBusy", "pmIdle"} /\ kbMode # "DEEP"
  /\ ~GoesDeep(led)
  /\ SleepStep(led)
  /\ phase' = "scan"
  /\ silence' = Least(silence + 1, SilenceLoops)
  /\ loops' = IF kbMode = "SYNCING" THEN Least(loops + 1, YoungLoops) ELSE 0
  /\ UNCHANGED <<pmFrame, kbMode, lastZero, valid, pkt, sending, thresh, sendId,
                 noAck, held, tries>>

\* Deep sleep is due but a key is down: wait, radio off, until it is released.
WaitDeep(led) ==
  /\ phase \in {"pmBusy", "pmIdle"} /\ kbMode # "DEEP"
  /\ GoesDeep(led) /\ held
  /\ kbMode' = "WAIT_DEEP" /\ sleep' = "WAIT_DEEP" /\ cnt' = 0
  /\ phase' = "scan"
  /\ silence' = Least(silence + 1, SilenceLoops)
  /\ loops' = 0
  /\ UNCHANGED <<pmFrame, lastZero, valid, pkt, sending, thresh, sendId, noAck,
                 held, tries>>

\* kb_info_save and deep sleep: RAM is gone, a key will wake the keyboard.
DeepSleep(led) ==
  /\ phase \in {"pmBusy", "pmIdle"} /\ kbMode # "DEEP"
  /\ GoesDeep(led) /\ ~held
  /\ kbMode' = "DEEP"
  /\ FreshRam
  /\ UNCHANGED pmFrame
-----------------------------------------------------------------------------
(* The rest of the world *)

\* The dongle is unplugged and plugged in again: RAM and host state are new.
Replug ==
  /\ replugs < MaxReplugs
  /\ bound' = "none" /\ working' = FALSE /\ dseq' = 0
  /\ askId' = FALSE /\ gotId' = FALSE
  /\ log' = <<>>
  /\ replugs' = replugs + 1
  /\ UNCHANGED <<kbVars, popped, acked, boots>>

\* Another keyboard asks to be paired (callback_pairing, as in TxPairing).
OtherPairsAnyTime ==  \* mutant: binding_device not tested
  /\ bound = "none"
  /\ bound' = "other"
  /\ UNCHANGED <<kbVars, working, dseq, askId, gotId, popped, log, acked, boots,
                 replugs>>
OtherPairs ==
  /\ bound = "none" /\ ~working
  /\ bound' = "other"
  /\ UNCHANGED <<kbVars, working, dseq, askId, gotId, popped, log, acked, boots,
                 replugs>>
-----------------------------------------------------------------------------
Scan == \E h \in BOOLEAN, k \in Kind \cup {"none", "forced"} : Loop(h, k)
Heard == \/ \E f \in Fate, strong \in BOOLEAN : TxPairing(f, strong)
         \/ \E f \in Fate, asks \in BOOLEAN : TxKeyboard(f, asks)
Pm == \E led \in BOOLEAN : Suspend(led) \/ WaitDeep(led) \/ DeepSleep(led)

Next ==
  \/ Scan \/ TxLost \/ Heard \/ Pm
  \/ Wake \/ BatteryChange \/ Replug \/ OtherPairs

Spec == Init /\ [][Next]_vars

\* The keyboard's processor keeps running its loop and its transmissions end;
\* nothing is assumed of the radio, the user or the dongle.
FairSpec == Spec /\ WF_vars(Scan) /\ WF_vars(TxLost \/ Heard) /\ WF_vars(Pm)
-----------------------------------------------------------------------------
TypeOK ==
  /\ kbMode \in {"SYNCING", "NORMAL", "WAIT_DEEP", "DEEP"}
  /\ linked \in BOOLEAN /\ locked \in BOOLEAN /\ lastZero \in BOOLEAN
  /\ valid \in BOOLEAN /\ silence \in 0..SilenceLoops
  /\ pkt \in Packet /\ sending \in BOOLEAN /\ thresh \in 0..RetryThresh
  /\ sendId \in BOOLEAN /\ noAck \in 0..NoLink /\ loops \in 0..YoungLoops
  /\ sleep \in {"BASIC", "LONG", "WAIT_DEEP"}
  /\ cnt \in 0..Larger(BasicLoops, LongLoops)
  /\ held \in BOOLEAN /\ phase \in {"scan", "tx", "pmBusy", "pmIdle"}
  /\ tries \in 0..TxRetry
  /\ bound \in {"none", "kb", "other"} /\ working \in BOOLEAN
  /\ dseq \in 0..SeqMod-1 /\ askId \in BOOLEAN /\ gotId \in BOOLEAN
  /\ popped \in 0..MaxEvents /\ log \in Seq(1..MaxEvents)
  /\ acked \in 0..MaxEvents
  /\ boots \in 0..MaxBoots /\ replugs \in 0..MaxReplugs

\* The link keeps the promise of KeyDelivery: whatever frames and answers are
\* lost and however often the keyboard sleeps, a key report reaches the host at
\* most once and in order, and one that device_send_packet calls delivered is.
KD == INSTANCE KeyDelivery
        WITH submitted <- popped, received <- log, confirmed <- acked
Delivers == KD!Spec

\* A report the host has not had never carries the number callback_keyboard
\* would skip, although a restart puts the keyboard's seq_no back to 0 while the
\* dongle remembers an old one.  (A dongle that has passed nothing on since it
\* was plugged in is the exception: it skips a first report numbered 0.)
FreshSequence ==
  kbMode = "NORMAL" /\ pkt.ev # 0 /\ ~Delivered(pkt.ev) /\ log # <<>>
    => pkt.seq # dseq

\* A report is never dropped because kb_tx_retry_thresh runs out: the keyboard
\* stops for want of answers (HOST_NO_LINK) before that.
NeverGivesUp == kbMode = "NORMAL" /\ sending /\ phase = "scan" => thresh > 0

\* STATE_WAIT_DEEP is entered only because the host is gone.  kb_slp_mode_machine
\* has no way out of SLEEP_MODE_WAIT_DEEP but quick_sleep, so a keyboard that
\* got there by idling with a key down would neither send nor sleep.
WaitDeepOnlyWhenLost == kbMode = "WAIT_DEEP" => noAck >= NoLink

\* Once the dongle is bound to a keyboard it stays so until it is unplugged,
\* although binding happens on two paths (pairing request, id over the data pipe).
BindingStable ==
  [][bound # "none" => bound' = bound \/ replugs' # replugs]_vars

\* Without acknowledgements, restarts and keys held down the keyboard stops
\* transmitting: the battery does not drain into a dead link.
Abandoned == <>[](noAck # 0 /\ ~held) /\ <>[][boots' = boots]_vars
DeadRadioSleeps == Abandoned => <>[](phase # "tx")

\* A keyboard waiting for its keys to be released does sleep once they are.
WaitDeepEnds ==
  <>[](~held) => (kbMode = "WAIT_DEEP" ~> kbMode # "WAIT_DEEP")

\* A keyboard that was asked for its id hands it over, or loses the dongle that asked:
\* the request is not forgotten behind key reports that need the id's bytes.  (Plugged in
\* once more, the dongle first has to ask again.)
IdHandedOver ==
  sendId /\ askId /\ kbMode = "NORMAL" ~> bound # "none" \/ kbMode # "NORMAL" \/ ~working

\* kb_rf.c:409: "no kb data, only did in last 4 byte; seq_no keep same, so dongle
\* reject this invalid data".  A report whose last keycodes were replaced by the
\* id is never taken for keys.
NoIdAsKeys ==
  [][phase = "tx" /\ dseq' # dseq => ~(pkt.did /\ pkt.kind = "wide")]_vars
=============================================================================
