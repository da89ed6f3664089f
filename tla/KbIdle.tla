------------------------------- MODULE KbIdle -------------------------------
(***************************************************************************)
(* What keeps the keyboard awake: manual pairing, its LED and the battery  *)
(* warning against the sleep machine,                                      *)
(* src/tlsdk/vendor/keyboard_remington: kb_led.c, kb_batt.c, kb_pm.c, and  *)
(* of kb.c and kb_rf.c what drives them.                                   *)
(*                                                                         *)
(* A pass of main_loop is two actions: Pass, up to kb_pm_proc, and that    *)
(* function.  A blinking LED keeps the keyboard from sleeping, and a low   *)
(* battery makes it blink again and again.  The link is reduced to whether *)
(* a frame is answered; KbLink has the rest of it.                         *)
(***************************************************************************)
EXTENDS Integers

CONSTANTS
  On, Off, Rep, Prio, \* [Pattern -> Nat]: kb_led_cfg, times in loops, over_wrt
  BasicLoops, LongLoops, \* thresh_basic_suspend, thresh_long_suspend
  CheckLoops,   \* batt_det_count at which the voltage is judged, 400
  DetectLoops,  \* batt_detect_cnt at which it is measured although a key is down, 40
  DetectMod,    \* 2^8, the width of batt_detect_cnt
  NoLink,       \* HOST_NO_LINK, 400
  PairFrom, PairMost, \* KB_PARING_POWER_ON_CNT 44, KB_MANUAL_PARING_MOST 833
  NoQuick,      \* KB_NO_QUICK_SLEEP_CNT, 1666
  SilenceLoops  \* loops without an answer until the host status is stale, 1 s

Pattern == {"POWER_ON", "MANUAL", "END", "OK", "BAT_LOW"}
Smaller(a, b) == IF a < b THEN a ELSE b

ASSUME IdleAssumption ==
  /\ {On, Prio} \subseteq [Pattern -> Nat] /\ {Off, Rep} \subseteq [Pattern -> Nat \ {0}]
  /\ Prio["END"] > Prio["MANUAL"] /\ Prio["OK"] > Prio["MANUAL"]
  /\ {BasicLoops, LongLoops, CheckLoops, DetectLoops, NoLink, SilenceLoops} \subseteq Nat \ {0}
  /\ SilenceLoops < BasicLoops
  /\ DetectMod \in Nat /\ DetectMod > DetectLoops
  /\ PairFrom \in Nat /\ PairMost \in Nat /\ NoQuick \in Nat
  /\ PairFrom < NoQuick /\ PairMost <= NoQuick

\* How long a pattern runs.  Of those that do not mean pairing the good news is the
\* longest, 240 loops; a battery warning and the idling after it are over before the
\* voltage is judged again, 120 + 166 < 400.
Length(p) == Rep[p] * (On[p] + Off[p])
ASSUME LengthAssumption ==
  /\ \A p \in {"POWER_ON", "END", "BAT_LOW"} : Length(p) <= Length("OK")
  /\ Length("BAT_LOW") + BasicLoops < CheckLoops
  /\ NoLink > 1

VARIABLES
  mode,    \* kb_mode, and "DEEP" for deep sleep
  linked,  \* mode_link
  locked,  \* kb_is_lock_pressed
  age,     \* loop_cnt while it counts (syncing and pairing), as far as NoQuick
  noAck,   \* no_ack, as far as NoLink
  sending, \* km_dat_sending
  fresh,   \* loops for which host_keyboard_status is still valid
  held,    \* scan_pin_need: a key is down, or was within six scans
  radio,   \* rf_sending
  led,     \* kb_device_led: pattern, repetitions left, lit, clock
  detect,  \* batt_detect_cnt
  batt,    \* batt_det_count, as far as CheckLoops
  low,     \* the battery is low
  sleep, cnt, \* kb_sleep.mode and the counter that goes with it
  phase,   \* main_loop is at its start, "run", or at kb_pm_proc, "pm"
  idle     \* loops since a key was down or an answer came

linkVars == <<linked, locked, noAck, sending, fresh, held, radio>>
lampVars == <<led, detect, batt, low>>
vars     == <<mode, age, linkVars, lampVars, sleep, cnt, phase, idle>>
-----------------------------------------------------------------------------
(* kb_led.c *)

LedOff == [pat |-> "POWER_ON", left |-> 0, lit |-> FALSE, clock |-> 0]

\* kb_device_led_setup: a pattern gives way to one of higher priority only.
GivesWay(l, p) == l.left = 0 \/ Prio[p] > Prio[l.pat]
Setup(l, p) ==
  IF GivesWay(l, p)
  THEN [pat |-> p, left |-> Rep[p], lit |-> (On[p] > 0 \/ l.lit), clock |-> 0]
  ELSE l

\* kb_device_led_process with kbLed_proc: lit for On loops, dark for Off loops.
\* (A pattern that never lights ends in its first loop.)
Ends(l)   == (l.lit \/ On[l.pat] = 0) /\ l.clock + 1 >= On[l.pat]
Lights(l) == ~l.lit /\ On[l.pat] > 0 /\ l.clock + 1 >= Off[l.pat]
LedLoopLeavesLit(l) ==  \* mutant: the last repetition does not put the LED out
  IF l.left = 0 THEN l
  ELSE [pat |-> l.pat, left |-> IF Ends(l) THEN l.left - 1 ELSE l.left,
        lit |-> Lights(l) \/ (l.lit /\ ~(Ends(l) /\ l.left > 1)),
        clock |-> IF Ends(l) \/ Lights(l) THEN 0 ELSE l.clock + 1]
LedLoop(l) ==
  IF l.left = 0 THEN l
  ELSE [pat |-> l.pat, left |-> IF Ends(l) THEN l.left - 1 ELSE l.left,
        lit |-> Lights(l) \/ (l.lit /\ ~Ends(l)),
        clock |-> IF Ends(l) \/ Lights(l) THEN 0 ELSE l.clock + 1]
-----------------------------------------------------------------------------
(* kb_batt.c *)

\* kb_batt_det_process measures at once when nothing goes on, otherwise every 40
\* loops; but not while a frame is being sent, and only in the basic mode.
Later == (detect + 1) % DetectMod
Calm(h, tx) == ~tx /\ (h => Later >= DetectLoops)
DetectAfter(h, tx) == IF Calm(h, tx) THEN 0 ELSE Later
Measures(h, tx) == Calm(h, tx) /\ sleep = "BASIC"

\* kb_batt_det_adc_sample judges the voltage every 400 loops at most.
Waited == Smaller(batt + 1, CheckLoops)
JudgesSoon(h, tx) == Measures(h, tx) /\ Waited > 2  \* mutant: judges too often
Judges(h, tx) == Measures(h, tx) /\ Waited >= CheckLoops
BattAfterMeasuring(h, tx) ==  \* mutant: every measurement clears the count
  IF Measures(h, tx) THEN 0 ELSE Waited
BattAfter(h, tx) == IF Judges(h, tx) THEN 0 ELSE Waited
Warned(l, h, tx) == IF Judges(h, tx) /\ low THEN Setup(l, "BAT_LOW") ELSE l
-----------------------------------------------------------------------------
(* kb_paring_and_syncing_proc *)

Unlinked == {"SYNCING", "PAIRING"}
Joins == mode \in Unlinked /\ linked
Expires == mode = "PAIRING" /\ ~linked /\ age >= PairMost
Starts(chord) == mode = "SYNCING" /\ ~linked /\ chord   \* ESC and Q

ModeNow(chord) ==
  CASE Joins -> "NORMAL" [] Expires -> "SYNCING" [] Starts(chord) -> "PAIRING"
    [] OTHER -> mode
LedNowKeeps(chord) ==  \* mutant: the end of pairing is not shown
  CASE Joins /\ mode = "PAIRING" -> Setup(led, "OK")
    [] Starts(chord) -> Setup(led, "MANUAL")
    [] OTHER -> led
LedNow(chord) ==
  CASE Joins /\ mode = "PAIRING" -> Setup(led, "OK")
    [] Expires -> Setup(led, "END")
    [] Starts(chord) -> Setup(led, "MANUAL")
    [] OTHER -> led
AgeNow(chord) == IF Starts(chord) THEN PairFrom ELSE age
-----------------------------------------------------------------------------
(* main_loop *)

\* kb_scan_key returns an empty report for any key while the host status is unknown.
Forced(h) == h /\ mode = "NORMAL" /\ ~locked /\ fresh = 0

\* An answer brings the status, unless it grants the link or asks for the id.
FreshAfter(chord, ok) ==
  {IF fresh > 0 THEN fresh - 1 ELSE 0}
    \cup IF ok /\ ModeNow(chord) = "NORMAL" THEN {SilenceLoops} ELSE {}

\* The loop up to kb_pm_proc.  scanned: kb_scan_key has a report; lock: of the lock
\* key; chord: of ESC and Q; ok: the frame is answered.
Pass(h, scanned, lock, chord, ok) ==
  LET new == linked /\ (Joins \/ (scanned /\ locked = lock))
      tx  == (sending \/ new \/ ~linked) /\ mode # "WAIT_DEEP"
  IN /\ phase = "run" /\ mode # "DEEP"
     /\ (scanned => h) /\ (lock => scanned) /\ (chord => h) /\ (Forced(h) => scanned)
     /\ (ok => tx)
     /\ mode' = ModeNow(chord) /\ age' = AgeNow(chord)
     /\ locked' = (locked # lock)
     /\ linked' = (linked \/ ok)
     /\ sending' = ((sending \/ new) /\ ~ok)
     /\ noAck' = IF ~tx THEN noAck ELSE IF ok THEN 0 ELSE Smaller(noAck + 1, NoLink)
     /\ fresh' \in FreshAfter(chord, ok)
     /\ held' = h /\ radio' = tx
     /\ led' = Warned(LedLoop(LedNow(chord)), h, tx)
     /\ detect' = DetectAfter(h, tx) /\ batt' = BattAfter(h, tx)
     /\ low' \in {low, TRUE}
     /\ idle' = IF h \/ ok THEN 0 ELSE idle + 1
     /\ phase' = "pm"
     /\ UNCHANGED <<sleep, cnt>>

\* kb_pm_proc with kb_slp_mode_machine.
Busy  == radio \/ led.left > 0 \/ (locked /\ held)
Quick == noAck >= NoLink /\ ~(mode \in Unlinked /\ age < NoQuick)
GoesDeep == Quick \/ (~Busy /\ sleep = "LONG" /\ cnt + 1 > LongLoops)

SleepStep ==
  \/ Busy /\ sleep' = "BASIC" /\ cnt' = 0
  \/ ~Busy /\ sleep = "BASIC" /\ cnt + 1 < BasicLoops /\ sleep' = sleep /\ cnt' = cnt + 1
  \/ ~Busy /\ sleep = "BASIC" /\ cnt + 1 >= BasicLoops /\ sleep' = "LONG" /\ cnt' = 1
  \/ ~Busy /\ sleep = "LONG" /\ sleep' = sleep /\ cnt' = cnt + 1
  \/ ~Busy /\ sleep = "WAIT_DEEP" /\ UNCHANGED <<sleep, cnt>>

Suspend ==
  /\ phase = "pm" /\ ~GoesDeep
  /\ SleepStep
  /\ age' = IF mode \in Unlinked THEN Smaller(age + 1, NoQuick) ELSE 0
  /\ phase' = "run"
  /\ UNCHANGED <<mode, linkVars, lampVars, idle>>

\* Deep sleep is due but a key is down.
WaitDeep ==
  /\ phase = "pm" /\ GoesDeep /\ held
  /\ mode' = "WAIT_DEEP" /\ sleep' = "WAIT_DEEP" /\ cnt' = 0 /\ age' = 0
  /\ phase' = "run"
  /\ UNCHANGED <<linkVars, lampVars, idle>>

\* RAM after a start.
Fresh ==
  /\ age' = 0 /\ noAck' = 1 /\ sending' = FALSE /\ fresh' = 0 /\ held' = FALSE
  /\ radio' = FALSE /\ detect' = 0 /\ batt' = 0 /\ sleep' = "BASIC" /\ cnt' = 0
  /\ phase' = "run" /\ idle' = 0

DeepSleep ==
  /\ phase = "pm" /\ GoesDeep /\ ~held
  /\ mode' = "DEEP" /\ led' = LedOff /\ Fresh
  /\ UNCHANGED <<linked, locked, low>>

\* A key wakes the keyboard: user_init with kb_info_load and kb_platform_init.
Wake ==
  /\ mode = "DEEP"
  /\ mode' = IF linked THEN "NORMAL" ELSE "SYNCING"
  /\ led' = IF linked THEN LedOff ELSE Setup(LedOff, "POWER_ON")
  /\ Fresh
  /\ UNCHANGED <<linked, locked, low>>

\* New batteries: the retention registers are lost.
BatteryChange ==
  /\ mode' = "SYNCING" /\ linked' = FALSE /\ locked' = FALSE /\ low' = FALSE
  /\ led' = Setup(LedOff, "POWER_ON")
  /\ Fresh

Init ==
  /\ mode = "SYNCING" /\ linked = FALSE /\ locked = FALSE /\ low \in BOOLEAN
  /\ led = Setup(LedOff, "POWER_ON")
  /\ age = 0 /\ noAck = 1 /\ sending = FALSE /\ fresh = 0 /\ held = FALSE
  /\ radio = FALSE /\ detect = 0 /\ batt = 0 /\ sleep = "BASIC" /\ cnt = 0
  /\ phase = "run" /\ idle = 0

Run == \E h, scanned, lock, chord, ok \in BOOLEAN : Pass(h, scanned, lock, chord, ok)
Pm  == Suspend \/ WaitDeep \/ DeepSleep
Next == Run \/ Pm \/ Wake \/ BatteryChange

Spec == Init /\ [][Next]_vars
\* The processor keeps running; nothing is assumed of the user or the radio.
FairSpec == Spec /\ WF_vars(Run) /\ WF_vars(Pm)
-----------------------------------------------------------------------------
TypeOK ==
  /\ mode \in {"SYNCING", "PAIRING", "NORMAL", "WAIT_DEEP", "DEEP"}
  /\ {linked, locked, sending, held, radio, low} \subseteq BOOLEAN
  /\ age \in 0 .. NoQuick /\ noAck \in 0 .. NoLink /\ fresh \in 0 .. SilenceLoops
  /\ led.pat \in Pattern /\ led.left \in 0 .. Rep[led.pat] /\ led.lit \in BOOLEAN
  /\ led.clock \in 0 .. On[led.pat] + Off[led.pat]
  /\ detect \in 0 .. DetectMod - 1 /\ batt \in 0 .. CheckLoops
  /\ sleep \in {"BASIC", "LONG", "WAIT_DEEP"} /\ cnt \in 0 .. BasicLoops + LongLoops
  /\ phase \in {"run", "pm"} /\ idle \in Nat

\* Whatever pattern cuts off whatever other one, the LED is out when none is running.
LedDark == led.left = 0 => ~led.lit

\* The fast blinking means that the keyboard is being paired: it does not outlive the
\* pairing, whether that succeeds, times out or is overtaken by a battery warning.
BlinkMeansPairing == led.pat = "MANUAL" /\ led.left > 0 => mode = "PAIRING"

\* A keyboard that nobody uses and that gets no answers sleeps, although its LED keeps
\* it awake and a low battery makes the LED blink again and again: the voltage has to be
\* judged less often than the warning and the idling after it take.
Larger(a, b) == IF a < b THEN b ELSE a
AwakeLoops ==
  Larger(Larger(NoQuick + 1, NoLink), Length("OK") + Length("BAT_LOW") + 2 * BasicLoops + LongLoops)
UnusedSleeps == idle <= AwakeLoops

\* A keyboard in use with a low battery says so, as long as it is at rest now and then.
InUse == <>[](low /\ mode # "DEEP" /\ sleep = "BASIC") /\ []<>(phase = "pm" /\ ~held /\ ~radio)
LowBatteryTold == InUse => []<>(led.pat = "BAT_LOW" /\ led.left > 0)
=============================================================================
