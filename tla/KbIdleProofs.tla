---------------------------- MODULE KbIdleProofs ----------------------------
(***************************************************************************)
(* KbIdle for all patterns and thresholds: its types, what its LED shows,  *)
(* that an unused keyboard falls asleep, and how a battery warning comes.  *)
(***************************************************************************)
EXTENDS KbIdle, TLAPS

Lamp == [pat : Pattern, left : Nat, lit : BOOLEAN, clock : Nat]

\* A lamp as the driver leaves it: counters in range, dark when it is done.
LampOK(l) ==
  /\ l \in Lamp
  /\ l.left <= Rep[l.pat]
  /\ l.clock <= On[l.pat] + Off[l.pat]
  /\ l.left = 0 => ~l.lit

States ==
  /\ mode \in {"SYNCING", "PAIRING", "NORMAL", "WAIT_DEEP", "DEEP"}
  /\ linked \in BOOLEAN /\ locked \in BOOLEAN /\ sending \in BOOLEAN
  /\ held \in BOOLEAN /\ radio \in BOOLEAN /\ low \in BOOLEAN
  /\ phase \in {"run", "pm"}
Counters ==
  /\ age \in 0 .. NoQuick /\ noAck \in 0 .. NoLink /\ fresh \in 0 .. SilenceLoops
  /\ detect \in 0 .. DetectMod - 1 /\ batt \in 0 .. CheckLoops
  /\ idle \in Nat
Asleep ==
  /\ sleep \in {"BASIC", "LONG", "WAIT_DEEP"} /\ cnt \in 0 .. BasicLoops + LongLoops
  /\ sleep = "BASIC" => cnt < BasicLoops
  /\ sleep = "LONG" => cnt <= LongLoops
\* Pairing is over before quick sleep may end it.
Young == mode = "PAIRING" /\ phase = "pm" => age < NoQuick

IdleInv == States /\ Counters /\ LampOK(led) /\ Asleep /\ Young /\ BlinkMeansPairing
-----------------------------------------------------------------------------
(* The LED *)

LEMMA ConstantTypes ==
  /\ \A p \in Pattern : On[p] \in Nat /\ Prio[p] \in Nat
  /\ \A p \in Pattern : Off[p] \in Nat /\ Off[p] > 0 /\ Rep[p] \in Nat /\ Rep[p] > 0
  /\ Prio["END"] > Prio["MANUAL"] /\ Prio["OK"] > Prio["MANUAL"]
BY IdleAssumption DEF IdleAssumption, Pattern

LEMMA LedOffOK == LampOK(LedOff)
BY ConstantTypes DEF LedOff, LampOK, Lamp, Pattern

\* A pattern starts with all its repetitions.
LEMMA SetupOK ==
  ASSUME NEW l, LampOK(l), NEW p \in Pattern
  PROVE  LampOK(Setup(l, p))
<1>1. CASE ~GivesWay(l, p)
  BY <1>1 DEF Setup
<1>2. CASE GivesWay(l, p)
  <2>1. Setup(l, p) = [pat |-> p, left |-> Rep[p], lit |-> (On[p] > 0 \/ l.lit), clock |-> 0]
    BY <1>2 DEF Setup
  <2>2. l.lit \in BOOLEAN
    BY DEF LampOK, Lamp
  <2>3. Setup(l, p) \in Lamp
    BY <2>1, <2>2, ConstantTypes DEF Lamp
  <2>4. /\ Setup(l, p).pat = p /\ Setup(l, p).left = Rep[p] /\ Setup(l, p).clock = 0
    BY <2>1
  <2> QED
    BY <2>3, <2>4, ConstantTypes DEF LampOK
<1> QED
  BY <1>1, <1>2

\* One loop of the driver: a pattern keeps its name, and the last repetition ends dark.
LEMMA LedLoopOK ==
  ASSUME NEW l, LampOK(l)
  PROVE  /\ LampOK(LedLoop(l))
         /\ LedLoop(l).pat = l.pat
         /\ LedLoop(l).left <= l.left
<1>t. /\ l.pat \in Pattern /\ l.left \in Nat /\ l.lit \in BOOLEAN /\ l.clock \in Nat
      /\ l.left <= Rep[l.pat] /\ l.clock <= On[l.pat] + Off[l.pat]
      /\ On[l.pat] \in Nat /\ Off[l.pat] \in Nat /\ Off[l.pat] > 0 /\ Rep[l.pat] \in Nat
  BY ConstantTypes DEF LampOK, Lamp
<1>1. CASE l.left = 0
  <2>1. LedLoop(l) = l
    BY <1>1 DEF LedLoop
  <2> QED
    BY <2>1, <1>t
<1>2. CASE l.left # 0
  <2> DEFINE n == LedLoop(l)
  <2>0. n = [pat |-> l.pat, left |-> IF Ends(l) THEN l.left - 1 ELSE l.left,
             lit |-> Lights(l) \/ (l.lit /\ ~Ends(l)),
             clock |-> IF Ends(l) \/ Lights(l) THEN 0 ELSE l.clock + 1]
    BY <1>2 DEF LedLoop
  <2> HIDE DEF n
  <2>1. n.pat = l.pat /\ n.left = (IF Ends(l) THEN l.left - 1 ELSE l.left)
    BY <2>0
  <2>2. n.left \in Nat /\ n.left <= l.left /\ n.left <= Rep[l.pat]
    BY <1>2, <1>t, <2>1
  <2>3. n.clock = IF Ends(l) \/ Lights(l) THEN 0 ELSE l.clock + 1
    BY <2>0
  <2>4. n.clock \in Nat /\ n.clock <= On[l.pat] + Off[l.pat]
    BY <1>t, <2>3 DEF Ends, Lights
  <2>5. n.lit = (Lights(l) \/ (l.lit /\ ~Ends(l)))
    BY <2>0
  <2>6. n \in Lamp
    BY <2>0, <2>1, <2>2, <2>3, <2>4, <1>t, Zenon DEF Lamp
  <2>7. n.left = 0 => Ends(l)
    BY <1>2, <1>t, <2>1
  <2>8. Ends(l) => ~Lights(l)
    BY DEF Ends, Lights
  <2>9. n.left = 0 => ~n.lit
    BY <2>5, <2>7, <2>8
  <2> QED
    BY <2>1, <2>2, <2>4, <2>6, <2>9 DEF LampOK, n
<1> QED
  BY <1>1, <1>2

\* A battery warning starts no pairing pattern, and a loop of the driver none either.
LEMMA WarnedOK ==
  ASSUME NEW l, LampOK(l), NEW h, NEW tx
  PROVE  /\ LampOK(Warned(LedLoop(l), h, tx))
         /\ Warned(LedLoop(l), h, tx).pat = "MANUAL" /\ Warned(LedLoop(l), h, tx).left > 0
              => l.pat = "MANUAL" /\ l.left > 0
<1> DEFINE m == LedLoop(l)
<1>1. LampOK(m) /\ m.pat = l.pat /\ m.left <= l.left
  BY LedLoopOK
<1>2. m.left \in Nat /\ l.left \in Nat
  BY <1>1 DEF LampOK, Lamp
<1>3. LampOK(Setup(m, "BAT_LOW"))
  BY <1>1, SetupOK DEF Pattern
<1>4. Setup(m, "BAT_LOW") = m \/ Setup(m, "BAT_LOW").pat = "BAT_LOW"
  BY DEF Setup
<1> HIDE DEF m
<1>5. Warned(m, h, tx) = m \/ Warned(m, h, tx) = Setup(m, "BAT_LOW")
  BY DEF Warned
<1>6. LampOK(Warned(m, h, tx))
  BY <1>1, <1>3, <1>5
<1>7. Warned(m, h, tx).pat = "MANUAL" => Warned(m, h, tx) = m
  BY <1>4, <1>5
<1>8. Warned(m, h, tx).pat = "MANUAL" /\ Warned(m, h, tx).left > 0
        => l.pat = "MANUAL" /\ l.left > 0
  BY <1>1, <1>2, <1>7
<1> QED
  BY <1>6, <1>8 DEF m
-----------------------------------------------------------------------------
(* Pairing *)

LEMMA LedNowOK ==
  ASSUME IdleInv, NEW chord \in BOOLEAN
  PROVE  /\ LampOK(LedNow(chord))
         /\ LedNow(chord).pat = "MANUAL" /\ LedNow(chord).left > 0
              => ModeNow(chord) = "PAIRING"
<1>0. LampOK(led) /\ led.left \in Nat
  BY DEF IdleInv, LampOK, Lamp
<1>1. CASE Joins
  <2>1. ModeNow(chord) = "NORMAL"
    BY <1>1 DEF ModeNow, Joins, Expires, Starts
  <2>2. CASE mode = "PAIRING"
    <3>1. LedNow(chord) = Setup(led, "OK")
      BY <1>1, <2>2 DEF LedNow, Joins, Expires, Starts
    <3>2. LampOK(LedNow(chord))
      BY <1>0, <3>1, SetupOK DEF Pattern
    <3>3. CASE GivesWay(led, "OK")
      BY <3>1, <3>2, <3>3 DEF Setup
    <3>4. CASE ~GivesWay(led, "OK")
      <4>1. LedNow(chord) = led
        BY <3>1, <3>4 DEF Setup
      <4>2. led.pat # "MANUAL"
        BY <3>4, ConstantTypes, <1>0 DEF GivesWay, LampOK, Lamp
      <4> QED
        BY <3>2, <4>1, <4>2
    <3> QED
      BY <3>3, <3>4
  <2>3. CASE mode # "PAIRING"
    <3>1. LedNow(chord) = led
      BY <1>1, <2>3 DEF LedNow, Expires, Starts, Joins
    <3> QED
      BY <1>0, <2>3, <3>1 DEF IdleInv, BlinkMeansPairing
  <2> QED
    BY <2>2, <2>3
<1>2. CASE Expires
  <2>1. LedNow(chord) = Setup(led, "END")
    BY <1>2 DEF LedNow, Joins, Expires, Starts
  <2>2. LampOK(LedNow(chord))
    BY <1>0, <2>1, SetupOK DEF Pattern
  <2>3. CASE GivesWay(led, "END")
    BY <2>1, <2>2, <2>3 DEF Setup
  <2>4. CASE ~GivesWay(led, "END")
    <3>1. LedNow(chord) = led
      BY <2>1, <2>4 DEF Setup
    <3>2. led.pat # "MANUAL"
      BY <2>4, ConstantTypes, <1>0 DEF GivesWay, LampOK, Lamp
    <3> QED
      BY <2>2, <3>1, <3>2
  <2> QED
    BY <2>3, <2>4
<1>3. CASE Starts(chord)
  <2>1. LedNow(chord) = Setup(led, "MANUAL") /\ ModeNow(chord) = "PAIRING"
    BY <1>3 DEF LedNow, ModeNow, Joins, Expires, Starts
  <2> QED
    BY <1>0, <2>1, SetupOK DEF Pattern
<1>4. CASE ~Joins /\ ~Expires /\ ~Starts(chord)
  <2>1. LedNow(chord) = led /\ ModeNow(chord) = mode
    BY <1>4 DEF LedNow, ModeNow
  <2> QED
    BY <1>0, <2>1 DEF IdleInv, BlinkMeansPairing
<1> QED
  BY <1>1, <1>2, <1>3, <1>4
-----------------------------------------------------------------------------
(* The invariant *)

LEMMA IdleInit == Init => IdleInv
<1> SUFFICES ASSUME Init PROVE IdleInv
  OBVIOUS
<1>1. LampOK(led) /\ led.pat = "POWER_ON"
  BY LedOffOK, SetupOK DEF Init, Setup, GivesWay, LedOff, Pattern
<1>2. States /\ Young /\ BlinkMeansPairing
  BY <1>1 DEF Init, States, Young, BlinkMeansPairing
<1>3. Counters /\ Asleep
  BY IdleAssumption DEF Init, IdleAssumption, Counters, Asleep
<1> QED
  BY <1>1, <1>2, <1>3 DEF IdleInv

LEMMA PassKeeps ==
  ASSUME IdleInv, NEW h \in BOOLEAN, NEW scanned \in BOOLEAN, NEW lock \in BOOLEAN,
         NEW chord \in BOOLEAN, NEW ok \in BOOLEAN, Pass(h, scanned, lock, chord, ok)
  PROVE  IdleInv'
<1> DEFINE new == linked /\ (Joins \/ (scanned /\ locked = lock))
           tx == (sending \/ new \/ ~linked) /\ mode # "WAIT_DEEP"
<1>1. led' = Warned(LedLoop(LedNow(chord)), h, tx) /\ mode' = ModeNow(chord)
  BY DEF Pass
<1>2. LampOK(led)' /\ BlinkMeansPairing'
  BY <1>1, LedNowOK, WarnedOK DEF BlinkMeansPairing, LampOK
<1>3. States'
  <2>1. mode' \in {"SYNCING", "PAIRING", "NORMAL", "WAIT_DEEP", "DEEP"}
    BY <1>1 DEF ModeNow, IdleInv, States
  <2>2. sending' \in BOOLEAN /\ radio' \in BOOLEAN /\ linked' \in BOOLEAN
    BY DEF Pass, IdleInv, States
  <2>3. locked' \in BOOLEAN /\ held' \in BOOLEAN /\ low' \in BOOLEAN /\ phase' = "pm"
    BY DEF Pass, IdleInv, States
  <2> QED
    BY <2>1, <2>2, <2>3 DEF States
<1>4. Counters'
  <2>1. age' \in 0 .. NoQuick
    BY IdleAssumption DEF Pass, AgeNow, IdleInv, Counters, IdleAssumption
  <2>2. noAck' \in 0 .. NoLink
    <3>1. noAck' = IF ~tx THEN noAck ELSE IF ok THEN 0 ELSE Smaller(noAck + 1, NoLink)
      BY DEF Pass
    <3> HIDE DEF tx
    <3> QED
      BY <3>1, IdleAssumption DEF Smaller, IdleInv, Counters, IdleAssumption
  <2>3. fresh' \in 0 .. SilenceLoops
    <3>1. fresh' \in FreshAfter(chord, ok)
      BY DEF Pass
    <3>2. fresh \in 0 .. SilenceLoops /\ SilenceLoops \in Nat
      BY IdleAssumption DEF IdleInv, Counters, IdleAssumption
    <3> QED
      BY <3>1, <3>2 DEF FreshAfter
  <2>4. detect' \in 0 .. DetectMod - 1
    <3>1. Later \in 0 .. DetectMod - 1 /\ DetectMod > 0 /\ DetectMod \in Nat
      BY IdleAssumption DEF Later, IdleInv, Counters, IdleAssumption
    <3>2. detect' = 0 \/ detect' = Later
      BY DEF Pass, DetectAfter
    <3> QED
      BY <3>1, <3>2
  <2>5. batt' \in 0 .. CheckLoops
    <3>1. Waited \in 0 .. CheckLoops /\ CheckLoops \in Nat
      BY IdleAssumption DEF Waited, Smaller, IdleInv, Counters, IdleAssumption
    <3>2. batt' = 0 \/ batt' = Waited
      BY DEF Pass, BattAfter
    <3> QED
      BY <3>1, <3>2
  <2>6. idle' \in Nat
    BY DEF Pass, IdleInv, Counters
  <2> QED
    BY <2>1, <2>2, <2>3, <2>4, <2>5, <2>6 DEF Counters
<1>5. Asleep'
  BY DEF Pass, IdleInv, Asleep
<1>6. Young'
  <2>1. SUFFICES ASSUME mode' = "PAIRING" PROVE age' < NoQuick
    BY DEF Young
  <2>2. CASE Starts(chord)
    BY <2>2, IdleAssumption DEF Pass, AgeNow, IdleAssumption
  <2>3. CASE ~Starts(chord)
    <3>1. mode = "PAIRING" /\ ~Joins /\ ~Expires
      BY <1>1, <2>1, <2>3 DEF ModeNow
    <3>2. age < PairMost
      BY <3>1, IdleAssumption DEF Joins, Expires, Unlinked, IdleInv, Counters, States, IdleAssumption
    <3>3. age' = age
      BY <2>3 DEF Pass, AgeNow
    <3> QED
      BY <3>2, <3>3, IdleAssumption DEF IdleInv, Counters, IdleAssumption
  <2> QED
    BY <2>2, <2>3
<1> QED
  BY <1>2, <1>3, <1>4, <1>5, <1>6 DEF IdleInv

LEMMA FreshKeeps ==
  ASSUME Fresh
  PROVE  /\ Counters' /\ Asleep' /\ sending' \in BOOLEAN /\ held' \in BOOLEAN
         /\ radio' \in BOOLEAN /\ phase' = "run"
<1>1. /\ NoQuick \in Nat /\ NoLink \in Nat /\ NoLink > 0 /\ SilenceLoops \in Nat
      /\ DetectMod \in Nat /\ DetectMod > 0 /\ CheckLoops \in Nat
      /\ BasicLoops \in Nat /\ BasicLoops > 0 /\ LongLoops \in Nat
  BY IdleAssumption DEF IdleAssumption
<1>2. Counters'
  BY <1>1 DEF Fresh, Counters
<1>3. Asleep'
  BY <1>1 DEF Fresh, Asleep
<1> QED
  BY <1>2, <1>3 DEF Fresh

LEMMA SuspendKeeps == ASSUME IdleInv, Suspend PROVE IdleInv'
<1>1. States' /\ LampOK(led)' /\ Young' /\ BlinkMeansPairing'
  BY DEF Suspend, linkVars, lampVars, IdleInv, States, LampOK, Young, BlinkMeansPairing
<1>2. Counters'
  BY IdleAssumption
  DEF Suspend, linkVars, lampVars, IdleInv, Counters, Smaller, IdleAssumption
<1>3. Asleep'
  <2>1. sleep \in {"BASIC", "LONG", "WAIT_DEEP"} /\ cnt \in 0 .. BasicLoops + LongLoops
        /\ (sleep = "BASIC" => cnt < BasicLoops) /\ (sleep = "LONG" => cnt <= LongLoops)
        /\ BasicLoops \in Nat \ {0} /\ LongLoops \in Nat \ {0}
    BY IdleAssumption DEF IdleInv, Asleep, IdleAssumption
  <2>2. CASE Busy
    BY <2>1, <2>2 DEF Suspend, SleepStep, Asleep
  <2>3. CASE ~Busy
    <3>1. sleep = "LONG" => cnt + 1 <= LongLoops
      BY <2>1, <2>3 DEF Suspend, GoesDeep
    <3> QED
      BY <2>1, <2>3, <3>1 DEF Suspend, SleepStep, Asleep
  <2> QED
    BY <2>2, <2>3
<1> QED
  BY <1>1, <1>2, <1>3 DEF IdleInv

LEMMA WaitDeepKeeps == ASSUME IdleInv, WaitDeep PROVE IdleInv'
<1>1. ~(led.pat = "MANUAL" /\ led.left > 0)
  <2> SUFFICES ASSUME led.pat = "MANUAL", led.left > 0 PROVE FALSE
    OBVIOUS
  <2>1. mode = "PAIRING" /\ phase = "pm" /\ age < NoQuick
    BY DEF WaitDeep, IdleInv, BlinkMeansPairing, Young
  <2>2. Busy /\ ~Quick
    BY <2>1 DEF Busy, Quick, Unlinked
  <2> QED
    BY <2>2 DEF WaitDeep, GoesDeep
<1>2. States' /\ LampOK(led)' /\ Young'
  BY DEF WaitDeep, linkVars, lampVars, IdleInv, States, LampOK, Young
<1>3. BlinkMeansPairing'
  BY <1>1 DEF WaitDeep, lampVars, BlinkMeansPairing
<1>4. Counters' /\ Asleep'
  BY IdleAssumption
  DEF WaitDeep, linkVars, lampVars, IdleInv, Counters, Asleep, IdleAssumption
<1> QED
  BY <1>2, <1>3, <1>4 DEF IdleInv

LEMMA RestartKeeps ==
  ASSUME IdleInv, DeepSleep \/ Wake \/ BatteryChange
  PROVE  IdleInv'
<1>1. Fresh /\ low' \in BOOLEAN /\ linked' \in BOOLEAN /\ locked' \in BOOLEAN
      /\ mode' \in {"SYNCING", "NORMAL", "DEEP"}
  BY DEF DeepSleep, Wake, BatteryChange, IdleInv, States
<1>2. led' = LedOff \/ led' = Setup(LedOff, "POWER_ON")
  BY DEF DeepSleep, Wake, BatteryChange
<1>3. LampOK(led') /\ led'.pat = "POWER_ON"
  <2>1. LampOK(led')
    BY <1>2, LedOffOK, SetupOK DEF Pattern
  <2>2. LedOff.pat = "POWER_ON" /\ LedOff.left = 0
    BY DEF LedOff
  <2>3. Setup(LedOff, "POWER_ON").pat = "POWER_ON"
    BY <2>2 DEF Setup, GivesWay
  <2> QED
    BY <1>2, <2>1, <2>2, <2>3
<1>4. LampOK(led)' /\ BlinkMeansPairing'
  BY <1>3 DEF LampOK, BlinkMeansPairing
<1>5. Counters' /\ Asleep' /\ States' /\ Young'
  BY <1>1, FreshKeeps DEF States, Young
<1> QED
  BY <1>4, <1>5 DEF IdleInv

LEMMA IdleStep == IdleInv /\ [Next]_vars => IdleInv'
<1> SUFFICES ASSUME IdleInv, [Next]_vars PROVE IdleInv'
  OBVIOUS
<1>1. CASE Run
  BY <1>1, PassKeeps DEF Run
<1>2. CASE Suspend
  BY <1>2, SuspendKeeps
<1>3. CASE WaitDeep
  BY <1>3, WaitDeepKeeps
<1>4. CASE DeepSleep \/ Wake \/ BatteryChange
  BY <1>4, RestartKeeps
<1>5. CASE UNCHANGED vars
  BY <1>5 DEF vars, linkVars, lampVars, IdleInv, States, Counters, LampOK, Asleep, Young,
              BlinkMeansPairing
<1> QED
  BY <1>1, <1>2, <1>3, <1>4, <1>5 DEF Next, Pm

LEMMA IdleInvariant == Spec => []IdleInv
BY IdleInit, IdleStep, PTL DEF Spec
-----------------------------------------------------------------------------
\* The variables keep their types (kb_led.c, kb_batt.c, kb_pm.c) for every table of
\* patterns and every threshold.
THEOREM IdleTypeCorrect == Spec => []TypeOK
<1>1. IdleInv => TypeOK
  BY DEF IdleInv, States, Counters, LampOK, Lamp, Asleep, TypeOK
<1> QED
  BY <1>1, IdleInvariant, PTL

\* Whatever pattern replaces whatever other one (kb_device_led_setup), the LED is dark
\* when none is running.
THEOREM IdleLedDark == Spec => []LedDark
<1>1. IdleInv => LedDark
  BY DEF IdleInv, LampOK, LedDark
<1> QED
  BY <1>1, IdleInvariant, PTL

\* The fast blinking never outlives the pairing (kb_paring_and_syncing_proc).
THEOREM IdleBlinkMeansPairing == Spec => []BlinkMeansPairing
<1>1. IdleInv => BlinkMeansPairing
  BY DEF IdleInv
<1> QED
  BY <1>1, IdleInvariant, PTL
-----------------------------------------------------------------------------
(* How long the LED still runs *)

\* A running pattern changes before its time is up.
LampRuns(l) ==
  l.left > 0 => l.clock < IF l.lit /\ On[l.pat] > 0 THEN On[l.pat] ELSE Off[l.pat]

Period(p) == On[p] + Off[p]
Remaining(l) ==
  IF l.left = 0 THEN 0
  ELSE IF l.lit /\ On[l.pat] > 0 THEN (l.left - 1) * Period(l.pat) + On[l.pat] - l.clock
  ELSE l.left * Period(l.pat) - l.clock

\* Repetitions times a period, one at a time and at most.
LEMMA Repetitions ==
  ASSUME NEW n \in Nat, n > 0, NEW m \in Nat, n <= m, NEW t \in Nat
  PROVE  /\ (n - 1) * t \in Nat /\ n * t \in Nat /\ m * t \in Nat
         /\ n * t = (n - 1) * t + t
         /\ n * t <= m * t
<1>1. n - 1 \in Nat /\ m - n \in Nat
  OBVIOUS
<1>2. \A i, j \in Nat : i * j \in Nat
  OBVIOUS
<1>3. m * t = n * t + (m - n) * t
  OBVIOUS
<1>4. n * t = (n - 1) * t + t
  OBVIOUS
<1>5. (m - n) * t \in Nat /\ n * t \in Nat /\ (n - 1) * t \in Nat /\ m * t \in Nat
  BY <1>1, <1>2
<1> QED
  BY <1>3, <1>4, <1>5

LEMMA LengthTypes ==
  ASSUME NEW p \in Pattern
  PROVE  Length(p) \in Nat /\ (p # "MANUAL" => Length(p) <= Length("OK"))
<1>1. \A i, j \in Nat : i * j \in Nat
  OBVIOUS
<1>2. Rep[p] \in Nat /\ On[p] + Off[p] \in Nat
  BY ConstantTypes
<1>3. Length(p) \in Nat
  BY <1>1, <1>2 DEF Length
<1>4. p # "MANUAL" => Length(p) <= Length("OK")
  BY <1>3, LengthAssumption DEF LengthAssumption, Pattern
<1> QED
  BY <1>3, <1>4

\* Never more than the whole pattern, and something as long as it runs.
LEMMA RemainingBounds ==
  ASSUME NEW l, LampOK(l), LampRuns(l)
  PROVE  /\ Remaining(l) \in Nat
         /\ l.left > 0 => Remaining(l) > 0 /\ Remaining(l) <= Length(l.pat)
<1>t. /\ l.pat \in Pattern /\ l.left \in Nat /\ l.lit \in BOOLEAN /\ l.clock \in Nat
      /\ l.left <= Rep[l.pat] /\ On[l.pat] \in Nat /\ Off[l.pat] \in Nat /\ Off[l.pat] > 0
      /\ Rep[l.pat] \in Nat
  BY ConstantTypes DEF LampOK, Lamp
<1>1. CASE l.left = 0
  BY <1>1 DEF Remaining
<1>2. CASE l.left > 0
  <2>1. Period(l.pat) \in Nat /\ Period(l.pat) = On[l.pat] + Off[l.pat]
    BY <1>t DEF Period
  <2>2. /\ (l.left - 1) * Period(l.pat) \in Nat /\ l.left * Period(l.pat) \in Nat
        /\ l.left * Period(l.pat) = (l.left - 1) * Period(l.pat) + Period(l.pat)
        /\ l.left * Period(l.pat) <= Rep[l.pat] * Period(l.pat)
    BY <1>2, <1>t, <2>1, Repetitions
  <2>3. Length(l.pat) = Rep[l.pat] * Period(l.pat) /\ Length(l.pat) \in Nat
    BY <1>t, LengthTypes DEF Length, Period
  <2>4. CASE l.lit /\ On[l.pat] > 0
    <3>1. Remaining(l) = (l.left - 1) * Period(l.pat) + On[l.pat] - l.clock
      BY <1>2, <1>t, <2>4 DEF Remaining
    <3>2. l.clock < On[l.pat]
      BY <1>2, <2>4 DEF LampRuns
    <3> QED
      BY <1>t, <2>1, <2>2, <2>3, <3>1, <3>2
  <2>5. CASE ~(l.lit /\ On[l.pat] > 0)
    <3>1. Remaining(l) = l.left * Period(l.pat) - l.clock
      BY <1>2, <1>t, <2>5 DEF Remaining
    <3>2. l.clock < Off[l.pat]
      BY <1>2, <2>5 DEF LampRuns
    <3> QED
      BY <1>t, <2>1, <2>2, <2>3, <3>1, <3>2
  <2> QED
    BY <2>4, <2>5
<1> QED
  BY <1>1, <1>2, <1>t

\* Every loop of the driver uses up some of the time that remains.
LEMMA LedLoopRuns ==
  ASSUME NEW l, LampOK(l), LampRuns(l)
  PROVE  /\ LampRuns(LedLoop(l))
         /\ l.left > 0 => Remaining(LedLoop(l)) < Remaining(l)
<1>t. /\ l.pat \in Pattern /\ l.left \in Nat /\ l.lit \in BOOLEAN /\ l.clock \in Nat
      /\ On[l.pat] \in Nat /\ Off[l.pat] \in Nat /\ Off[l.pat] > 0
  BY ConstantTypes DEF LampOK, Lamp
<1>1. CASE l.left = 0
  BY <1>1 DEF LedLoop
<1>2. CASE l.left > 0
  <2> DEFINE n == LedLoop(l)
             P == On[l.pat] + Off[l.pat]
  <2>0. n = [pat |-> l.pat, left |-> IF Ends(l) THEN l.left - 1 ELSE l.left,
             lit |-> Lights(l) \/ (l.lit /\ ~Ends(l)),
             clock |-> IF Ends(l) \/ Lights(l) THEN 0 ELSE l.clock + 1]
    BY <1>2, <1>t DEF LedLoop
  <2>p. Period(l.pat) = P /\ P \in Nat
    BY <1>t DEF Period
  <2>m. /\ (l.left - 1) * P \in Nat /\ l.left * P = (l.left - 1) * P + P
        /\ l.left > 1 => /\ (l.left - 1) * P = (l.left - 1 - 1) * P + P
                         /\ (l.left - 1 - 1) * P \in Nat
    <3>1. (l.left - 1) * P \in Nat /\ l.left * P = (l.left - 1) * P + P
      BY <1>2, <1>t, <2>p, Repetitions
    <3>2. ASSUME l.left > 1
          PROVE  (l.left - 1) * P = (l.left - 1 - 1) * P + P /\ (l.left - 1 - 1) * P \in Nat
      <4>1. l.left - 1 \in Nat /\ l.left - 1 > 0
        BY <1>t, <3>2
      <4> QED
        BY <4>1, <2>p, Repetitions
    <3> QED
      BY <3>1, <3>2
  <2>n. /\ n.pat = l.pat /\ n.left = (IF Ends(l) THEN l.left - 1 ELSE l.left)
        /\ n.lit = (Lights(l) \/ (l.lit /\ ~Ends(l)))
        /\ n.clock = IF Ends(l) \/ Lights(l) THEN 0 ELSE l.clock + 1
    BY <2>0
  <2>r. Remaining(l) = IF l.lit /\ On[l.pat] > 0 THEN (l.left - 1) * P + On[l.pat] - l.clock
                       ELSE l.left * P - l.clock
    BY <1>2, <1>t, <2>p DEF Remaining
  <2>s. Remaining(n) = IF n.left = 0 THEN 0
                       ELSE IF n.lit /\ On[l.pat] > 0
                            THEN (n.left - 1) * P + On[l.pat] - n.clock
                            ELSE n.left * P - n.clock
    BY <2>n, <2>p DEF Remaining
  <2>b. Remaining(l) > 0 /\ Remaining(l) \in Nat
    BY <1>2, RemainingBounds
  <2>c. l.clock < IF l.lit /\ On[l.pat] > 0 THEN On[l.pat] ELSE Off[l.pat]
    BY <1>2 DEF LampRuns
  <2> HIDE DEF n, P
  <2>3. CASE Ends(l)  \* a repetition is over
    <3>0. ~Lights(l)
      BY <2>3 DEF Ends, Lights
    <3>1. n.left = l.left - 1 /\ n.lit = FALSE /\ n.clock = 0
      BY <2>3, <2>n, <3>0, Zenon
    <3>2. LampRuns(n)
      BY <1>t, <2>n, <3>1 DEF LampRuns
    <3>3. CASE l.left = 1
      BY <3>1, <3>2, <3>3, <2>s, <2>b DEF n
    <3>4. CASE l.left > 1
      <4>1. Remaining(n) = (l.left - 1) * P
        BY <3>1, <3>4, <2>s, <2>m, <1>t
      <4>2. CASE On[l.pat] > 0
        <5>1. l.lit
          BY <2>3, <4>2, <1>t DEF Ends
        <5>2. Remaining(n) < Remaining(l)
          BY <1>t, <2>c, <2>m, <2>r, <4>1, <4>2, <5>1
        <5> QED
          BY <3>2, <5>2 DEF n
      <4>3. CASE On[l.pat] = 0
        <5>1. Remaining(l) = l.left * P - l.clock /\ l.clock < Off[l.pat] /\ P = Off[l.pat]
          BY <1>t, <2>c, <2>r, <4>3 DEF P
        <5>2. Remaining(n) < Remaining(l)
          BY <1>t, <2>m, <4>1, <5>1
        <5> QED
          BY <3>2, <5>2 DEF n
      <4> QED
        BY <1>t, <4>2, <4>3
    <3> QED
      BY <1>t, <1>2, <3>3, <3>4
  <2>4. CASE Lights(l)  \* the LED comes on
    <3>1. ~Ends(l) /\ ~l.lit /\ On[l.pat] > 0 /\ l.clock + 1 >= Off[l.pat]
      BY <2>4, <1>t DEF Lights, Ends
    <3>2. n.left = l.left /\ n.lit = TRUE /\ n.clock = 0
      BY <2>4, <2>n, <3>1
    <3>3. LampRuns(n)
      BY <2>n, <3>1, <3>2 DEF LampRuns
    <3>4. Remaining(n) = (l.left - 1) * P + On[l.pat] /\ Remaining(l) = l.left * P - l.clock
      BY <1>2, <1>t, <2>m, <2>r, <2>s, <3>1, <3>2
    <3>5. l.clock < Off[l.pat] /\ P = On[l.pat] + Off[l.pat]
      BY <2>c, <3>1 DEF P
    <3>6. Remaining(n) < Remaining(l)
      BY <1>t, <2>m, <3>4, <3>5
    <3> QED
      BY <3>3, <3>6 DEF n
  <2>5. CASE ~Ends(l) /\ ~Lights(l)
    <3>1. n.left = l.left /\ n.lit = l.lit /\ n.clock = l.clock + 1
      BY <2>5, <2>n, <1>t
    <3>2. LampRuns(n)
      BY <1>t, <2>5, <2>n, <3>1 DEF LampRuns, Ends, Lights
    <3>3. Remaining(n) = Remaining(l) - 1
      <4>1. n.left # 0 /\ n.left * P = l.left * P /\ (n.left - 1) * P = (l.left - 1) * P
        BY <1>2, <1>t, <3>1
      <4>2. CASE l.lit /\ On[l.pat] > 0
        <5>1. Remaining(n) = (l.left - 1) * P + On[l.pat] - n.clock
          BY <2>s, <3>1, <4>1, <4>2
        <5>2. Remaining(l) = (l.left - 1) * P + On[l.pat] - l.clock
          BY <2>r, <4>2
        <5> QED
          BY <1>t, <2>m, <3>1, <5>1, <5>2
      <4>3. CASE ~(l.lit /\ On[l.pat] > 0)
        <5>1. Remaining(n) = l.left * P - n.clock
          BY <2>s, <3>1, <4>1, <4>3
        <5>2. Remaining(l) = l.left * P - l.clock
          BY <2>r, <4>3
        <5>3. QED
          <6>1. l.left * P \in Nat
            BY <2>m, <2>p
          <6>2. \A x, c \in Nat : x - (c + 1) = (x - c) - 1
            OBVIOUS
          <6> QED
            BY <1>t, <3>1, <5>1, <5>2, <6>1, <6>2
      <4> QED
        BY <4>2, <4>3
    <3>4. Remaining(n) < Remaining(l)
      BY <2>b, <3>3
    <3> QED
      BY <3>2, <3>4 DEF n
  <2> QED
    BY <2>3, <2>4, <2>5
<1> QED
  BY <1>1, <1>2, <1>t

LEMMA SetupRuns ==
  ASSUME NEW l, LampRuns(l), NEW p \in Pattern
  PROVE  LampRuns(Setup(l, p))
<1>1. CASE GivesWay(l, p)
  <2>1. Setup(l, p) = [pat |-> p, left |-> Rep[p], lit |-> (On[p] > 0 \/ l.lit), clock |-> 0]
    BY <1>1 DEF Setup
  <2>2. Setup(l, p).pat = p /\ Setup(l, p).clock = 0
    BY <2>1
  <2>3. On[p] \in Nat /\ Off[p] \in Nat /\ Off[p] > 0
    BY ConstantTypes
  <2> QED
    BY <2>2, <2>3 DEF LampRuns
<1>2. CASE ~GivesWay(l, p)
  BY <1>2 DEF Setup
<1> QED
  BY <1>1, <1>2
-----------------------------------------------------------------------------
(* How long an unused keyboard may still stay awake *)

\* Loops until the long suspend mode, as far as the LED l and the counter c tell at
\* the place ph of the loop.
UntilLong(l, c, ph) ==
  IF l.left > 0 THEN Remaining(l) + BasicLoops
  ELSE BasicLoops - c - (IF ph = "pm" THEN 1 ELSE 0)
\* A warning that may still start within u loops, and the idling after it.
Warning(u, b) == IF CheckLoops - b <= u THEN Length("BAT_LOW") + BasicLoops ELSE 0
\* Loops until deep sleep.
BudgetOf(l, c, ph, s, b) ==
  IF s = "LONG" /\ l.left = 0 THEN LongLoops - c + (IF ph = "run" THEN 1 ELSE 0)
  ELSE UntilLong(l, c, ph) + LongLoops + Warning(UntilLong(l, c, ph), b)
Budget == BudgetOf(led, cnt, phase, sleep, batt)
Rest == Length("OK") + Length("BAT_LOW") + 2 * BasicLoops + LongLoops

Modes ==
  /\ mode = "NORMAL" => linked
  /\ sleep = "WAIT_DEEP" <=> mode = "WAIT_DEEP"
  /\ mode = "WAIT_DEEP" => noAck = NoLink /\ idle <= 1 /\ (phase = "run" => idle = 0)
  /\ mode = "DEEP" => idle = 0
  /\ mode \in Unlinked /\ linked => idle = 0 /\ noAck = 0
  /\ phase = "pm" /\ idle > 0 => ~held
\* Until quick sleep may end it, a search is counted by noAck and age.
Searching ==
  mode \in Unlinked /\ ~linked =>
    /\ noAck < NoLink => idle <= noAck
    /\ age < NoQuick => idle <= age + (IF phase = "pm" THEN 1 ELSE 0)
    /\ phase = "run" => idle <= NoQuick \/ idle < NoLink
    /\ phase = "pm" => idle <= NoQuick + 1 \/ idle <= NoLink
Sending ==
  mode = "NORMAL" =>
    /\ phase = "run" => noAck < NoLink
    /\ sending => idle <= noAck
    /\ phase = "pm" /\ ~sending /\ idle > 0 => ~radio
\* The host status is stale before the long suspend mode...
Stale ==
  /\ phase = "run" /\ sleep = "BASIC" => fresh = 0 \/ fresh + cnt <= SilenceLoops
  /\ phase = "pm" /\ ~radio /\ sleep = "BASIC" => fresh = 0 \/ fresh + cnt + 1 <= SilenceLoops
  /\ sleep = "LONG" /\ ~(phase = "pm" /\ radio) => fresh = 0
\* ... so that a key held down in that mode makes a frame, or is the lock key.
Pressed == phase = "pm" /\ held /\ sleep = "LONG" => radio \/ locked
Blinking ==
  phase = "run" /\ led.left > 0 /\ mode # "WAIT_DEEP" => sleep = "BASIC" /\ cnt = 0
Resting == mode = "NORMAL" /\ ~sending => idle + Budget <= Rest

SleepInv ==
  /\ IdleInv
  /\ LampRuns(led) /\ Modes /\ Searching /\ Sending /\ Stale /\ Pressed /\ Blinking
  /\ Resting
-----------------------------------------------------------------------------
LEMMA Thresholds ==
  /\ BasicLoops \in Nat /\ BasicLoops > 0 /\ LongLoops \in Nat /\ LongLoops > 0
  /\ CheckLoops \in Nat /\ NoLink \in Nat /\ NoLink > 1 /\ NoQuick \in Nat
  /\ SilenceLoops \in Nat /\ SilenceLoops < BasicLoops
  /\ PairFrom \in Nat /\ PairFrom < NoQuick /\ PairMost \in Nat /\ PairMost <= NoQuick
  /\ Length("BAT_LOW") \in Nat /\ Length("OK") \in Nat
  /\ Length("BAT_LOW") + BasicLoops < CheckLoops
<1>1. Length("BAT_LOW") \in Nat /\ Length("OK") \in Nat
  BY LengthTypes DEF Pattern
<1> QED
  BY <1>1, IdleAssumption, LengthAssumption DEF IdleAssumption, LengthAssumption

LEMMA Ranges ==
  ASSUME IdleInv
  PROVE  /\ age \in Nat /\ age <= NoQuick /\ noAck \in Nat /\ noAck <= NoLink
         /\ fresh \in Nat /\ fresh <= SilenceLoops
         /\ batt \in Nat /\ batt <= CheckLoops /\ idle \in Nat /\ cnt \in Nat
         /\ led.left \in Nat /\ led.pat \in Pattern
BY Thresholds DEF IdleInv, Counters, Asleep, LampOK, Lamp

\* A keyboard whose LED does not mean pairing falls asleep within Rest loops.
LEMMA BudgetBounds ==
  ASSUME NEW l, LampOK(l), LampRuns(l), ~(l.pat = "MANUAL" /\ l.left > 0),
         NEW c \in Nat, NEW ph, NEW s, NEW b \in Nat,
         (s = "BASIC" /\ c < BasicLoops) \/ (s = "LONG" /\ c <= LongLoops)
  PROVE  BudgetOf(l, c, ph, s, b) \in Nat /\ BudgetOf(l, c, ph, s, b) <= Rest
<1>0. l.left \in Nat /\ l.pat \in Pattern
  BY DEF LampOK, Lamp
<1>1. Remaining(l) \in Nat /\ (l.left > 0 => Remaining(l) <= Length("OK"))
  <2>1. Remaining(l) \in Nat /\ (l.left > 0 => Remaining(l) <= Length(l.pat))
    BY RemainingBounds
  <2>2. Length(l.pat) \in Nat /\ (l.pat # "MANUAL" => Length(l.pat) <= Length("OK"))
    BY LengthTypes, <1>0
  <2> QED
    BY <2>1, <2>2, Thresholds
<1>2. CASE s = "LONG" /\ l.left = 0
  <2>1. BudgetOf(l, c, ph, s, b) = LongLoops - c + (IF ph = "run" THEN 1 ELSE 0)
    BY <1>2 DEF BudgetOf
  <2>2. BudgetOf(l, c, ph, s, b) \in Nat /\ BudgetOf(l, c, ph, s, b) <= LongLoops + 1
    BY <1>2, <2>1, Thresholds
  <2> QED
    BY <2>2, Thresholds DEF Rest
<1>3. CASE ~(s = "LONG" /\ l.left = 0)
  <2> DEFINE u == UntilLong(l, c, ph)
             w == Warning(u, b)
  <2>1. u \in Nat /\ u <= Length("OK") + BasicLoops
    <3>1. CASE l.left > 0
      BY <1>1, <3>1, Thresholds DEF UntilLong
    <3>2. CASE l.left = 0
      <4>1. c < BasicLoops
        BY <1>3, <3>2
      <4>2. u = BasicLoops - c - (IF ph = "pm" THEN 1 ELSE 0)
        BY <3>2 DEF UntilLong
      <4> QED
        BY <4>1, <4>2, Thresholds
    <3> QED
      BY <1>0, <3>1, <3>2
  <2>2. w \in Nat /\ w <= Length("BAT_LOW") + BasicLoops
    BY Thresholds DEF Warning
  <2>3. BudgetOf(l, c, ph, s, b) = u + LongLoops + w
    BY <1>3 DEF BudgetOf
  <2> HIDE DEF u, w
  <2> QED
    BY <2>1, <2>2, <2>3, Thresholds DEF Rest
<1> QED
  BY <1>2, <1>3

\* A loop nobody uses the keyboard in, before kb_pm_proc, spends one loop of the budget:
\* the LED comes nearer to its end, or the idling does, and a warning is paid for.
LEMMA LoopSpends ==
  ASSUME NEW l, LampOK(l), LampRuns(l), NEW c \in Nat, c < BasicLoops,
         NEW b \in Nat, b <= CheckLoops, NEW n, NEW b2 \in Nat, b2 <= CheckLoops,
         l.left > 0 => c = 0,
         \/ n = LedLoop(l) /\ (b2 = Smaller(b + 1, CheckLoops) \/ b + 1 >= CheckLoops)
         \/ n = Setup(LedLoop(l), "BAT_LOW") /\ b + 1 >= CheckLoops /\ b2 = 0
  PROVE  BudgetOf(n, c, "pm", "BASIC", b2) + 1 <= BudgetOf(l, c, "run", "BASIC", b)
<1> DEFINE m == LedLoop(l)
           u == UntilLong(l, c, "run")
           v == UntilLong(n, c, "pm")
           W == Length("BAT_LOW") + BasicLoops
<1>0. /\ l.left \in Nat /\ l.pat \in Pattern /\ Remaining(l) \in Nat
      /\ LampOK(m) /\ LampRuns(m) /\ m.left \in Nat /\ m.left <= l.left
      /\ Remaining(m) \in Nat /\ (l.left > 0 => Remaining(m) < Remaining(l))
  <2>1. LampOK(m) /\ LampRuns(m) /\ m.left <= l.left
    BY LedLoopOK, LedLoopRuns
  <2>2. Remaining(m) \in Nat
    BY <2>1, RemainingBounds
  <2> HIDE DEF m
  <2>3. l.left \in Nat /\ l.pat \in Pattern /\ m.left \in Nat
    BY <2>1 DEF LampOK, Lamp
  <2>4. Remaining(l) \in Nat
    BY RemainingBounds
  <2>5. l.left > 0 => Remaining(m) < Remaining(l)
    BY LedLoopRuns DEF m
  <2> QED
    BY <2>1, <2>2, <2>3, <2>4, <2>5
<1>1. u \in Nat /\ u > 0
  BY <1>0, Thresholds DEF UntilLong
<1>2. W \in Nat /\ W < CheckLoops /\ CheckLoops \in Nat /\ LongLoops \in Nat
  BY Thresholds
<1>3. BudgetOf(l, c, "run", "BASIC", b) = u + LongLoops + (IF CheckLoops - b <= u THEN W ELSE 0)
  BY DEF BudgetOf, Warning
<1>4. BudgetOf(n, c, "pm", "BASIC", b2) = v + LongLoops + (IF CheckLoops - b2 <= v THEN W ELSE 0)
  BY DEF BudgetOf, Warning
<1>5. n = m => v \in Int /\ v + 1 <= u
  <2> SUFFICES ASSUME n = m PROVE v \in Int /\ v + 1 <= u
    OBVIOUS
  <2> HIDE DEF m
  <2>1. CASE m.left > 0
    BY <1>0, <2>1, Thresholds DEF UntilLong
  <2>2. CASE m.left = 0
    BY <1>0, <2>2, Thresholds DEF UntilLong
  <2> QED
    BY <1>0, <2>1, <2>2
<1>6. CASE n = m /\ b2 = Smaller(b + 1, CheckLoops)
  <2>1. CheckLoops - b2 <= v => CheckLoops - b <= u
    BY <1>1, <1>2, <1>5, <1>6 DEF Smaller
  <2> HIDE DEF u, v, W, m
  <2> QED
    BY <1>1, <1>2, <1>3, <1>4, <1>5, <1>6, <2>1
<1>7. CASE n = m /\ b + 1 >= CheckLoops
  <2>1. CheckLoops - b <= u
    BY <1>1, <1>2, <1>7
  <2> HIDE DEF u, v, W, m
  <2> QED
    BY <1>1, <1>2, <1>3, <1>4, <1>5, <1>7, <2>1
<1>8. CASE n = Setup(m, "BAT_LOW") /\ b + 1 >= CheckLoops /\ b2 = 0
  <2>1. CheckLoops - b <= u
    BY <1>1, <1>2, <1>8
  <2>2. CASE n = m
    BY <1>7, <1>8, <2>2
  <2>3. CASE n # m
    <3>1. GivesWay(m, "BAT_LOW")
      BY <1>8, <2>3 DEF Setup
    <3>2. n.left = Rep["BAT_LOW"] /\ n.pat = "BAT_LOW" /\ n.left > 0
      <4>1. n.left = Rep["BAT_LOW"] /\ n.pat = "BAT_LOW"
        BY <1>8, <3>1 DEF Setup
      <4> QED
        BY <4>1, ConstantTypes DEF Pattern
    <3>3. LampOK(n) /\ LampRuns(n)
      BY <1>0, <1>8, SetupOK, SetupRuns DEF Pattern
    <3>4. Remaining(n) \in Nat /\ Remaining(n) <= Length("BAT_LOW")
      BY <3>2, <3>3, RemainingBounds
    <3>5. v = Remaining(n) + BasicLoops
      BY <3>2 DEF UntilLong
    <3>6. v \in Nat /\ v <= W
      BY <3>4, <3>5, Thresholds
    <3>7. ~(CheckLoops - b2 <= v)
      BY <1>2, <1>8, <3>6
    <3> HIDE DEF u, v, W, m
    <3> QED
      BY <1>1, <1>2, <1>3, <1>4, <2>1, <3>6, <3>7
  <2> QED
    BY <2>2, <2>3
<1> QED
  BY <1>6, <1>7, <1>8
-----------------------------------------------------------------------------
(* A pass of the loop *)

LEMMA ModeNowFacts ==
  ASSUME States, NEW chord \in BOOLEAN
  PROVE  /\ ModeNow(chord) = "NORMAL" <=> mode = "NORMAL" \/ Joins
         /\ ModeNow(chord) \in Unlinked => mode \in Unlinked /\ ~linked
         /\ ModeNow(chord) = "WAIT_DEEP" <=> mode = "WAIT_DEEP"
         /\ ModeNow(chord) = "DEEP" <=> mode = "DEEP"
         /\ mode = "NORMAL" => LedNow(chord) = led
<1>1. CASE Joins
  BY <1>1 DEF States, ModeNow, Joins, Expires, Starts, Unlinked
<1>2. CASE Expires
  BY <1>2 DEF States, ModeNow, Joins, Expires, Unlinked
<1>3. CASE Starts(chord)
  BY <1>3 DEF States, ModeNow, Joins, Expires, Starts, Unlinked
<1>4. CASE ~Joins /\ ~Expires /\ ~Starts(chord)
  BY <1>4 DEF States, ModeNow, LedNow, Joins, Unlinked
<1> QED
  BY <1>1, <1>2, <1>3, <1>4

LEMMA LedNowRuns ==
  ASSUME LampRuns(led), NEW chord
  PROVE  LampRuns(LedNow(chord))
<1>1. LedNow(chord) \in {led, Setup(led, "OK"), Setup(led, "END"), Setup(led, "MANUAL")}
  BY DEF LedNow
<1> QED
  BY <1>1, SetupRuns DEF Pattern

LEMMA WarnedRuns ==
  ASSUME NEW l, LampOK(l), LampRuns(l), NEW h, NEW tx
  PROVE  LampRuns(Warned(LedLoop(l), h, tx))
<1>1. LampRuns(LedLoop(l))
  BY LedLoopRuns
<1>2. LampRuns(Setup(LedLoop(l), "BAT_LOW"))
  BY <1>1, SetupRuns DEF Pattern
<1> QED
  BY <1>1, <1>2 DEF Warned

\* One pass: whether a frame is sent, and what that does to the counters.
LEMMA PassCounts ==
  ASSUME SleepInv, NEW h \in BOOLEAN, NEW scanned \in BOOLEAN, NEW lock \in BOOLEAN,
         NEW chord \in BOOLEAN, NEW ok \in BOOLEAN, Pass(h, scanned, lock, chord, ok)
  PROVE  /\ idle' = (IF h \/ ok THEN 0 ELSE idle + 1) /\ (h \/ ok => idle' = 0)
         /\ linked' = (linked \/ ok) /\ (ok => radio' /\ ~sending' /\ noAck' = 0)
         /\ (radio' /\ ~ok => noAck' = Smaller(noAck + 1, NoLink))
         /\ (~radio' => noAck' = noAck)
         /\ mode = "WAIT_DEEP" => ~radio'
         /\ mode \in Unlinked => radio'
         /\ mode \in Unlinked /\ linked => (sending' \/ ok)
         /\ mode = "NORMAL" /\ ~radio' => ~sending
         /\ mode = "NORMAL" /\ sending' => sending \/ h
         /\ mode = "NORMAL" /\ radio' => sending' \/ ok
<1> DEFINE new == linked /\ (Joins \/ (scanned /\ locked = lock))
           tx == (sending \/ new \/ ~linked) /\ mode # "WAIT_DEEP"
<1>1. /\ radio' = tx /\ sending' = ((sending \/ new) /\ ~ok) /\ (ok => tx)
      /\ linked' = (linked \/ ok) /\ idle' = (IF h \/ ok THEN 0 ELSE idle + 1)
      /\ noAck' = (IF ~tx THEN noAck ELSE IF ok THEN 0 ELSE Smaller(noAck + 1, NoLink))
      /\ (scanned => h)
  BY DEF Pass
<1>2. mode = "NORMAL" => linked
  BY DEF SleepInv, Modes
<1>3. sending \in BOOLEAN /\ linked \in BOOLEAN
  BY DEF SleepInv, IdleInv, States
<1>4. mode \in Unlinked => mode # "WAIT_DEEP" /\ mode # "NORMAL" /\ (Joins <=> linked)
  BY DEF Unlinked, Joins
<1>5. mode = "NORMAL" => ~Joins
  BY DEF Joins, Unlinked
<1>6. mode \in Unlinked => tx
  BY <1>3, <1>4, Zenon
<1>7. mode \in Unlinked /\ linked => (sending' \/ ok)
  BY <1>1, <1>3, <1>4, Zenon
<1>8. mode = "NORMAL" => tx = (sending \/ new)
  BY <1>2, <1>3, Zenon
<1>9. mode = "NORMAL" /\ new => h
  BY <1>1, <1>5, Zenon
<1> HIDE DEF tx, new
<1>10. mode = "NORMAL" => /\ ~radio' => ~sending
                          /\ sending' => sending \/ h
                          /\ radio' => sending' \/ ok
  BY <1>1, <1>8, <1>9, Zenon
<1>11. mode = "WAIT_DEEP" => ~tx
  BY DEF tx
<1>12. ok => tx /\ ~sending' /\ noAck' = 0
  BY <1>1
<1> QED
  BY <1>1, <1>6, <1>7, <1>10, <1>11, <1>12

LEMMA PassSleeps ==
  ASSUME SleepInv, NEW h \in BOOLEAN, NEW scanned \in BOOLEAN, NEW lock \in BOOLEAN,
         NEW chord \in BOOLEAN, NEW ok \in BOOLEAN, Pass(h, scanned, lock, chord, ok)
  PROVE  SleepInv'
<1>i. IdleInv /\ States
  BY DEF SleepInv, IdleInv
<1>1. IdleInv'
  BY <1>i, PassKeeps
<1>r. /\ age \in Nat /\ age <= NoQuick /\ noAck \in Nat /\ noAck <= NoLink
      /\ fresh \in Nat /\ fresh <= SilenceLoops
      /\ batt \in Nat /\ batt <= CheckLoops /\ idle \in Nat /\ cnt \in Nat
  BY <1>i, Ranges
<1>b. /\ sending' \in BOOLEAN /\ radio' \in BOOLEAN /\ linked' \in BOOLEAN
      /\ linked \in BOOLEAN /\ sending \in BOOLEAN /\ idle' \in Nat /\ batt' \in Nat
      /\ batt' <= CheckLoops /\ fresh' \in Nat /\ fresh' <= SilenceLoops /\ LampOK(led')
  BY <1>1, <1>i, Thresholds DEF IdleInv, States, Counters, LampOK
<1>c. /\ idle' = (IF h \/ ok THEN 0 ELSE idle + 1) /\ (h \/ ok => idle' = 0)
      /\ linked' = (linked \/ ok) /\ (ok => radio' /\ ~sending' /\ noAck' = 0)
      /\ (radio' /\ ~ok => noAck' = Smaller(noAck + 1, NoLink))
      /\ (~radio' => noAck' = noAck)
      /\ mode = "WAIT_DEEP" => ~radio'
      /\ mode \in Unlinked => radio'
      /\ mode \in Unlinked /\ linked => (sending' \/ ok)
      /\ mode = "NORMAL" /\ ~radio' => ~sending
      /\ mode = "NORMAL" /\ sending' => sending \/ h
      /\ mode = "NORMAL" /\ radio' => sending' \/ ok
  BY PassCounts
<1>m. /\ mode' = "NORMAL" <=> mode = "NORMAL" \/ Joins
      /\ mode' \in Unlinked => mode \in Unlinked /\ ~linked
      /\ mode' = "WAIT_DEEP" <=> mode = "WAIT_DEEP"
      /\ mode' # "DEEP"
      /\ Joins => mode \in Unlinked /\ linked
  BY <1>i, ModeNowFacts DEF Pass, Joins
<1>p. phase = "run" /\ phase' = "pm" /\ sleep' = sleep /\ cnt' = cnt /\ held' = h
  BY DEF Pass
<1>2. LampRuns(led)'
  <2>1. led' = Warned(LedLoop(LedNow(chord)), h,
               (sending \/ (linked /\ (Joins \/ (scanned /\ locked = lock))) \/ ~linked)
               /\ mode # "WAIT_DEEP")
    BY DEF Pass
  <2>2. LampOK(LedNow(chord)) /\ LampRuns(LedNow(chord))
    BY <1>i, LedNowOK, LedNowRuns DEF SleepInv
  <2>3. LampRuns(led')
    BY <2>1, <2>2, WarnedRuns
  <2> QED
    BY <2>3 DEF LampRuns
<1>3. Modes'
  <2>1. mode' = "NORMAL" => linked'
    BY <1>m, <1>c DEF SleepInv, Modes
  <2>2. sleep' = "WAIT_DEEP" <=> mode' = "WAIT_DEEP"
    BY <1>m, <1>p DEF SleepInv, Modes
  <2>3. mode' = "WAIT_DEEP" => noAck' = NoLink /\ idle' <= 1
    <3>1. SUFFICES ASSUME mode' = "WAIT_DEEP" PROVE noAck' = NoLink /\ idle' <= 1
      OBVIOUS
    <3>2. mode = "WAIT_DEEP" /\ noAck = NoLink /\ idle = 0
      BY <1>m, <1>p, <3>1 DEF SleepInv, Modes
    <3> QED
      BY <1>c, <3>2
  <2>4. mode' \in Unlinked /\ linked' => idle' = 0 /\ noAck' = 0
    BY <1>m, <1>c
  <2>5. idle' > 0 => ~held'
    BY <1>c, <1>p
  <2> QED
    BY <2>1, <2>2, <2>3, <2>4, <2>5, <1>p, <1>m DEF Modes
<1>4. Searching'
  <2>1. SUFFICES ASSUME mode' \in Unlinked, ~linked'
                 PROVE  /\ noAck' < NoLink => idle' <= noAck'
                        /\ age' < NoQuick => idle' <= age' + 1
                        /\ idle' <= NoQuick + 1 \/ idle' <= NoLink
    BY <1>p DEF Searching
  <2>2. mode \in Unlinked /\ ~linked /\ ~ok /\ radio'
    BY <1>m, <1>c, <2>1
  <2>3. /\ noAck < NoLink => idle <= noAck
        /\ age < NoQuick => idle <= age
        /\ idle <= NoQuick \/ idle < NoLink
    BY <1>p, <1>r, <2>2, Thresholds DEF SleepInv, Searching
  <2>4. noAck' = Smaller(noAck + 1, NoLink) /\ idle' <= idle + 1
    BY <1>c, <1>r, <2>2
  <2>5. noAck' < NoLink => idle' <= noAck'
    BY <1>b, <1>r, <2>3, <2>4, Thresholds DEF Smaller
  <2>6. age' < NoQuick => idle' <= age' + 1
    <3>1. CASE Starts(chord)
      <4>1. h
        BY <3>1 DEF Starts, Pass
      <4>2. age' = PairFrom
        BY <3>1 DEF Pass, AgeNow
      <4> QED
        BY <1>c, <4>1, <4>2, Thresholds
    <3>2. CASE ~Starts(chord)
      <4>1. age' = age
        BY <3>2 DEF Pass, AgeNow
      <4> QED
        BY <1>b, <1>r, <2>3, <2>4, <4>1, Thresholds
    <3> QED
      BY <3>1, <3>2
  <2>7. idle' <= NoQuick + 1 \/ idle' <= NoLink
    BY <1>b, <1>r, <2>3, <2>4, Thresholds
  <2> QED
    BY <2>5, <2>6, <2>7
<1>5. Sending'
  <2>1. SUFFICES ASSUME mode' = "NORMAL"
                 PROVE  /\ sending' => idle' <= noAck'
                        /\ ~sending' /\ idle' > 0 => ~radio'
    BY <1>p DEF Sending
  <2>2. CASE Joins
    <3>1. idle = 0 /\ noAck = 0 /\ radio' /\ (sending' \/ ok)
      BY <1>m, <1>c, <2>2 DEF SleepInv, Modes
    <3>2. CASE ok
      BY <1>c, <3>2
    <3>3. CASE ~ok
      <4>1. noAck' = Smaller(0 + 1, NoLink) /\ idle' <= 1 /\ sending'
        BY <1>c, <3>1, <3>3
      <4>2. noAck' = 1
        BY <4>1, Thresholds DEF Smaller
      <4> QED
        BY <4>1, <4>2
    <3> QED
      BY <3>2, <3>3
  <2>3. CASE mode = "NORMAL"
    <3>1. noAck < NoLink /\ (sending => idle <= noAck)
      BY <1>p, <2>3 DEF SleepInv, Sending
    <3>2. sending' => idle' <= noAck'
      <4>1. SUFFICES ASSUME sending', ~h, ~ok PROVE idle' <= noAck'
        <5>1. h \/ ok => idle' = 0
          BY <1>c
        <5>2. noAck' \in Nat
          BY <1>1, Thresholds DEF IdleInv, Counters
        <5> QED
          BY <5>1, <5>2
      <4>2. sending /\ idle' = idle + 1
        BY <1>c, <2>3, <4>1
      <4>3. CASE radio'
        BY <1>c, <1>r, <3>1, <4>1, <4>2, <4>3, Thresholds DEF Smaller
      <4>4. CASE ~radio'
        BY <1>c, <2>3, <4>2, <4>4
      <4> QED
        BY <4>3, <4>4
    <3>3. ~sending' /\ idle' > 0 => ~radio'
      BY <1>c, <2>3
    <3> QED
      BY <3>2, <3>3
  <2> QED
    BY <1>m, <2>1, <2>2, <2>3
<1>6. Stale'
  <2>1. ~radio' => fresh' = (IF fresh > 0 THEN fresh - 1 ELSE 0)
    <3>1. ~radio' => ~ok
      BY <1>c
    <3> QED
      BY <3>1 DEF Pass, FreshAfter
  <2>2. sleep = "BASIC" => fresh = 0 \/ fresh + cnt <= SilenceLoops
    BY <1>p DEF SleepInv, Stale
  <2>3. sleep = "LONG" => fresh = 0
    BY <1>p DEF SleepInv, Stale
  <2>4. ~radio' /\ sleep = "BASIC" => fresh' = 0 \/ fresh' + cnt + 1 <= SilenceLoops
    BY <1>r, <2>1, <2>2, Thresholds
  <2>5. ~radio' /\ sleep = "LONG" => fresh' = 0
    BY <2>1, <2>3
  <2> QED
    BY <1>p, <2>4, <2>5 DEF Stale
<1>7. Pressed'
  <2>1. SUFFICES ASSUME h, sleep = "LONG", ~radio' PROVE locked'
    BY <1>p DEF Pressed
  <2>2. fresh = 0
    BY <1>p, <2>1 DEF SleepInv, Stale
  <2>3. mode = "NORMAL" /\ linked /\ mode # "WAIT_DEEP"
    BY <1>c, <1>i, <2>1 DEF SleepInv, Modes, States, Unlinked, Pass
  <2>4. ~locked => scanned
    BY <2>1, <2>2, <2>3, Zenon DEF Pass, Forced
  <2>5. ~(scanned /\ locked = lock) /\ locked' = (locked # lock) /\ (lock => scanned)
    BY <2>1, <2>3, Zenon DEF Pass
  <2>6. locked \in BOOLEAN
    BY <1>i DEF States
  <2> QED
    BY <2>4, <2>5, <2>6
<1>8. Blinking'
  BY <1>p DEF Blinking
<1>9. Resting'
  <2>1. SUFFICES ASSUME mode' = "NORMAL", ~sending' PROVE idle' + Budget' <= Rest
    BY DEF Resting
  <2>2. Budget' = BudgetOf(led', cnt, "pm", sleep, batt')
    BY <1>p DEF Budget, BudgetOf, UntilLong, Warning, Remaining, Period, Length
  <2>3. (sleep = "BASIC" /\ cnt < BasicLoops) \/ (sleep = "LONG" /\ cnt <= LongLoops)
    BY <1>i, <1>m, <2>1 DEF SleepInv, Modes, IdleInv, Asleep, Joins, Unlinked
  <2>4. CASE h \/ ok
    <3>1. ~(led'.pat = "MANUAL" /\ led'.left > 0)
      BY <1>1, <2>1 DEF IdleInv, BlinkMeansPairing
    <3>2. LampRuns(led')
      BY <1>2 DEF LampRuns
    <3>3. Budget' \in Nat /\ Budget' <= Rest
      BY <1>b, <1>r, <2>2, <2>3, <3>1, <3>2, BudgetBounds
    <3> QED
      BY <1>c, <2>4, <3>3
  <2>5. CASE ~h /\ ~ok
    <3>1. mode = "NORMAL" /\ ~radio' /\ ~sending
      <4>1. ~Joins
        BY <1>c, <1>m, <2>1, <2>5
      <4> QED
        BY <4>1, <1>c, <1>m, <1>b, <2>1, <2>5
    <3>2. idle' = idle + 1 /\ idle + Budget <= Rest
      BY <1>c, <2>5, <3>1 DEF SleepInv, Resting
    <3>3. Budget = BudgetOf(led, cnt, "run", sleep, batt)
      BY <1>p DEF Budget
    <3>4. LampOK(led) /\ LampRuns(led) /\ led.left \in Nat
      BY <1>i, Ranges DEF SleepInv, IdleInv
    <3>5. led.left > 0 => sleep = "BASIC" /\ cnt = 0
      BY <1>p, <3>1 DEF SleepInv, Blinking
    <3>6. \E tx \in BOOLEAN : led' = Warned(LedLoop(led), h, tx) /\ batt' = BattAfter(h, tx)
      <4>1. LedNow(chord) = led
        BY <1>i, <3>1, ModeNowFacts
      <4> DEFINE tx == /\ sending \/ (linked /\ (Joins \/ (scanned /\ locked = lock))) \/ ~linked
                       /\ mode # "WAIT_DEEP"
      <4>2. led' = Warned(LedLoop(led), h, tx) /\ batt' = BattAfter(h, tx) /\ tx \in BOOLEAN
        BY <1>i, <4>1 DEF Pass
      <4> QED
        BY <4>2
    <3>7. PICK tx \in BOOLEAN : led' = Warned(LedLoop(led), h, tx) /\ batt' = BattAfter(h, tx)
      BY <3>6
    <3>8. CASE sleep = "LONG"
      <4>1. led.left = 0
        BY <3>4, <3>5, <3>8
      <4>2. led' = led
        BY <3>7, <3>8, <4>1 DEF Warned, Judges, Measures, LedLoop
      <4>3. Budget = LongLoops - cnt + 1 /\ Budget' = LongLoops - cnt
        BY <2>2, <3>3, <3>8, <4>1, <4>2, Thresholds, <1>r DEF BudgetOf
      <4>4. Budget' + 1 = Budget /\ Budget' \in Int
        BY <4>3, Thresholds, <1>r
      <4> QED
        BY <3>2, <4>4, <1>r, Thresholds DEF Rest
    <3>9. CASE sleep = "BASIC"
      <4>1. \/ led' = LedLoop(led)
               /\ (batt' = Smaller(batt + 1, CheckLoops) \/ batt + 1 >= CheckLoops)
            \/ led' = Setup(LedLoop(led), "BAT_LOW") /\ batt + 1 >= CheckLoops /\ batt' = 0
        BY <1>r, <3>7, Thresholds DEF Warned, BattAfter, Judges, Waited, Smaller
      <4>2. BudgetOf(led', cnt, "pm", "BASIC", batt') + 1
              <= BudgetOf(led, cnt, "run", "BASIC", batt)
        BY <1>b, <1>r, <2>3, <3>4, <3>5, <3>9, <4>1, LoopSpends
      <4>3. BudgetOf(led', cnt, "pm", "BASIC", batt') \in Int
        <5>1. LampRuns(led')
          BY <1>2 DEF LampRuns
        <5>2. ~(led'.pat = "MANUAL" /\ led'.left > 0)
          BY <1>1, <2>1 DEF IdleInv, BlinkMeansPairing
        <5>3. cnt < BasicLoops
          BY <2>3, <3>9
        <5> QED
          BY <1>b, <1>r, <5>1, <5>2, <5>3, BudgetBounds
      <4>4. BudgetOf(led, cnt, "run", "BASIC", batt) \in Int
        <5>1. ~(led.pat = "MANUAL" /\ led.left > 0)
          BY <1>i, <3>1 DEF IdleInv, BlinkMeansPairing
        <5>2. cnt < BasicLoops
          BY <2>3, <3>9
        <5> QED
          BY <1>r, <3>4, <5>1, <5>2, BudgetBounds
      <4>5. Budget' + 1 <= Budget /\ Budget' \in Int /\ Budget \in Int
        BY <2>2, <3>3, <3>9, <4>2, <4>3, <4>4
      <4>6. Rest \in Int
        BY Thresholds DEF Rest
      <4>7. \A i, x, y, r \in Int : x + 1 <= y /\ i + y <= r => (i + 1) + x <= r
        OBVIOUS
      <4>8. idle \in Int
        BY <1>r
      <4>9. (idle + 1) + Budget' <= Rest
        BY <3>2, <4>5, <4>6, <4>7, <4>8
      <4> QED
        BY <3>2, <4>9
    <3> QED
      BY <2>3, <3>8, <3>9
  <2> QED
    BY <2>4, <2>5
<1> QED
  BY <1>1, <1>2, <1>3, <1>4, <1>5, <1>6, <1>7, <1>8, <1>9 DEF SleepInv
-----------------------------------------------------------------------------
(* kb_pm_proc and restarts *)

\* What the sleep machine does to the budget of a keyboard nobody uses: nothing.
LEMMA SuspendSpends ==
  ASSUME SleepInv, Suspend, mode = "NORMAL", ~sending
  PROVE  idle' + Budget' <= Rest
<1>i. IdleInv /\ LampOK(led) /\ LampRuns(led) /\ led.left \in Nat /\ Remaining(led) \in Nat
  BY Ranges, RemainingBounds DEF SleepInv, IdleInv
<1>r. batt \in Nat /\ idle \in Nat /\ cnt \in Nat /\ cnt' \in Nat
  BY <1>i, Ranges DEF Suspend, SleepStep
<1>s. /\ phase = "pm" /\ phase' = "run" /\ led' = led /\ batt' = batt /\ idle' = idle
      /\ sleep # "WAIT_DEEP" /\ sleep' # "WAIT_DEEP"
  <2>1. sleep # "WAIT_DEEP"
    BY DEF SleepInv, Modes
  <2> QED
    BY <2>1 DEF Suspend, SleepStep, linkVars, lampVars
<1>b. Budget = BudgetOf(led, cnt, "pm", sleep, batt)
      /\ Budget' = BudgetOf(led, cnt', "run", sleep', batt)
  BY <1>s DEF Budget, BudgetOf, UntilLong, Warning, Remaining, Period, Length
<1>m. ~(led.pat = "MANUAL" /\ led.left > 0)
  BY DEF SleepInv, IdleInv, BlinkMeansPairing
<1>n. Budget' \in Nat /\ Budget' <= Rest
  <2>1. IdleInv'
    BY <1>i, SuspendKeeps
  <2>2. (sleep' = "BASIC" /\ cnt' < BasicLoops) \/ (sleep' = "LONG" /\ cnt' <= LongLoops)
    BY <2>1, <1>s DEF IdleInv, Asleep
  <2> QED
    BY <1>i, <1>r, <1>b, <1>m, <2>2, BudgetBounds
<1>1. CASE idle = 0
  BY <1>1, <1>n, <1>s
<1>2. CASE idle > 0
  <2>1. ~radio /\ ~held /\ idle + Budget <= Rest
    BY <1>2, <1>s DEF SleepInv, Modes, Sending, Resting
  <2>2. Budget \in Nat
    <3>1. (sleep = "BASIC" /\ cnt < BasicLoops) \/ (sleep = "LONG" /\ cnt <= LongLoops)
      BY <1>i, <1>s DEF IdleInv, Asleep
    <3> QED
      BY <1>i, <1>r, <1>b, <1>m, <3>1, BudgetBounds
  <2>3. CASE Busy
    <3>1. led.left > 0 /\ sleep' = "BASIC"
      BY <2>1, <2>3 DEF Suspend, SleepStep, Busy
    <3>2. Budget' = Budget
      BY <1>b, <1>i, <3>1 DEF BudgetOf, UntilLong
    <3> QED
      BY <1>s, <2>1, <3>2
  <2>4. CASE ~Busy
    <3>0. led.left = 0
      BY <1>i, <2>4 DEF Busy
    <3>1. CASE sleep = "BASIC" /\ cnt + 1 < BasicLoops
      <4>1. sleep' = "BASIC" /\ cnt' = cnt + 1
        BY <2>4, <3>1, Thresholds, <1>r DEF Suspend, SleepStep
      <4>2. UntilLong(led, cnt', "run") = UntilLong(led, cnt, "pm")
        BY <1>r, <3>0, <4>1, Thresholds DEF UntilLong
      <4>3. Budget' = Budget
        BY <1>b, <3>1, <4>1, <4>2 DEF BudgetOf
      <4> QED
        BY <1>s, <2>1, <4>3
    <3>2. CASE sleep = "BASIC" /\ cnt + 1 >= BasicLoops
      <4>1. sleep' = "LONG" /\ cnt' = 1
        BY <2>4, <3>2, Thresholds, <1>r DEF Suspend, SleepStep
      <4>2. Budget' = LongLoops
        BY <1>b, <3>0, <4>1, Thresholds DEF BudgetOf
      <4>3. UntilLong(led, cnt, "pm") \in Nat
        <5>1. cnt < BasicLoops
          BY <1>i, <3>2 DEF IdleInv, Asleep
        <5>2. UntilLong(led, cnt, "pm") = BasicLoops - cnt - 1
          BY <3>0 DEF UntilLong
        <5> QED
          BY <1>r, <5>1, <5>2, Thresholds
      <4>4. Warning(UntilLong(led, cnt, "pm"), batt) \in Nat
        BY Thresholds DEF Warning
      <4>5. Budget = UntilLong(led, cnt, "pm") + LongLoops
                       + Warning(UntilLong(led, cnt, "pm"), batt)
        BY <1>b, <3>2 DEF BudgetOf
      <4>6. Budget' <= Budget
        BY <4>2, <4>3, <4>4, <4>5, Thresholds
      <4>7. \A i, x, y \in Nat, r \in Int : x <= y /\ i + y <= r => i + x <= r
        OBVIOUS
      <4>8. Rest \in Int
        BY Thresholds DEF Rest
      <4>9. idle + Budget' <= Rest
        BY <1>n, <1>r, <2>1, <2>2, <4>6, <4>7, <4>8
      <4> QED
        BY <1>s, <4>9
    <3>3. CASE sleep = "LONG"
      <4>1. sleep' = "LONG" /\ cnt' = cnt + 1
        BY <2>4, <3>3 DEF Suspend, SleepStep
      <4>2. Budget' = Budget
        BY <1>b, <1>r, <3>0, <3>3, <4>1, Thresholds DEF BudgetOf
      <4> QED
        BY <1>s, <2>1, <4>2
    <3> QED
      BY <1>i, <1>r, <1>s, <3>1, <3>2, <3>3, Thresholds DEF IdleInv, Asleep
  <2> QED
    BY <2>3, <2>4
<1> QED
  BY <1>1, <1>2, <1>r

LEMMA SuspendSleeps == ASSUME SleepInv, Suspend PROVE SleepInv'
<1>i. IdleInv /\ States
  BY DEF SleepInv, IdleInv
<1>1. IdleInv'
  BY <1>i, SuspendKeeps
<1>r. /\ age \in Nat /\ age <= NoQuick /\ noAck \in Nat /\ noAck <= NoLink
      /\ fresh \in Nat /\ fresh <= SilenceLoops
      /\ idle \in Nat /\ cnt \in Nat /\ led.left \in Nat
  BY <1>i, Ranges
<1>s. /\ phase = "pm" /\ phase' = "run" /\ led' = led /\ batt' = batt /\ idle' = idle
      /\ mode' = mode /\ linked' = linked /\ locked' = locked /\ noAck' = noAck
      /\ sending' = sending /\ fresh' = fresh /\ held' = held /\ radio' = radio
      /\ ~GoesDeep /\ SleepStep
      /\ age' = (IF mode \in Unlinked THEN Smaller(age + 1, NoQuick) ELSE 0)
  BY DEF Suspend, linkVars, lampVars
<1>2. LampRuns(led)'
  BY <1>s DEF SleepInv, LampRuns
<1>w. mode # "WAIT_DEEP"
  <2>1. SUFFICES ASSUME mode = "WAIT_DEEP" PROVE FALSE
    OBVIOUS
  <2>2. noAck = NoLink
    BY <2>1 DEF SleepInv, Modes
  <2> QED
    BY <1>s, <2>1, <2>2, Thresholds DEF GoesDeep, Quick, Unlinked
<1>3. Modes'
  <2>1. sleep # "WAIT_DEEP" /\ sleep' # "WAIT_DEEP"
    BY <1>w, <1>s DEF SleepInv, Modes, SleepStep
  <2> QED
    BY <1>w, <1>s, <2>1 DEF SleepInv, Modes
<1>4. Searching'
  <2>1. SUFFICES ASSUME mode \in Unlinked, ~linked
                 PROVE  /\ noAck < NoLink => idle <= noAck
                        /\ age' < NoQuick => idle <= age'
                        /\ idle <= NoQuick \/ idle < NoLink
    <3>1. age' \in Nat /\ age' + 0 = age'
      BY <1>r, <1>s, Thresholds DEF Smaller
    <3> QED
      BY <1>s, <3>1 DEF Searching
  <2>2. (noAck < NoLink => idle <= noAck) /\ (age < NoQuick => idle <= age + 1)
    BY <1>s, <2>1 DEF SleepInv, Searching
  <2>3. age' < NoQuick => idle <= age'
    BY <1>r, <1>s, <2>1, <2>2, Thresholds DEF Smaller
  <2>4. noAck < NoLink \/ age < NoQuick
    BY <1>r, <1>s, <2>1, Thresholds DEF GoesDeep, Quick
  <2>5. idle <= NoQuick \/ idle < NoLink
    BY <1>r, <2>2, <2>4, Thresholds
  <2> QED
    BY <2>2, <2>3, <2>5
<1>5. Sending'
  <2>1. SUFFICES ASSUME mode = "NORMAL"
                 PROVE  noAck < NoLink /\ (sending => idle <= noAck)
    BY <1>s DEF Sending
  <2>2. noAck < NoLink
    BY <1>r, <1>s, <2>1, Thresholds DEF GoesDeep, Quick, Unlinked
  <2> QED
    BY <2>1, <2>2 DEF SleepInv, Sending
<1>6. Stale'
  <2>1. /\ phase = "pm" /\ ~radio /\ sleep = "BASIC"
             => fresh = 0 \/ fresh + cnt + 1 <= SilenceLoops
        /\ sleep = "LONG" /\ ~(phase = "pm" /\ radio) => fresh = 0
    BY DEF SleepInv, Stale
  <2>2. CASE Busy
    <3>1. sleep' = "BASIC" /\ cnt' = 0
      BY <1>s, <2>2 DEF SleepStep
    <3> QED
      BY <1>r, <1>s, <3>1, Thresholds DEF Stale
  <2>3. CASE ~Busy /\ sleep = "BASIC"
    <3>1. fresh = 0 \/ fresh + cnt + 1 <= SilenceLoops
      BY <1>s, <2>1, <2>3 DEF Busy
    <3>2. CASE cnt + 1 < BasicLoops
      <4>1. sleep' = "BASIC" /\ cnt' = cnt + 1
        BY <1>r, <1>s, <2>3, <3>2, Thresholds DEF SleepStep
      <4>2. fresh = 0 \/ fresh + cnt' <= SilenceLoops
        BY <1>r, <3>1, <4>1
      <4> QED
        BY <1>s, <4>1, <4>2 DEF Stale
    <3>3. CASE cnt + 1 >= BasicLoops
      <4>1. sleep' = "LONG" /\ fresh = 0
        BY <1>r, <1>s, <2>3, <3>1, <3>3, Thresholds DEF SleepStep
      <4> QED
        BY <1>s, <4>1 DEF Stale
    <3> QED
      BY <1>r, <3>2, <3>3, Thresholds
  <2>4. CASE ~Busy /\ sleep = "LONG"
    <3>1. fresh = 0
      BY <2>1, <2>4 DEF Busy
    <3> QED
      BY <1>s, <3>1 DEF Stale
  <2> QED
    BY <1>i, <1>w, <2>2, <2>3, <2>4 DEF SleepInv, Modes, IdleInv, Asleep
<1>7. Pressed'
  BY <1>s DEF Pressed
<1>8. Blinking'
  <2>1. led.left > 0 => sleep' = "BASIC" /\ cnt' = 0
    BY <1>s DEF SleepStep, Busy
  <2> QED
    BY <1>s, <2>1 DEF Blinking
<1>9. Resting'
  BY <1>s, SuspendSpends DEF Resting
<1> QED
  BY <1>1, <1>2, <1>3, <1>4, <1>5, <1>6, <1>7, <1>8, <1>9 DEF SleepInv

\* Deep sleep waits for a key to be released only after the host has been silent long:
\* a key held down in the long suspend mode makes a frame, or is the lock key.
LEMMA WaitDeepSleeps == ASSUME SleepInv, WaitDeep PROVE SleepInv'
<1>1. IdleInv'
  BY WaitDeepKeeps DEF SleepInv
<1>r. noAck \in Nat /\ noAck <= NoLink /\ idle \in Nat
  BY Ranges DEF SleepInv
<1>s. /\ phase = "pm" /\ GoesDeep /\ held /\ phase' = "run" /\ led' = led /\ idle' = idle
      /\ mode' = "WAIT_DEEP" /\ sleep' = "WAIT_DEEP" /\ noAck' = noAck
  BY DEF WaitDeep, linkVars, lampVars
<1>2. Quick
  <2>1. SUFFICES ASSUME ~Busy, sleep = "LONG" PROVE FALSE
    BY <1>s DEF GoesDeep
  <2>2. radio \/ locked
    BY <1>s, <2>1 DEF SleepInv, Pressed
  <2> QED
    BY <1>s, <2>1, <2>2 DEF Busy
<1>3. noAck' = NoLink /\ idle' = 0
  <2>1. noAck = NoLink
    BY <1>2, <1>r, Thresholds DEF Quick
  <2>2. idle = 0
    BY <1>r, <1>s DEF SleepInv, Modes
  <2> QED
    BY <1>s, <2>1, <2>2
<1>4. LampRuns(led)' /\ Modes' /\ Searching' /\ Sending'
  <2>1. LampRuns(led)'
    BY <1>s DEF SleepInv, LampRuns
  <2>2. Modes'
    BY <1>s, <1>3 DEF Modes, Unlinked
  <2> QED
    BY <1>s, <2>1, <2>2 DEF Searching, Sending, Unlinked
<1>5. Stale' /\ Pressed' /\ Blinking' /\ Resting'
  BY <1>s DEF Stale, Pressed, Blinking, Resting
<1> QED
  BY <1>1, <1>4, <1>5 DEF SleepInv

\* After a start everything is counted from nought.
LEMMA FreshSleeps ==
  ASSUME IdleInv', Fresh, mode' \in {"SYNCING", "NORMAL", "DEEP"},
         linked' = (mode' = "NORMAL") \/ mode' = "DEEP",
         led' = LedOff \/ led' = Setup(LedOff, "POWER_ON")
  PROVE  SleepInv'
<1>1. LampOK(led') /\ LampRuns(led') /\ led'.pat = "POWER_ON"
  <2>1. LampOK(LedOff) /\ LampRuns(LedOff) /\ LedOff.pat = "POWER_ON" /\ LedOff.left = 0
    BY LedOffOK DEF LedOff, LampRuns
  <2>2. LampOK(Setup(LedOff, "POWER_ON")) /\ LampRuns(Setup(LedOff, "POWER_ON"))
    BY <2>1, SetupOK, SetupRuns DEF Pattern
  <2>3. Setup(LedOff, "POWER_ON").pat = "POWER_ON"
    BY <2>1 DEF Setup, GivesWay
  <2> QED
    BY <2>1, <2>2, <2>3
<1>2. LampRuns(led)'
  BY <1>1 DEF LampRuns
<1>f. /\ age' = 0 /\ noAck' = 1 /\ sending' = FALSE /\ fresh' = 0 /\ held' = FALSE
      /\ batt' = 0 /\ sleep' = "BASIC" /\ cnt' = 0 /\ phase' = "run" /\ idle' = 0
  BY DEF Fresh
<1>3. Modes' /\ Searching' /\ Sending'
  <2>1. mode' \in {"SYNCING", "NORMAL", "DEEP"} /\ (mode' = "NORMAL" => linked')
        /\ (mode' = "SYNCING" => ~linked')
    OBVIOUS
  <2>2. Modes'
    BY <1>f, <2>1 DEF Modes, Unlinked
  <2>3. Searching' /\ Sending'
    BY <1>f, <2>1, Thresholds DEF Searching, Sending, Unlinked
  <2> QED
    BY <2>2, <2>3
<1>4. Stale' /\ Pressed' /\ Blinking'
  BY <1>f, Thresholds DEF Stale, Pressed, Blinking
<1>5. Resting'
  <2>1. Budget' = BudgetOf(led', 0, "run", "BASIC", 0)
    BY <1>f DEF Budget, BudgetOf, UntilLong, Warning, Remaining, Period, Length
  <2>2. Budget' \in Nat /\ Budget' <= Rest
    BY <1>1, <2>1, BudgetBounds, Thresholds
  <2> QED
    BY <1>f, <2>2 DEF Resting
<1> QED
  BY <1>2, <1>3, <1>4, <1>5 DEF SleepInv

LEMMA SleepInit == Init => SleepInv
<1> SUFFICES ASSUME Init PROVE SleepInv
  OBVIOUS
<1>1. IdleInv
  BY IdleInit
<1>2. LampRuns(led)
  <2>1. LampRuns(LedOff)
    BY DEF LedOff, LampRuns
  <2> QED
    BY <2>1, SetupRuns DEF Init, Pattern
<1>3. Modes /\ Searching /\ Sending
  BY Thresholds DEF Init, Modes, Searching, Sending, Unlinked
<1>4. Stale /\ Pressed /\ Blinking /\ Resting
  BY Thresholds DEF Init, Stale, Pressed, Blinking, Resting
<1> QED
  BY <1>1, <1>2, <1>3, <1>4 DEF SleepInv

LEMMA SleepStepKeeps == SleepInv /\ [Next]_vars => SleepInv'
<1> SUFFICES ASSUME SleepInv, [Next]_vars PROVE SleepInv'
  OBVIOUS
<1>i. IdleInv' /\ IdleInv /\ linked \in BOOLEAN
  BY IdleStep DEF SleepInv, IdleInv, States
<1>1. CASE Run
  BY <1>1, PassSleeps DEF Run
<1>2. CASE Suspend
  BY <1>2, SuspendSleeps
<1>3. CASE WaitDeep
  BY <1>3, WaitDeepSleeps
<1>4. CASE DeepSleep
  BY <1>4, <1>i, FreshSleeps DEF DeepSleep
<1>5. CASE Wake
  <2>1. mode' = (IF linked THEN "NORMAL" ELSE "SYNCING") /\ linked' = linked /\ Fresh
        /\ (led' = LedOff \/ led' = Setup(LedOff, "POWER_ON"))
    BY <1>5 DEF Wake
  <2>2. mode' \in {"SYNCING", "NORMAL", "DEEP"} /\ linked' = (mode' = "NORMAL")
    BY <1>i, <2>1
  <2> QED
    BY <1>i, <2>1, <2>2, FreshSleeps
<1>6. CASE BatteryChange
  BY <1>6, <1>i, FreshSleeps DEF BatteryChange
<1>7. CASE UNCHANGED vars
  <2>1. IdleInv' /\ LampRuns(led)'
    BY <1>i, <1>7 DEF SleepInv, LampRuns, vars, lampVars
  <2>2. Modes' /\ Searching' /\ Sending'
    BY <1>7 DEF SleepInv, Modes, Searching, Sending, vars, linkVars
  <2>3. Stale' /\ Pressed' /\ Blinking'
    BY <1>7 DEF SleepInv, Stale, Pressed, Blinking, vars, linkVars, lampVars
  <2>4. Resting'
    BY <1>7 DEF SleepInv, Resting, Budget, BudgetOf, UntilLong, Warning, Remaining, Period,
                Length, vars, linkVars, lampVars
  <2> QED
    BY <2>1, <2>2, <2>3, <2>4 DEF SleepInv
<1> QED
  BY <1>1, <1>2, <1>3, <1>4, <1>5, <1>6, <1>7 DEF Next, Pm

\* A keyboard nobody uses and that gets no answers is asleep after AwakeLoops loops: it
\* searches for so long at most, or waits for the answer to a frame, or it has a budget
\* of loops that the LED, one battery warning and the idling spend (kb_pm_proc,
\* kb_slp_mode_machine, kb_batt_det_process, kb_device_led_process).
THEOREM IdleUnusedSleeps == Spec => []UnusedSleeps
<1>1. SleepInv => UnusedSleeps
  <2> SUFFICES ASSUME SleepInv PROVE idle <= AwakeLoops
    BY DEF UnusedSleeps
  <2>r. /\ idle \in Nat /\ noAck \in Nat /\ noAck <= NoLink /\ batt \in Nat /\ cnt \in Nat
        /\ Rest \in Nat
    BY Ranges, Thresholds DEF SleepInv, Rest
  <2>a. AwakeLoops = Larger(Larger(NoQuick + 1, NoLink), Rest)
    BY DEF AwakeLoops, Rest
  <2>b. /\ NoQuick + 1 <= AwakeLoops /\ NoLink <= AwakeLoops /\ Rest <= AwakeLoops
        /\ AwakeLoops \in Nat
    BY <2>r, <2>a, Thresholds DEF Larger
  <2>1. CASE mode \in Unlinked
    <3>1. idle = 0 \/ idle <= NoQuick + 1 \/ idle <= NoLink
      BY <2>1, <2>r, Thresholds DEF SleepInv, Modes, Searching, IdleInv, States
    <3> QED
      BY <2>b, <2>r, <3>1, Thresholds
  <2>2. CASE mode = "NORMAL" /\ sending
    <3>1. idle <= noAck
      BY <2>2 DEF SleepInv, Sending
    <3> QED
      BY <2>b, <2>r, <3>1, Thresholds
  <2>3. CASE mode = "NORMAL" /\ ~sending
    <3>1. idle + Budget <= Rest
      BY <2>3 DEF SleepInv, Resting
    <3>2. Budget \in Nat
      <4>1. ~(led.pat = "MANUAL" /\ led.left > 0) /\ sleep # "WAIT_DEEP"
        BY <2>3 DEF SleepInv, IdleInv, BlinkMeansPairing, Modes
      <4>2. (sleep = "BASIC" /\ cnt < BasicLoops) \/ (sleep = "LONG" /\ cnt <= LongLoops)
        BY <4>1 DEF SleepInv, IdleInv, Asleep
      <4>3. LampOK(led) /\ LampRuns(led)
        BY DEF SleepInv, IdleInv
      <4> QED
        BY <2>r, <4>1, <4>2, <4>3, BudgetBounds DEF Budget
    <3>3. \A i, x, y, z \in Nat : i + x <= y /\ y <= z => i <= z
      OBVIOUS
    <3> QED
      BY <2>b, <2>r, <3>1, <3>2, <3>3
  <2>4. CASE mode = "WAIT_DEEP" \/ mode = "DEEP"
    <3>1. idle <= 1
      BY <2>4, <2>r DEF SleepInv, Modes
    <3> QED
      BY <2>b, <2>r, <3>1, Thresholds
  <2> QED
    BY <2>1, <2>2, <2>3, <2>4 DEF SleepInv, IdleInv, States, Unlinked
<1> QED
  BY <1>1, SleepInit, SleepStepKeeps, PTL DEF Spec
-----------------------------------------------------------------------------
(* The battery warning *)

Shows(l, patterns) == l.left > 0 /\ l.pat \in patterns

\* What the table of kb_led.c gives way to the warning.
WarningFirst == \A p \in {"POWER_ON", "MANUAL", "END"} : Prio["BAT_LOW"] > Prio[p]

\* With a low battery, each loop is one nearer to the next judgement of the voltage, and
\* one at rest does not put it off; it makes the LED warn, unless the sign of a
\* successful pairing runs, which only the end of a pairing begins: the step behind
\* LowBatteryTold (kb_batt_det_process, kb_device_led_setup).
WarningStep ==
  low /\ phase = "run" /\ phase' = "pm" =>
    /\ Shows(led', {"BAT_LOW", "OK"}) \/ batt' = Smaller(batt + 1, CheckLoops)
    /\ ~radio' /\ ~held' /\ sleep = "BASIC" /\ batt + 1 >= CheckLoops =>
         Shows(led', {"BAT_LOW", "OK"})
    /\ Shows(led', {"OK"}) => Shows(led, {"OK"}) \/ (mode = "PAIRING" /\ mode' = "NORMAL")
WarningComes == [][WarningStep]_vars

LEMMA JudgedShows ==
  ASSUME WarningFirst, low, NEW l, LampOK(l), NEW h, NEW tx, Judges(h, tx)
  PROVE  Shows(Warned(l, h, tx), {"BAT_LOW", "OK"})
<1>1. Warned(l, h, tx) = Setup(l, "BAT_LOW") /\ "BAT_LOW" \in Pattern
  BY DEF Warned, Pattern
<1>2. l.left \in Nat /\ l.pat \in Pattern
  BY DEF LampOK, Lamp
<1>3. CASE GivesWay(l, "BAT_LOW")
  <2>1. Warned(l, h, tx).pat = "BAT_LOW" /\ Warned(l, h, tx).left = Rep["BAT_LOW"]
    BY <1>1, <1>3 DEF Setup
  <2> QED
    BY <1>1, <2>1, ConstantTypes DEF Shows
<1>4. CASE ~GivesWay(l, "BAT_LOW")
  <2>1. Warned(l, h, tx) = l /\ l.left # 0 /\ ~(Prio["BAT_LOW"] > Prio[l.pat])
    BY <1>1, <1>4 DEF Setup, GivesWay
  <2>2. l.pat \notin {"POWER_ON", "MANUAL", "END"}
    BY <2>1 DEF WarningFirst
  <2>3. l.pat \in {"BAT_LOW", "OK"} /\ l.left > 0
    BY <1>2, <2>1, <2>2 DEF Pattern
  <2> QED
    BY <2>1, <2>3 DEF Shows
<1> QED
  BY <1>3, <1>4

\* The sign of success comes with the end of a pairing only.
LEMMA SuccessShows ==
  ASSUME IdleInv, NEW chord \in BOOLEAN, NEW h, NEW tx,
         Shows(Warned(LedLoop(LedNow(chord)), h, tx), {"OK"})
  PROVE  Shows(led, {"OK"}) \/ (mode = "PAIRING" /\ ModeNow(chord) = "NORMAL")
<1> DEFINE n == LedNow(chord)
           m == LedLoop(n)
<1>1. LampOK(n) /\ LampOK(m) /\ m.pat = n.pat /\ m.left <= n.left
  BY LedNowOK, LedLoopOK
<1>2. m.left \in Nat /\ n.left \in Nat
  BY <1>1 DEF LampOK, Lamp
<1> HIDE DEF m
<1>3. Warned(m, h, tx) = m \/ Warned(m, h, tx).pat = "BAT_LOW"
  BY DEF Warned, Setup
<1>4. Shows(n, {"OK"})
  <2>1. Warned(m, h, tx) = m
    BY <1>3 DEF Shows, m
  <2>2. m.left > 0 /\ m.pat = "OK"
    BY <2>1 DEF Shows, m
  <2> QED
    BY <1>1, <1>2, <2>2 DEF Shows
<1> HIDE DEF n
<1>5. CASE Joins /\ mode = "PAIRING"
  BY <1>5 DEF ModeNow, Joins, Expires, Starts
<1>6. CASE ~(Joins /\ mode = "PAIRING")
  <2>1. n = led \/ n = Setup(led, "END") \/ n = Setup(led, "MANUAL")
    BY <1>6 DEF n, LedNow
  <2>2. n = led \/ n.pat = "END" \/ n.pat = "MANUAL"
    BY <2>1 DEF Setup
  <2> QED
    BY <1>4, <2>2 DEF Shows
<1> QED
  BY <1>5, <1>6

LEMMA PassWarns ==
  ASSUME WarningFirst, IdleInv,
         NEW h \in BOOLEAN, NEW scanned \in BOOLEAN, NEW lock \in BOOLEAN, NEW chord \in BOOLEAN,
         NEW ok \in BOOLEAN, Pass(h, scanned, lock, chord, ok)
  PROVE  WarningStep
<1> SUFFICES ASSUME low
             PROVE  /\ Shows(led', {"BAT_LOW", "OK"}) \/ batt' = Smaller(batt + 1, CheckLoops)
                    /\ ~radio' /\ ~held' /\ sleep = "BASIC" /\ batt + 1 >= CheckLoops =>
                         Shows(led', {"BAT_LOW", "OK"})
                    /\ Shows(led', {"OK"}) =>
                         Shows(led, {"OK"}) \/ (mode = "PAIRING" /\ mode' = "NORMAL")
  BY DEF WarningStep
<1>1. PICK tx : /\ radio' = tx /\ held' = h /\ mode' = ModeNow(chord)
                /\ led' = Warned(LedLoop(LedNow(chord)), h, tx) /\ batt' = BattAfter(h, tx)
  BY DEF Pass
<1>2. LampOK(LedLoop(LedNow(chord)))
  BY LedNowOK, LedLoopOK
<1>3. Judges(h, tx) => Shows(led', {"BAT_LOW", "OK"})
  BY <1>1, <1>2, JudgedShows
<1>4. ~Judges(h, tx) => batt' = Smaller(batt + 1, CheckLoops)
  BY <1>1 DEF BattAfter, Waited
<1>5. ~radio' /\ ~held' /\ sleep = "BASIC" /\ batt + 1 >= CheckLoops => Judges(h, tx)
  <2>1. batt \in Nat /\ CheckLoops \in Nat
    BY IdleAssumption DEF IdleInv, Counters
  <2>2. batt + 1 >= CheckLoops => Waited >= CheckLoops
    BY <2>1 DEF Waited, Smaller
  <2> QED
    BY <1>1, <2>2 DEF Judges, Measures, Calm
<1>6. Shows(led', {"OK"}) => Shows(led, {"OK"}) \/ (mode = "PAIRING" /\ mode' = "NORMAL")
  BY <1>1, SuccessShows
<1> QED
  BY <1>3, <1>4, <1>5, <1>6

\* The warning of a low battery is never put off for long, for every table of patterns
\* in which only success is as urgent: the loops to the next judgement are counted
\* whatever goes on, and the first one at rest after them warns.
THEOREM IdleWarningComes ==
  ASSUME WarningFirst
  PROVE  Spec => WarningComes
<1>1. IdleInv /\ [Next]_vars => [WarningStep]_vars
  <2> SUFFICES ASSUME IdleInv, Next PROVE WarningStep
    OBVIOUS
  <2>1. CASE Run
    BY <2>1, PassWarns DEF Run
  <2>2. CASE Pm
    BY <2>2 DEF Pm, Suspend, WaitDeep, DeepSleep, Fresh, WarningStep
  <2>3. CASE Wake \/ BatteryChange
    BY <2>3 DEF Wake, BatteryChange, Fresh, WarningStep
  <2> QED
    BY <2>1, <2>2, <2>3 DEF Next
<1> QED
  BY <1>1, IdleInvariant, PTL DEF Spec, WarningComes
=============================================================================
