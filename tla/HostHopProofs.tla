--------------------------- MODULE HostHopProofs ---------------------------
(***************************************************************************)
(* What HostHop promises for every mask, threshold and time-out: the two   *)
(* channels stay distinct, the dongle knows which one it is on, its        *)
(* counters fit the four bits the acknowledgement gives them, it moves at  *)
(* every tick, a hop spares the channel in use, and in silence every even  *)
(* channel comes nearer tick by tick.                                      *)
(***************************************************************************)
EXTENDS HostHop, TLAPS

\* NextChannel stays in the band and never returns its argument, so that
\* Replacement always differs from the channel in use.
LEMMA NextChannelMoves ==
  ASSUME NEW c \in Channel
  PROVE  NextChannel(c) \in Channel /\ NextChannel(c) # c
BY DEF Channel, NextChannel

LEMMA ReplacementDiffers ==
  ASSUME NEW c \in Channel, NEW inUse \in Channel
  PROVE  Replacement(c, inUse) \in Channel /\ Replacement(c, inUse) # inUse
<1>1. NextChannel(c) \in Channel
  BY NextChannelMoves
<1>2. NextChannel(NextChannel(c)) \in Channel
      /\ NextChannel(NextChannel(c)) # NextChannel(c)
  BY <1>1, NextChannelMoves
<1>3. QED
  BY <1>1, <1>2 DEF Replacement

\* The ceiling of both counters in either mode.
Ceiling == Larger(MaxPkt["normal"], MaxPkt["slow"])

LEMMA CeilingFits ==
  /\ Ceiling \in 1..15
  /\ \A m \in Mode : MaxPkt[m] \in 1..15 /\ MaxPkt[m] <= Ceiling
  /\ MaxIdle \in Nat
BY HopAssumption DEF Ceiling, Larger, Mode, MaxIdle

\* The inductive invariant: beside the four invariants themselves it says that
\* the counter of the nibble in use is strictly below the ceiling, for only
\* that one is incremented before the next check of Full.
IInv ==
  /\ TypeOK
  /\ TwoChannels
  /\ ListensOnMask
  /\ CountersFit
  /\ pkt[sel] < Ceiling

LEMMA InitEstablishes == Init => IInv
<1> SUFFICES ASSUME Init PROVE IInv
  OBVIOUS
<1>1. TypeOK
  <2>1. /\ mask \in [Index -> Channel] /\ pkt \in [Index -> 0..15]
        /\ chan \in Channel /\ sel \in Index /\ selChg \in Index
        /\ hold \in 0..HoldTicks /\ idle \in 0..MaxIdle /\ heard \in 0..2
    BY HopAssumption, CeilingFits DEF Init, Channel, Index
  <2>2. /\ mode \in Mode /\ mouse \in {"never", "recent", "old"}
        /\ kbLocal \in BOOLEAN /\ mouseLocal \in BOOLEAN
    BY DEF Init, Mode
  <2>3. QED
    BY <2>1, <2>2 DEF TypeOK
<1>2. TwoChannels /\ ListensOnMask
  BY HopAssumption DEF Init, TwoChannels, ListensOnMask
<1>3. \A i \in Index : pkt[i] = 0
  BY DEF Init
<1>4. CountersFit
  BY <1>3, CeilingFits DEF CountersFit, Ceiling
<1>5. pkt[sel] < Ceiling
  BY <1>3, CeilingFits DEF Init, Index
<1>6. QED
  BY <1>1, <1>2, <1>4, <1>5 DEF IInv

\* What a tick computes before it decides.
LEMMA TickFacts ==
  ASSUME IInv
  PROVE  /\ NextSel \in Index /\ Other(NextSel) \in Index
         /\ Other(NextSel) # NextSel
         /\ NextMode \in Mode
         /\ Tally \in [Index -> 0..15]
         /\ \A i \in Index : Tally[i] <= Ceiling
         /\ SinceHeard \in 0..MaxIdle
<1>1. NextSel \in Index /\ Other(NextSel) \in Index /\ Other(NextSel) # NextSel
  BY DEF NextSel, Other, Index
<1>2. NextMode \in Mode
  BY DEF NextMode, Mode, IInv, TypeOK
<1>3. Counted \in [Index -> 0..15] /\ \A i \in Index : Counted[i] <= Ceiling
  BY CeilingFits DEF Counted, IInv, TypeOK, CountersFit, Ceiling, Index
<1>4. AfterSilence \in [Index -> 0..15]
      /\ \A i \in Index : AfterSilence[i] <= Ceiling
  <2>1. MaxPkt[NextMode] \in 1..15 /\ MaxPkt[NextMode] <= Ceiling
    BY <1>2, CeilingFits
  <2>2. QED
    BY <1>3, <2>1, CeilingFits DEF AfterSilence, Index
<1>5. Tally \in [Index -> 0..15] /\ \A i \in Index : Tally[i] <= Ceiling
  BY <1>4, CeilingFits DEF Tally, Index
<1>6. SinceHeard \in 0..MaxIdle
  BY CeilingFits DEF SinceHeard, IInv, TypeOK
<1>7. QED
  BY <1>1, <1>2, <1>5, <1>6

\* The tick keeps the invariant.
LEMMA TimerStep ==
  ASSUME IInv, HostTimer
  PROVE  IInv'
<1> DEFINE o == Other(NextSel)
<1> DEFINE r == Replacement(mask[o], mask[NextSel])
<1>1. /\ NextSel \in Index /\ o \in Index /\ o # NextSel
      /\ NextMode \in Mode
      /\ Tally \in [Index -> 0..15]
      /\ \A i \in Index : Tally[i] <= Ceiling
      /\ SinceHeard \in 0..MaxIdle
  BY TickFacts
<1>2. r \in Channel /\ r # mask[NextSel]
  BY <1>1, ReplacementDiffers DEF IInv, TypeOK
<1>3. mask' \in [Index -> Channel] /\ mask'[NextSel] = mask[NextSel]
  BY <1>1, <1>2 DEF HostTimer, NewMask, IInv, TypeOK
<1>4. mask'[o] # mask'[NextSel]
  <2>1. CASE Hit
    BY <2>1, <1>1, <1>2 DEF HostTimer, NewMask, IInv, TypeOK
  <2>2. CASE ~Hit
    BY <2>2, <1>1 DEF HostTimer, NewMask, IInv, TwoChannels, Index
  <2>3. QED
    BY <2>1, <2>2
<1>5. TwoChannels'
  BY <1>1, <1>4 DEF TwoChannels, Index
<1>6. chan' = mask'[sel'] /\ chan' \in Channel
  BY <1>1, <1>3 DEF HostTimer, NewMask, IInv, TypeOK
<1>7. pkt' \in [Index -> 0..15] /\ \A i \in Index : pkt'[i] <= Ceiling
  BY <1>1, CeilingFits DEF HostTimer, NewMask, Index
<1>8. pkt'[sel'] < Ceiling
  <2>1. CASE Hit \/ Full
    BY <2>1, <1>1, CeilingFits DEF HostTimer, NewMask, Index
  <2>2. CASE ~(Hit \/ Full)
    <3>1. Tally[NextSel] < MaxPkt[NextMode]
      BY <2>2, <1>1, CeilingFits DEF Full
    <3>2. QED
      BY <2>2, <3>1, <1>1, CeilingFits DEF HostTimer
  <2>3. QED
    BY <2>1, <2>2
<1>9. hold' \in 0..HoldTicks /\ idle' \in 0..MaxIdle
  <2>1. hold' \in 0..HoldTicks
    BY HopAssumption DEF HostTimer, NewMask, IInv, TypeOK
  <2>2. idle' \in 0..MaxIdle
    BY <1>1, CeilingFits DEF HostTimer
  <2>3. QED
    BY <2>1, <2>2
<1>10. /\ sel' \in Index /\ selChg' \in Index /\ heard' \in 0..2 /\ mode' \in Mode
       /\ kbLocal' \in BOOLEAN /\ mouseLocal' \in BOOLEAN
       /\ mouse' \in {"never", "recent", "old"}
  <2>1. sel' \in Index /\ selChg' \in Index /\ heard' \in 0..2 /\ mode' \in Mode
    BY <1>1 DEF HostTimer, NewMask, IInv, TypeOK
  <2>2. kbLocal' \in BOOLEAN /\ mouseLocal' \in BOOLEAN
    BY DEF HostTimer, NewMask, IInv, TypeOK
  <2>3. mouse' \in {"never", "recent", "old"}
    BY DEF HostTimer, NewMask, IInv, TypeOK
  <2>4. QED
    BY <2>1, <2>2, <2>3
<1>11. QED
  BY <1>3, <1>5, <1>6, <1>7, <1>8, <1>9, <1>10
     DEF IInv, TypeOK, ListensOnMask, CountersFit, Ceiling

LEMMA StepKeeps == IInv /\ [Next]_vars => IInv'
<1> SUFFICES ASSUME IInv, [Next]_vars PROVE IInv'
  OBVIOUS
<1>1. CASE HostTimer
  BY <1>1, TimerStep
<1>2. ASSUME NEW dev \in Device, HostRx(dev) PROVE IInv'
  <2>1. UNCHANGED <<radio, counts, mode>>
    BY <1>2 DEF HostRx
  <2>2. heard' \in 0..2
    BY <1>2 DEF HostRx, IInv, TypeOK
  <2>3. kbLocal' \in BOOLEAN /\ mouseLocal' \in BOOLEAN
    BY <1>2 DEF HostRx
  <2>4. mouse' \in {"never", "recent", "old"}
    BY <1>2 DEF HostRx, IInv, TypeOK
  <2>5. TypeOK'
    BY <2>1, <2>2, <2>3, <2>4 DEF IInv, TypeOK, radio, counts
  <2>6. QED
    BY <2>1, <2>5 DEF IInv, TwoChannels, ListensOnMask, CountersFit, Ceiling,
                      radio, counts
<1>3. CASE MouseAges
  BY <1>3 DEF MouseAges, IInv, TypeOK, TwoChannels, ListensOnMask, CountersFit,
              Ceiling, radio, counts
<1>4. CASE UNCHANGED vars
  BY <1>4 DEF vars, IInv, TypeOK, TwoChannels, ListensOnMask, CountersFit, Ceiling
<1>5. QED
  BY <1>1, <1>2, <1>3, <1>4 DEF Next

LEMMA Invariance == Spec => []IInv
<1>1. QED
  BY InitEstablishes, StepKeeps, PTL DEF Spec

\* Type correctness of the hopping state for every mask and every threshold.
THEOREM HopTypeCorrect == Spec => []TypeOK
<1>1. IInv => TypeOK
  BY DEF IInv
<1>2. QED
  BY <1>1, Invariance, PTL

\* update_channel_mask never makes the two channels of the mask equal.
THEOREM HopTwoChannels == Spec => []TwoChannels
<1>1. IInv => TwoChannels
  BY DEF IInv
<1>2. QED
  BY <1>1, Invariance, PTL

\* The dongle listens on the nibble ll_chn_sel names, so hits are booked right.
THEOREM HopListensOnMask == Spec => []ListensOnMask
<1>1. IInv => ListensOnMask
  BY DEF IInv
<1>2. QED
  BY <1>1, Invariance, PTL

\* The packet counters fit the nibbles of the acknowledgement's per field.
THEOREM HopCountersFit == Spec => []CountersFit
<1>1. IInv => CountersFit
  BY DEF IInv
<1>2. QED
  BY <1>1, Invariance, PTL

\* irq_host_timer1 changes the channel at every tick.
THEOREM HopAlternates == Spec => Alternates
<1>1. IInv /\ [Next]_vars => [HostTimer => chan' # chan]_vars
  <2> SUFFICES ASSUME IInv, HostTimer PROVE chan' # chan
    OBVIOUS
  <2>1. chan' = mask[NextSel] /\ NextSel \in Index
    BY TickFacts DEF HostTimer
  <2>2. CASE mask[1] # chan
    BY <2>1, <2>2 DEF NextSel
  <2>3. CASE mask[1] = chan
    BY <2>1, <2>3 DEF NextSel, IInv, TwoChannels
  <2>4. QED
    BY <2>2, <2>3
<1>2. QED
  BY <1>1, Invariance, PTL DEF Spec, Alternates

\* A hop spares the channel the dongle is on after the tick.
THEOREM HopSparesCurrent == Spec => HopKeepsCurrent
<1>1. IInv /\ [Next]_vars
        => [mask' # mask => /\ mask'[sel'] = mask[sel'] /\ chan' = mask'[sel']]_vars
  <2> SUFFICES ASSUME IInv, [Next]_vars, mask' # mask
               PROVE  mask'[sel'] = mask[sel'] /\ chan' = mask'[sel']
    OBVIOUS
  <2>1. HostTimer
    BY DEF Next, HostRx, MouseAges, radio, vars
  <2>2. Other(NextSel) # NextSel /\ NextSel \in Index /\ Other(NextSel) \in Index
    BY TickFacts
  <2>3. QED
    BY <2>1, <2>2 DEF HostTimer, NewMask, IInv, TypeOK
<1>2. QED
  BY <1>1, Invariance, PTL DEF Spec, HopKeepsCurrent
-----------------------------------------------------------------------------
(* The sweep of a silent dongle *)

\* No frame since the last tick, and none noted before it.
Silence == heard = 0 /\ chan = mask[sel] /\ (SupportKb => ~kbLocal /\ ~mouseLocal)

\* Hits counted before the silence may still replace the other nibble, once.
Astray == IF pkt[selChg] = 0 THEN 0 ELSE 1
\* Hops from channel a to the even channel c.
Steps(a, c) == 1 + ((3 * ((c \div 2) - (a \div 2)) - 1) % 8)
HopsLeft(c) == IF c \in {mask[0], mask[1]} THEN 0 ELSE Steps(mask[selChg], c)
\* Ticks to the next hop.
Wait == Larger(Larger(hold, AlwaysTicks[mode] - idle), 0)
TicksLeft == IF Wait > 0 THEN Wait + 1 ELSE IF NextSel = selChg THEN 1 ELSE 0

Nearer(c) ==
  \/ Astray' < Astray
  \/ Astray' = Astray /\ HopsLeft(c)' < HopsLeft(c)
  \/ Astray' = Astray /\ HopsLeft(c)' = HopsLeft(c) /\ TicksLeft' < TicksLeft
Sweeps ==
  [][HostTimer /\ Silence
       => Silence' /\ \A c \in Even : chan = c \/ chan' = c \/ Nearer(c)]_vars

\* A step of the walk brings it nearer to every even channel but the one it leaves.
LEMMA StepsType ==
  ASSUME NEW a \in Channel, NEW c \in Even
  PROVE  c \in Channel /\ Steps(a, c) \in 1 .. 8
<1>1. PICK k \in 0..7 : c = 2 * k
  BY DEF Even
<1>2. c \in Channel
  BY <1>1 DEF Channel
<1>3. (c \div 2) \in Int /\ (a \div 2) \in Int
  BY <1>2 DEF Channel
<1>4. \A x \in Int : 1 + ((3 * x - 1) % 8) \in 1 .. 8
  OBVIOUS
<1> QED
  BY <1>2, <1>3, <1>4 DEF Steps

LEMMA WalkNears ==
  ASSUME NEW a \in Channel, NEW c \in Even
  PROVE  NextChannel(a) = c \/ Steps(NextChannel(a), c) = Steps(a, c) - 1
<1>1. PICK k \in 0..7 : c = 2 * k
  BY DEF Even
<1>2. PICK j \in 0..7 : a = 2 * j \/ a = 2 * j + 1
  <2>1. (a \div 2) \in 0..7 /\ (a = 2 * (a \div 2) \/ a = 2 * (a \div 2) + 1)
    BY DEF Channel
  <2> QED
    BY <2>1
<1>3. a \div 2 = j /\ c \div 2 = k
  BY <1>1, <1>2
<1>4. NextChannel(a) = 2 * ((j + 3) % 8)
  BY <1>2 DEF NextChannel
<1>5. NextChannel(a) \div 2 = (j + 3) % 8
  BY <1>4
<1>6. (j + 3) % 8 = k \/ (3 * (k - ((j + 3) % 8)) - 1) % 8 = ((3 * (k - j) - 1) % 8) - 1
  OBVIOUS
<1> QED
  BY <1>1, <1>3, <1>4, <1>5, <1>6 DEF Steps

LEMMA HopNears ==
  ASSUME NEW a \in Channel, NEW u \in Channel, NEW c \in Even, c # u
  PROVE  Replacement(a, u) = c \/ Steps(Replacement(a, u), c) < Steps(a, c)
<1>1. NextChannel(a) \in Channel
  BY NextChannelMoves
<1>2. Steps(a, c) \in 1 .. 8 /\ Steps(NextChannel(a), c) \in 1 .. 8
  BY <1>1, StepsType
<1>3. CASE NextChannel(a) # u
  <2>1. Replacement(a, u) = NextChannel(a)
    BY <1>3 DEF Replacement
  <2> QED
    BY <1>2, <2>1, WalkNears
<1>4. CASE NextChannel(a) = u
  <2>1. Replacement(a, u) = NextChannel(NextChannel(a))
    BY <1>4 DEF Replacement
  <2>2. Steps(NextChannel(a), c) = Steps(a, c) - 1
    BY <1>4, WalkNears
  <2>3. NextChannel(NextChannel(a)) \in Channel
    BY <1>1, NextChannelMoves
  <2>4. Steps(NextChannel(NextChannel(a)), c) \in 1 .. 8
    BY <2>3, StepsType
  <2>5. \/ NextChannel(NextChannel(a)) = c
        \/ Steps(NextChannel(NextChannel(a)), c) = Steps(NextChannel(a), c) - 1
    BY <1>1, WalkNears
  <2> QED
    BY <1>2, <2>1, <2>2, <2>4, <2>5
<1> QED
  BY <1>3, <1>4

\* A tick in silence hops, or a hop is nearer by a tick; and a nibble whose counter is
\* nought is the one that hops.
LEMMA SilentTick ==
  ASSUME IInv, HostTimer, Silence
  PROVE  /\ Silence' /\ mode' = mode /\ TicksLeft \in Nat
         /\ Hit \/ TicksLeft' < TicksLeft
         /\ Hit => pkt'[selChg'] = 0
         /\ pkt[selChg] = 0 => pkt'[selChg'] = 0 /\ (Hit => NextSel # selChg)
<1>t. /\ NextSel \in Index /\ Other(NextSel) \in Index /\ Other(NextSel) # NextSel
      /\ selChg \in Index /\ mask \in [Index -> Channel] /\ mode \in Mode
      /\ hold \in 0..HoldTicks /\ idle \in 0..MaxIdle /\ heard = 0 /\ mask[0] # mask[1]
      /\ pkt \in [Index -> 0..15] /\ chan = mask[sel]
  BY TickFacts DEF IInv, TypeOK, TwoChannels, Silence
<1>c. /\ MaxPkt[mode] \in 1..15 /\ HitDiff[mode] \in Nat /\ HitDiff[mode] < MaxPkt[mode]
      /\ AlwaysTicks[mode] \in Nat /\ AlwaysTicks[mode] <= MaxIdle /\ MaxIdle \in Nat
      /\ HoldTicks \in Nat
  <2>1. MaxPkt[mode] \in 1..15 /\ HitDiff[mode] \in Nat /\ HoldTicks \in Nat
    BY <1>t, HopAssumption DEF HopAssumption
  <2>2. HitDiff[mode] < MaxPkt[mode]
    BY <1>t, SilenceAssumption DEF SilenceAssumption
  <2>3. /\ AlwaysTicks["normal"] \in Nat /\ AlwaysTicks["slow"] \in Nat
        /\ mode \in {"normal", "slow"}
    BY <1>t, HopAssumption DEF HopAssumption, Mode
  <2>4. AlwaysTicks[mode] <= MaxIdle /\ MaxIdle \in Nat /\ AlwaysTicks[mode] \in Nat
    BY <2>3 DEF MaxIdle, Larger
  <2> QED
    BY <2>1, <2>2, <2>4
<1>m. NextMode = mode
  BY DEF Silence, NextMode
<1>h. /\ mode' = mode /\ chan' = mask[NextSel] /\ sel' = NextSel /\ mask' = NewMask
      /\ selChg' = (IF Hit THEN Other(NextSel) ELSE selChg)
      /\ hold' = (IF Hit THEN HoldTicks ELSE IF hold > 0 THEN hold - 1 ELSE 0)
      /\ pkt' = (IF Hit \/ Full THEN [i \in Index |-> 0] ELSE Tally)
      /\ idle' = (IF Hit THEN 0 ELSE IF idle < MaxIdle THEN idle + 1 ELSE MaxIdle)
      /\ heard' = 0 /\ (SupportKb => ~kbLocal' /\ ~mouseLocal')
  BY <1>t, <1>m DEF HostTimer, SinceHeard
<1>1. Silence'
  <2>1. chan' = mask'[sel']
    BY <1>t, <1>h DEF NewMask
  <2> QED
    BY <2>1, <1>h DEF Silence
<1>w. Wait \in Nat /\ TicksLeft \in Nat /\ (Wait = 0 <=> hold = 0 /\ idle >= AlwaysTicks[mode])
  BY <1>t, <1>c DEF Wait, TicksLeft, Larger
<1>a. Tally = IF hold > 0 THEN [i \in Index |-> 0]
              ELSE IF idle >= AlwaysTicks[mode]
                   THEN [i \in Index |-> IF i = selChg THEN 0 ELSE MaxPkt[mode]]
                   ELSE pkt
  BY <1>t, <1>m DEF Tally, AfterSilence, Silent, Counted
<1>2. Hit \/ TicksLeft' < TicksLeft
  <2>1. SUFFICES ASSUME ~Hit PROVE TicksLeft' < TicksLeft
    OBVIOUS
  <2>2. mask' = mask /\ selChg' = selChg /\ NextSel' = Other(NextSel)
    <3>1. mask' = mask /\ selChg' = selChg
      BY <1>h, <2>1 DEF NewMask
    <3>2. NextSel' = IF mask[1] # mask[NextSel] THEN 1 ELSE 0
      BY <1>h, <3>1 DEF NextSel
    <3> QED
      BY <1>t, <3>1, <3>2 DEF Other, Index
  <2>3. hold' = (IF hold > 0 THEN hold - 1 ELSE 0)
        /\ idle' = (IF idle < MaxIdle THEN idle + 1 ELSE MaxIdle)
    BY <1>h, <2>1
  <2>4. Wait' = Larger(Larger(hold', AlwaysTicks[mode] - idle'), 0)
    BY <1>h DEF Wait, Larger
  <2>5. CASE Wait > 0
    <3>1. Wait' \in Nat /\ Wait' < Wait
      BY <1>t, <1>c, <2>3, <2>4, <2>5 DEF Wait, Larger
    <3>2. TicksLeft = Wait + 1
      BY <2>5 DEF TicksLeft
    <3>3. TicksLeft' \in Nat /\ TicksLeft' <= Wait' + 1
      <4>1. TicksLeft' = IF Wait' > 0 THEN Wait' + 1 ELSE IF NextSel' = selChg' THEN 1 ELSE 0
        BY DEF TicksLeft
      <4>2. \A x \in Nat, b \in BOOLEAN :
              LET y == IF x > 0 THEN x + 1 ELSE IF b THEN 1 ELSE 0 IN y \in Nat /\ y <= x + 1
        OBVIOUS
      <4> QED
        BY <3>1, <4>1, <4>2
    <3>4. \A x, y, t \in Nat : y < x /\ t <= y + 1 => t < x + 1
      OBVIOUS
    <3> QED
      BY <1>w, <3>1, <3>2, <3>3, <3>4
  <2>6. CASE Wait = 0
    <3>1. Wait' = 0
      BY <1>t, <1>c, <1>w, <2>3, <2>4, <2>6 DEF Larger
    <3>2. Tally = [i \in Index |-> IF i = selChg THEN 0 ELSE MaxPkt[mode]]
      BY <1>a, <1>w, <2>6, <1>t
    <3>3. NextSel = selChg
      <4>1. SUFFICES ASSUME NextSel # selChg PROVE FALSE
        OBVIOUS
      <4>2. Other(NextSel) = selChg
        BY <1>t, <4>1 DEF Other, Index
      <4>3. Tally[NextSel] = MaxPkt[mode] /\ Tally[Other(NextSel)] = 0
        BY <1>t, <3>2, <4>1, <4>2
      <4> QED
        BY <1>c, <1>m, <2>1, <4>3 DEF Hit
    <3>4. TicksLeft = 1 /\ TicksLeft' = 0
      BY <1>t, <2>2, <2>6, <3>1, <3>3 DEF TicksLeft
    <3> QED
      BY <3>4
  <2> QED
    BY <1>w, <2>5, <2>6
<1>3. Hit => pkt'[selChg'] = 0
  BY <1>t, <1>h
<1>4. ASSUME pkt[selChg] = 0 PROVE pkt'[selChg'] = 0 /\ (Hit => NextSel # selChg)
  <2>1. Tally[selChg] = 0 /\ Tally \in [Index -> 0..15]
    BY <1>t, <1>a, <1>4, TickFacts
  <2>2. Hit => NextSel # selChg
    <3> SUFFICES ASSUME NextSel = selChg PROVE ~Hit
      OBVIOUS
    <3>1. Tally[NextSel] = 0 /\ Tally[Other(NextSel)] \in 0..15
      BY <1>t, <2>1
    <3> QED
      BY <1>c, <1>m, <3>1 DEF Hit
  <2>3. ~Hit => pkt'[selChg'] = 0
    BY <1>t, <1>h, <2>1
  <2> QED
    BY <1>3, <2>2, <2>3
<1> QED
  BY <1>1, <1>2, <1>3, <1>4, <1>h, <1>w

\* In silence the dongle sweeps the band: at every tick of timer 1 that does not listen
\* on a given even channel, that channel comes nearer, counted in hits still pending from
\* before, hops of the nibble changed last, and ticks to the next hop, in this order.  No
\* silence is long enough for a device to hide on one of the eight channels.
THEOREM HopSweeps == Spec => Sweeps
<1>1. ASSUME IInv, HostTimer, Silence, NEW c \in Even, chan # c, chan' # c
      PROVE  Nearer(c)
  <2>t. /\ NextSel \in Index /\ Other(NextSel) \in Index /\ Other(NextSel) # NextSel
        /\ selChg \in Index /\ mask \in [Index -> Channel] /\ mask[0] # mask[1]
        /\ chan = mask[sel] /\ sel \in Index
    BY <1>1, TickFacts DEF IInv, TypeOK, TwoChannels, Silence
  <2>h. /\ chan' = mask[NextSel] /\ mask' = NewMask
        /\ selChg' = (IF Hit THEN Other(NextSel) ELSE selChg)
    BY <1>1 DEF HostTimer
  <2>s. /\ TicksLeft \in Nat /\ (Hit \/ TicksLeft' < TicksLeft)
        /\ Hit => pkt'[selChg'] = 0
        /\ pkt[selChg] = 0 => pkt'[selChg'] = 0 /\ (Hit => NextSel # selChg)
    BY <1>1, SilentTick
  <2>1. c # mask[0] /\ c # mask[1]
    BY <1>1, <2>t, <2>h DEF NextSel, Index
  <2>2. CASE ~Hit
    <3>1. mask' = mask /\ selChg' = selChg
      BY <2>2, <2>h DEF NewMask
    <3>2. HopsLeft(c)' = HopsLeft(c)
      BY <3>1 DEF HopsLeft, Steps
    <3>3. Astray' = Astray \/ Astray' < Astray
      BY <2>s DEF Astray
    <3> QED
      BY <2>2, <2>s, <3>2, <3>3 DEF Nearer
  <2>3. CASE Hit /\ pkt[selChg] # 0
    BY <2>3, <2>s DEF Nearer, Astray
  <2>4. CASE Hit /\ pkt[selChg] = 0
    <3>1. NextSel # selChg /\ Other(NextSel) = selChg /\ selChg' = selChg
      BY <2>4, <2>s, <2>t, <2>h DEF Other, Index
    <3>2. mask' = [mask EXCEPT ![selChg] = Replacement(@, mask[NextSel])]
      BY <2>4, <2>h, <3>1 DEF NewMask
    <3>3. mask'[selChg] = Replacement(mask[selChg], mask[NextSel])
          /\ mask'[NextSel] = mask[NextSel]
      BY <2>t, <3>1, <3>2
    <3>4. mask[selChg] \in Channel /\ mask[NextSel] \in Channel /\ c # mask[NextSel]
      BY <2>t, <2>1 DEF Index
    <3>5. Replacement(mask[selChg], mask[NextSel]) = c
          \/ Steps(Replacement(mask[selChg], mask[NextSel]), c) < Steps(mask[selChg], c)
      BY <3>4, HopNears, <1>1
    <3>6. HopsLeft(c) = Steps(mask[selChg], c) /\ HopsLeft(c) \in 1 .. 8
      BY <1>1, <2>1, <3>4, StepsType DEF HopsLeft
    <3>7. HopsLeft(c)' = IF c \in {mask'[0], mask'[1]} THEN 0 ELSE Steps(mask'[selChg], c)
      BY <3>1 DEF HopsLeft, Steps
    <3>8. HopsLeft(c)' < HopsLeft(c)
      <4>1. CASE c \in {mask'[0], mask'[1]}
        BY <3>6, <3>7, <4>1
      <4>2. CASE c \notin {mask'[0], mask'[1]}
        <5>1. mask'[selChg] # c
          BY <2>t, <4>2 DEF Index
        <5> QED
          BY <3>3, <3>5, <3>6, <3>7, <4>2, <5>1
      <4> QED
        BY <4>1, <4>2
    <3>9. Astray' = Astray
      BY <2>4, <2>s DEF Astray
    <3> QED
      BY <3>8, <3>9 DEF Nearer
  <2> QED
    BY <2>2, <2>3, <2>4
<1>2. IInv /\ [Next]_vars
        => [HostTimer /\ Silence
              => Silence' /\ \A c \in Even : chan = c \/ chan' = c \/ Nearer(c)]_vars
  <2> SUFFICES ASSUME IInv, HostTimer, Silence
               PROVE  Silence' /\ \A c \in Even : chan = c \/ chan' = c \/ Nearer(c)
    OBVIOUS
  <2> QED
    BY <1>1, SilentTick
<1> QED
  BY <1>2, Invariance, PTL DEF Spec, Sweeps
=============================================================================
