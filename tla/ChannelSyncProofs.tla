------------------------- MODULE ChannelSyncProofs -------------------------
(***************************************************************************)
(* Type correctness of ChannelSync, and BurstMeets for every mask, every   *)
(* threshold and every number of retries from two on.                      *)
(*                                                                         *)
(* The dongle's part is the invariant of HostHopProofs: a step of the      *)
(* composition is a step of HostHop or leaves it alone.  For the burst:    *)
(* as long as no tick has come the keyboard's mask is the dongle's, so the *)
(* second transmission, on the other nibble, is on the dongle's channel;   *)
(* a tick leaves the dongle on a nibble of the old mask, so that           *)
(* after the tick the same argument gives one more miss at most.           *)
(***************************************************************************)
EXTENDS ChannelSync, HostHopProofs

\* A step of the composition is one of the dongle's.
LEMMA StepsRefine == [SyncNext]_syncVars => [Next]_vars
<1>1. "kb" \in Device
  BY DEF Device
<1>2. QED
  BY <1>1 DEF SyncNext, syncVars, Loop, Restart, Tick, Answered, Missed, Next

LEMMA DongleKeeps == SyncSpec => []IInv
<1>1. SyncInit => IInv
  BY InitEstablishes DEF SyncInit
<1>2. IInv /\ [SyncNext]_syncVars => IInv'
  BY StepsRefine, StepKeeps
<1>3. QED
  BY <1>1, <1>2, PTL DEF SyncSpec

\* The keyboard stays in the band.
LEMMA FollowInBand ==
  ASSUME NEW m \in [Index -> Channel], NEW c \in Channel
  PROVE  Follow(m, c) \in Channel
<1>1. NextChannel(c) \in Channel
  BY NextChannelMoves
<1>2. m[0] \in Channel /\ m[1] \in Channel
  BY DEF Index
<1>3. QED
  BY <1>1, <1>2 DEF Follow

DeviceOK ==
  /\ known \in [Index -> Channel] /\ devChan \in Channel /\ miss \in 0 .. SearchTh
  /\ n \in 0 .. Retry + 1 /\ due \in 0 .. 2 /\ phase \in 0 .. Retry + 1
  /\ kind \in Kinds /\ loops \in Nat /\ outages \in 0 .. MaxOutages /\ waited \in Nat
FlagsOK == busy \in BOOLEAN /\ long \in BOOLEAN /\ agreed \in BOOLEAN

\* Transmissions end before the next loop, and a burst goes on while turns are left.
Turns == busy => due >= 1 /\ n <= Retry

LEMMA DeviceInit == SyncInit => DeviceOK /\ FlagsOK /\ Turns
<1> SUFFICES ASSUME SyncInit PROVE DeviceOK /\ FlagsOK /\ Turns
  OBVIOUS
<1>1. NoMask \in [Index -> Channel]
  BY DEF NoMask, Channel
<1>2. DeviceOK
  BY <1>1, SyncAssumption DEF SyncInit, DeviceOK, Channel, Kinds
<1>3. FlagsOK /\ Turns
  BY DEF SyncInit, FlagsOK, Turns
<1>4. QED
  BY <1>2, <1>3

LEMMA DeviceStep ==
  ASSUME IInv, DeviceOK, FlagsOK, Turns, [SyncNext]_syncVars
  PROVE  DeviceOK' /\ FlagsOK' /\ Turns'
<1> USE SyncAssumption
<1>1. NoMask \in [Index -> Channel] /\ mask \in [Index -> Channel] /\ 0 \in Channel
  BY DEF NoMask, Channel, IInv, TypeOK
<1>2. CASE Loop
  <2>1. UNCHANGED devVars /\ n' = 0 /\ due' \in 1 .. 2 /\ phase' \in 0 .. Retry + 1
    BY <1>2 DEF Loop
  <2>2. kind' \in Kinds /\ loops' \in Nat /\ outages' \in 0 .. MaxOutages /\ waited' \in Nat
    <3>1. kind' \in Kinds
      BY <1>2 DEF Loop, DeviceOK, Kinds
    <3>2. loops' \in Nat /\ waited' \in Nat
      BY <1>2 DEF Loop, DeviceOK
    <3>3. kind' # kind /\ kind' # "clear" => outages < MaxOutages
      BY <1>2 DEF Loop, Worse
    <3>4. QED
      BY <1>2, <3>1, <3>2, <3>3 DEF Loop, DeviceOK
  <2>3. DeviceOK'
    BY <2>1, <2>2 DEF DeviceOK, devVars
  <2>4. FlagsOK'
    BY <1>2 DEF Loop, FlagsOK
  <2>5. Turns'
    BY <2>1 DEF Turns
  <2>6. QED
    BY <2>3, <2>4, <2>5
<1>3. CASE Restart
  BY <1>1, <1>3 DEF Restart, timeVars, DeviceOK, FlagsOK, Turns
<1>4. CASE Tick
  BY <1>4 DEF Tick, TickNext, devVars, DeviceOK, FlagsOK, Turns
<1>5. CASE Answered
  <2>1. known' = mask /\ miss' = 0 /\ waited' = 0 /\ UNCHANGED <<devChan, n, timeVars>>
    BY <1>5 DEF Answered
  <2>2. busy' = FALSE
    BY <1>5 DEF Answered
  <2>3. DeviceOK'
    BY <1>1, <2>1 DEF timeVars, DeviceOK
  <2>4. FlagsOK' /\ Turns'
    BY <2>1, <2>2 DEF timeVars, FlagsOK, Turns
  <2>5. QED
    BY <2>3, <2>4
<1>6. CASE Missed
  <2>1. miss' \in 0 .. SearchTh /\ known' \in [Index -> Channel]
    BY <1>1, <1>6 DEF Missed, DeviceOK
  <2>2. devChan' \in Channel
    BY <1>6, <2>1, FollowInBand DEF Missed, DeviceOK
  <2>3. n' \in 0 .. Retry + 1 /\ waited' \in Nat /\ (busy' => n' <= Retry)
    <3>1. n' = n + 1 /\ n <= Retry /\ (busy' => n < Retry)
      BY <1>6 DEF Missed, Turns
    <3>2. waited' = waited + 1 \/ waited' = waited
      BY <1>6 DEF Missed
    <3>3. QED
      BY <3>1, <3>2 DEF DeviceOK
  <2>4. UNCHANGED timeVars /\ busy' \in BOOLEAN /\ busy
    BY <1>6 DEF Missed
  <2>5. DeviceOK' /\ FlagsOK'
    BY <2>1, <2>2, <2>3, <2>4 DEF timeVars, DeviceOK, FlagsOK
  <2>6. QED
    BY <2>3, <2>4, <2>5 DEF timeVars, Turns
<1>7. CASE UNCHANGED syncVars
  BY <1>7 DEF syncVars, devVars, timeVars, DeviceOK, FlagsOK, Turns
<1>8. QED
  BY <1>2, <1>3, <1>4, <1>5, <1>6, <1>7 DEF SyncNext
-----------------------------------------------------------------------------
\* From the first tick on the dongle listens on its mask.  A keyboard between two
\* loops that knows a mask has got it before that tick.
Tuned == due = 0 /\ known # NoMask => chan = mask[sel]

\* The burst of a keyboard that began it with the dongle's mask, in clear air.
InBurst == busy /\ agreed /\ kind = "clear"
Shares ==
  /\ known[0] # known[1]
  /\ devChan \in {known[0], known[1]}
  /\ chan \in {known[0], known[1]}
  /\ miss + 2 < SearchTh + n
BeforeTick == known = mask /\ n <= 1 /\ (n = 1 => devChan = chan)
AfterTick  == due = 1 /\ n <= 2 /\ (n = 2 => devChan = chan)
Burst == InBurst => Shares /\ (BeforeTick \/ AfterTick)

SInv == IInv /\ DeviceOK /\ FlagsOK /\ Turns /\ Tuned /\ Burst

\* A tick tunes the dongle to a nibble of the mask it had.
LEMMA TickTunes ==
  ASSUME IInv, HostTimer
  PROVE  chan' = mask'[sel'] /\ chan' \in {mask[0], mask[1]}
<1>1. /\ NextSel \in Index /\ Other(NextSel) # NextSel
      /\ Other(NextSel) \in Index
  BY TickFacts
<1>2. mask'[NextSel] = mask[NextSel]
  BY <1>1 DEF HostTimer, NewMask, IInv, TypeOK
<1>3. QED
  BY <1>1, <1>2 DEF HostTimer, Index

\* The next turn of a burst that has met nobody is on the dongle's channel.
LEMMA OtherNibble ==
  ASSUME SInv, InBurst, Missed
  PROVE  /\ n <= 1 /\ known' = known /\ devChan' = chan
         /\ miss' = miss + 1 /\ n' = n + 1
<1> USE SyncAssumption
<1>1. /\ Shares /\ (BeforeTick \/ AfterTick) /\ devChan # chan
  BY DEF SInv, Burst, InBurst, Missed, Meets
<1>2. n <= 1
  BY <1>1 DEF BeforeTick, AfterTick, SInv, DeviceOK
<1>3. miss + 1 < SearchTh
  BY <1>1, <1>2 DEF Shares, SInv, DeviceOK
<1>4. miss' = miss + 1 /\ n' = n + 1 /\ known' = known
  BY <1>3 DEF Missed, GivesUp, SInv, DeviceOK
<1>5. known # NoMask
  BY <1>1 DEF Shares, NoMask, Index
<1>6. devChan' = Follow(known, devChan)
  BY <1>4 DEF Missed
<1>7. devChan' = chan
  BY <1>1, <1>5, <1>6 DEF Follow, Shares
<1>8. QED
  BY <1>2, <1>4, <1>7

LEMMA BurstStep ==
  ASSUME SInv, [SyncNext]_syncVars
  PROVE  Tuned' /\ Burst'
<1> USE SyncAssumption
<1>1. CASE Loop
  <2>1. UNCHANGED <<vars, devVars>> /\ n' = 0 /\ due' \in 1 .. 2
    BY <1>1 DEF Loop
  <2>2. Tuned'
    BY <2>1 DEF Tuned
  <2>3. ASSUME InBurst' PROVE Shares' /\ BeforeTick'
    <3>1. known = mask /\ devChan \in {mask[0], mask[1]} /\ miss + 2 < SearchTh /\ due = 0
      BY <1>1, <2>3 DEF Loop, InBurst
    <3>2. mask[0] # mask[1]
      BY DEF SInv, IInv, TwoChannels
    <3>3. known # NoMask
      BY <3>1, <3>2 DEF NoMask, Index
    <3>4. chan = mask[sel] /\ sel \in Index
      BY <3>1, <3>3 DEF SInv, Tuned, IInv, TypeOK
    <3>5. chan \in {mask[0], mask[1]}
      BY <3>4 DEF Index
    <3>6. Shares'
      BY <2>1, <3>1, <3>2, <3>5 DEF Shares, vars, devVars, SInv, DeviceOK
    <3>7. BeforeTick'
      BY <2>1, <3>1 DEF BeforeTick, vars, devVars
    <3>8. QED
      BY <3>6, <3>7
  <2>4. QED
    BY <2>2, <2>3 DEF Burst
<1>2. CASE Restart
  BY <1>2 DEF Restart, timeVars, Tuned, Burst, InBurst
<1>3. CASE Tick
  <2>1. chan' = mask'[sel'] /\ chan' \in {mask[0], mask[1]}
    BY <1>3, TickTunes DEF Tick, SInv
  <2>2. Tuned'
    BY <2>1 DEF Tuned
  <2>3. ASSUME InBurst' PROVE Shares' /\ AfterTick'
    <3>1. /\ InBurst /\ due = 2 /\ due' = 1
          /\ UNCHANGED <<known, devChan, miss, n>>
      BY <1>3, <2>3 DEF Tick, TickNext, InBurst, devVars
    <3>2. Shares /\ BeforeTick
      BY <3>1 DEF SInv, Burst, AfterTick
    <3>3. Shares'
      BY <2>1, <3>1, <3>2 DEF Shares, BeforeTick
    <3>4. AfterTick'
      BY <3>1, <3>2 DEF BeforeTick, AfterTick, SInv, DeviceOK
    <3>5. QED
      BY <3>3, <3>4
  <2>4. QED
    BY <2>2, <2>3 DEF Burst
<1>4. CASE Answered
  <2>1. ~busy' /\ due' = due /\ due # 0
    BY <1>4 DEF Answered, timeVars, SInv, Turns, DeviceOK
  <2>2. QED
    BY <2>1 DEF Tuned, Burst, InBurst
<1>5. CASE Missed
  <2>1. due' = due /\ due # 0 /\ busy
    BY <1>5 DEF Missed, timeVars, SInv, Turns, DeviceOK
  <2>2. Tuned'
    BY <2>1 DEF Tuned
  <2>3. ASSUME InBurst' PROVE Shares' /\ (BeforeTick' \/ AfterTick')
    <3>1. InBurst
      BY <1>5, <2>1, <2>3 DEF InBurst, Missed, timeVars
    <3>2. /\ n <= 1 /\ known' = known /\ devChan' = chan
          /\ miss' = miss + 1 /\ n' = n + 1
      BY <1>5, <3>1, OtherNibble
    <3>3. chan' = chan /\ mask' = mask
      BY <1>5 DEF Missed, HostRx, radio, vars
    <3>4. Shares /\ (BeforeTick \/ AfterTick) /\ devChan # chan
      BY <1>5, <3>1 DEF SInv, Burst, InBurst, Missed, Meets
    <3>5. Shares'
      BY <3>2, <3>3, <3>4 DEF Shares, SInv, DeviceOK
    <3>6. CASE BeforeTick
      <4>1. n = 0
        BY <3>4, <3>6 DEF BeforeTick, SInv, DeviceOK
      <4>2. QED
        BY <4>1, <3>2, <3>3, <3>5, <3>6 DEF BeforeTick
    <3>7. CASE AfterTick
      <4>1. n \in Nat
        BY DEF SInv, DeviceOK
      <4>2. QED
        BY <4>1, <2>1, <3>2, <3>3, <3>5, <3>7 DEF AfterTick
    <3>8. QED
      BY <3>4, <3>5, <3>6, <3>7
  <2>4. QED
    BY <2>2, <2>3 DEF Burst
<1>6. CASE UNCHANGED syncVars
  <2>1. UNCHANGED <<mask, chan, sel, known, devChan, miss, busy, n, due, kind, agreed>>
    BY <1>6 DEF syncVars, vars, devVars, timeVars
  <2>2. Tuned'
    BY <2>1 DEF SInv, Tuned
  <2>3. Shares' = Shares /\ BeforeTick' = BeforeTick /\ AfterTick' = AfterTick
    BY <2>1 DEF Shares, BeforeTick, AfterTick
  <2>4. InBurst' => InBurst
    BY <2>1 DEF InBurst
  <2>5. QED
    BY <2>2, <2>3, <2>4 DEF SInv, Burst
<1>7. QED
  BY <1>1, <1>2, <1>3, <1>4, <1>5, <1>6 DEF SyncNext

LEMMA SyncInvariance == SyncSpec => []SInv
<1>1. SyncInit => Tuned /\ Burst
  BY DEF SyncInit, Tuned, Burst, InBurst
<1>2. SyncInit => SInv
  BY <1>1, DeviceInit, InitEstablishes DEF SInv, SyncInit
<1>3. SInv /\ [SyncNext]_syncVars => SInv'
  BY StepsRefine, StepKeeps, DeviceStep, BurstStep DEF SInv
<1>4. QED
  BY <1>2, <1>3, PTL DEF SyncSpec

\* Type correctness of the two sides together.
THEOREM SyncTypeCorrect == SyncSpec => []SyncTypeOK
<1>1. SInv => SyncTypeOK
  BY DEF SInv, IInv, DeviceOK, FlagsOK, SyncTypeOK
<1>2. QED
  BY <1>1, SyncInvariance, PTL

\* device_send_packet with three transmissions or more does not leave the dongle
\* unmet as long as the keyboard began with the dongle's mask and the air is clear.
THEOREM SyncBurstMeets == SyncSpec => BurstMeets
<1>1. SInv /\ [SyncNext]_syncVars
        => [agreed /\ kind = "clear" /\ busy /\ ~busy' => known' = mask /\ miss' = 0]_syncVars
  <2> SUFFICES ASSUME SInv, [SyncNext]_syncVars, InBurst, ~busy'
               PROVE  known' = mask /\ miss' = 0
    BY DEF InBurst
  <2>1. CASE Answered
    BY <2>1 DEF Answered
  <2>2. CASE Missed
    <3>1. n <= 1
      BY <2>2, OtherNibble
    <3>2. busy' = (n < Retry)
      BY <2>2 DEF Missed
    <3>3. n < Retry
      BY <3>1, SyncAssumption DEF SInv, DeviceOK
    <3>4. QED
      BY <3>2, <3>3
  <2>3. CASE Loop \/ Restart \/ Tick \/ UNCHANGED syncVars
    BY <2>3 DEF Loop, Restart, Tick, syncVars, InBurst
  <2>4. QED
    BY <2>1, <2>2, <2>3 DEF SyncNext
<1>2. QED
  BY <1>1, SyncInvariance, PTL DEF SyncSpec, BurstMeets
=============================================================================
