------------------------------ MODULE HostHop ------------------------------
(***************************************************************************)
(* Frequency hopping of the dongle (the "host" of the radio link),         *)
(* src/tlsdk/vendor/link_layer/rf_ll.c.                                    *)
(*                                                                         *)
(* The dongle listens on two channels in turn, the two nibbles of chn_mask.*)
(* At every tick of timer 1 (8 ms) it moves to the other channel, and may  *)
(* replace the channel it is NOT listening on when that one has delivered  *)
(* clearly fewer frames, or when nothing was heard for a while.  The       *)
(* acknowledgement of every frame carries chn_mask, so that the keyboard   *)
(* and the mouse follow.  Radio and timer are served by one interrupt      *)
(* handler that does not nest, so each of the two is one atomic action.    *)
(***************************************************************************)
EXTENDS Integers

CONSTANTS Mask0,        \* the two channels at power-up: chn_mask or channel_mask_custom
          MaxPkt,       \* [Mode -> Nat] frq_hp_chn_pkt_rcvd_max
          HitDiff,      \* [Mode -> Nat] frq_hp_hit_diff_num
          AlwaysTicks,  \* [Mode -> Nat] fre_hp_always_time_us in ticks of timer 1
          HoldTicks,    \* ticks without counting after a change (ll_chn_hold = 4)
          SupportKb     \* dongle_support_keyboard_enable

Channel == 0..15
Index   == 0..1                 \* 0: low nibble, 1: high nibble of chn_mask
Mode    == {"normal", "slow"}   \* FRQ_HOPPING_MODE_NORMAL, FRQ_HOPPING_MODE_SLOW
Device  == {"mouse", "kb", "other"}
Larger(a, b) == IF a < b THEN b ELSE a
MaxIdle == Larger(AlwaysTicks["normal"], AlwaysTicks["slow"])

ASSUME HopAssumption ==
  /\ Mask0 \in [Index -> Channel] /\ Mask0[0] # Mask0[1]
  /\ MaxPkt \in [Mode -> 1..15]
  /\ HitDiff \in [Mode -> Nat]
  /\ AlwaysTicks \in [Mode -> Nat \ {0}]
  /\ HoldTicks \in Nat
  /\ SupportKb \in BOOLEAN
\* The counters a silence pretends make a hit: 2 of 8, 8 of 10.
ASSUME SilenceAssumption == \A m \in Mode : HitDiff[m] < MaxPkt[m]

VARIABLES
  mask,      \* [Index -> Channel]: chn_mask
  chan,      \* host_channel
  sel,       \* ll_chn_sel: the nibble the dongle listens on
  pkt,       \* [Index -> Nat]: ll_chn_pkt
  hold,      \* ll_chn_hold
  selChg,    \* ll_chn_sel_chg: the nibble changed last
  idle,      \* ticks since tick_fh, capped at MaxIdle
  heard,     \* device_packet_received: 0, 1, or 2 for "more than one"
  mode,      \* frq_hp_mode
  kbLocal,   \* PKT_RCVD_FLG_KB_LOCAL
  mouseLocal,\* PKT_RCVD_FLG_MOUSE_LOCAL
  mouse      \* "never", "recent" or "old": PKT_RCVD_FLG_MOUSE_GLOBAL and its age

radio  == <<mask, chan, sel, selChg>>
counts == <<pkt, hold, idle>>
seen   == <<kbLocal, mouseLocal, mouse>>
vars   == <<mask, chan, sel, selChg, pkt, hold, idle, heard, mode,
            kbLocal, mouseLocal, mouse>>

Init ==
  /\ mask = Mask0
  /\ chan = 0 /\ sel = 0 /\ selChg = 0
  /\ pkt = [i \in Index |-> 0]
  /\ hold = 0 /\ idle = 0 /\ heard = 0
  /\ mode = "normal"
  /\ kbLocal = FALSE /\ mouseLocal = FALSE /\ mouse = "never"
-----------------------------------------------------------------------------
Other(i) == 1 - i

\* LL_NEXT_CHANNEL(c): (c + 6) & 14, a walk through the eight even channels.
NextChannelUnwrapped(c) == ((c + 6) \div 2) * 2  \* mutant: no & 14
NextChannel(c) == (((c + 6) \div 2) * 2) % 16

\* get_next_channel_with_mask on the host: the high nibble unless already there.
\* (The search flag is bit 16 and chn_mask is eight bits wide.)
NextSelBlind == IF mask[1] # mask[0] THEN 1 ELSE 0  \* mutant: compares the nibbles
NextSel == IF mask[1] # chan THEN 1 ELSE 0

\* The for loop of update_channel_mask: the first channel after c that is not
\* the one in use.  Two rounds at most, as NextChannel has no fixed point.
ReplacementBlind(c, inUse) == NextChannel(c)  \* mutant: ignores the channel in use
Replacement(c, inUse) ==
  IF NextChannel(c) # inUse THEN NextChannel(c) ELSE NextChannel(NextChannel(c))

\* frq_hopping_mode_switch: slow hopping while only a keyboard is talking.
NextMode ==
  CASE ~SupportKb -> mode
    [] SupportKb /\ mode = "normal" /\ kbLocal /\ mouse # "recent" -> "slow"
    [] SupportKb /\ mode = "slow" /\ mouseLocal -> "normal"
    [] OTHER -> mode

\* irq_host_timer1 counts a hit for the slot that ends only if exactly one
\* frame was received in it.
Counted == IF heard = 1 THEN [pkt EXCEPT ![sel] = @ + 1] ELSE pkt

\* CHANNEL_HOPPING_ALWAYS: after a long silence pretend that the nibble changed
\* last is bad and the other one good.
NeverSilent == FALSE  \* mutant: CHANNEL_HOPPING_ALWAYS off
Silent == heard # 1 /\ idle >= AlwaysTicks[NextMode]

AfterSilence ==
  IF Silent THEN [i \in Index |-> IF i = selChg THEN 0 ELSE MaxPkt[NextMode]]
  ELSE Counted

\* While a change is held nothing is counted.
Tally == IF hold > 0 THEN [i \in Index |-> 0] ELSE AfterSilence

\* hit_th: the nibble now listened on did so much better than the other one
\* that the other one has to go.
Hit == Tally[NextSel] - Tally[Other(NextSel)] > HitDiff[NextMode]

FullAbove == Tally[NextSel] > MaxPkt[NextMode]  \* mutant: > for >=
Full == Tally[NextSel] >= MaxPkt[NextMode]

\* update_channel_mask: a hit replaces the nibble not listened on.
NewMaskOwn ==  \* mutant: replaces the nibble listened on
  IF Hit THEN [mask EXCEPT ![NextSel] = Replacement(@, mask[Other(NextSel)])] ELSE mask
NewMask ==
  IF Hit THEN [mask EXCEPT ![Other(NextSel)] = Replacement(@, mask[NextSel])] ELSE mask

SinceHeard == IF heard = 1 THEN 0 ELSE idle

\* irq_host_timer1 with get_next_channel_with_mask and update_channel_mask.
HostTimer ==
  /\ sel' = NextSel
  /\ chan' = mask[NextSel]
  /\ mode' = NextMode
  /\ mask' = NewMask
  /\ selChg' = IF Hit THEN Other(NextSel) ELSE selChg
  /\ hold' = IF Hit THEN HoldTicks ELSE IF hold > 0 THEN hold - 1 ELSE 0
  /\ pkt' = IF Hit \/ Full THEN [i \in Index |-> 0] ELSE Tally
  /\ idle' = IF Hit THEN 0
             ELSE IF SinceHeard < MaxIdle THEN SinceHeard + 1 ELSE MaxIdle
  /\ heard' = 0
  /\ IF SupportKb THEN kbLocal' = FALSE /\ mouseLocal' = FALSE
                  ELSE UNCHANGED <<kbLocal, mouseLocal>>
  /\ UNCHANGED mouse

\* irq_host_rx: a frame with a good checksum.  rf_rx_response notes data frames
\* of the mouse and of the keyboard; "other" is a frame on the pairing pipe.
HostRx(dev) ==
  /\ heard' = IF heard < 2 THEN heard + 1 ELSE 2
  /\ kbLocal' = (kbLocal \/ dev = "kb")
  /\ mouseLocal' = (mouseLocal \/ dev = "mouse")
  /\ mouse' = IF dev = "mouse" THEN "recent" ELSE mouse
  /\ UNCHANGED <<radio, counts, mode>>

\* Five seconds pass after the last mouse frame (MOUSE_PKT_5S_NO_COME); the next
\* tick, 8 ms after the frame, has taken PKT_RCVD_FLG_MOUSE_LOCAL down by then.
MouseAges ==
  /\ mouse = "recent" /\ ~mouseLocal
  /\ mouse' = "old"
  /\ UNCHANGED <<radio, counts, heard, mode, kbLocal, mouseLocal>>

Next == HostTimer \/ MouseAges \/ \E dev \in Device : HostRx(dev)

Spec     == Init /\ [][Next]_vars
\* Timer 1 keeps ticking.
FairSpec == Spec /\ WF_vars(HostTimer)
-----------------------------------------------------------------------------
TypeOK ==
  /\ mask \in [Index -> Channel]
  /\ chan \in Channel
  /\ sel \in Index
  /\ selChg \in Index
  /\ pkt \in [Index -> 0..15]
  /\ hold \in 0..HoldTicks
  /\ idle \in 0..MaxIdle
  /\ heard \in 0..2
  /\ mode \in Mode
  /\ kbLocal \in BOOLEAN
  /\ mouseLocal \in BOOLEAN
  /\ mouse \in {"never", "recent", "old"}

\* Hopping never folds the two channels into one: whatever counters, silences
\* and mode switches do to update_channel_mask, the nibbles stay distinct.
TwoChannels == mask[0] # mask[1]

\* The dongle listens on one of the two channels it announces, and ll_chn_sel
\* says which; otherwise hits would be booked on the wrong nibble.  Only before
\* the first tick may a custom mask leave host_channel (0) outside the mask.
ListensOnMask == chan = mask[sel] \/ (chan = 0 /\ mask = Mask0 /\ sel = 0)

\* The per-channel counters never leave four bits: the acknowledgement packs
\* both into one byte (field per) with & 0xf, which would otherwise truncate.
CountersFit ==
  \A i \in Index : pkt[i] <= Larger(MaxPkt["normal"], MaxPkt["slow"])

\* Every tick really moves: the dongle never stays two slots on one channel, so
\* a device that keeps sending on either channel of the mask is met within two.
Alternates == [][HostTimer => chan' # chan]_vars

\* A hop never takes away the channel the dongle has just tuned to, so a device
\* that knows the mask from before the hop still shares a channel with it.
HopKeepsCurrent ==
  [][mask' # mask => /\ mask'[sel'] = mask[sel'] /\ chan' = mask'[sel']]_vars

\* If from some point on no frame is heard, the dongle still visits every one
\* of the eight even channels again and again (CHANNEL_HOPPING_ALWAYS): a
\* device stuck on any of them is found.
Even == {2 * k : k \in 0..7}
NoMoreFrames == <>[][\A dev \in Device : ~HostRx(dev)]_vars
SilenceSweepsAll == NoMoreFrames => \A c \in Even : []<>(chan = c)
=============================================================================
