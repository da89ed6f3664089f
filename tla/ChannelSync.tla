---------------------------- MODULE ChannelSync ----------------------------
(***************************************************************************)
(* The keyboard and the dongle on the eight channels: HostHop together     *)
(* with the channel choice of device_send_packet and irq_device_rx,        *)
(* src/tlsdk/vendor/keyboard_remington/kb_rf.c.                            *)
(*                                                                         *)
(* The keyboard follows the mask of the last answer; after                 *)
(* LL_CHANNEL_SEARCH_TH misses it walks through all channels until it      *)
(* meets the dongle, which alternates between two of them and hops.        *)
(*                                                                         *)
(* Time.  A loop of the keyboard takes 12 ms, a slot of the dongle 8 ms:   *)
(* from one loop to the next timer 1 ticks once and twice, in turn.  When  *)
(* it is twice, the first tick may fall between the transmissions of the   *)
(* loop (which take less than half a slot): after how many, nobody says.   *)
(* An answer that is ignored because it carries the tick of the one before *)
(* counts as lost.                                                         *)
(***************************************************************************)
EXTENDS HostHop

CONSTANTS
  Retry,      \* tx_retry: a burst has Retry + 1 transmissions
  SearchTh,   \* LL_CHANNEL_SEARCH_TH, 60
  MaxWait,    \* the loops the keyboard has to wait for an answer when the air is clear
  MaxOutages, \* bound: how often frames or answers get lost, or the keyboard is silent
  MaxLoops    \* bound: how many loops that lasts

Kinds == {"clear", "jam", "deaf", "quiet"}
NoMask == [i \in Index |-> 0]   \* LL_CHANNEL_SEARCH_FLAG, whose nibbles are zero

ASSUME SyncAssumption ==
  /\ Retry \in Nat /\ Retry >= 2 /\ SearchTh \in Nat \ {0}
  /\ MaxWait \in Nat /\ MaxOutages \in Nat /\ MaxLoops \in Nat

VARIABLES
  known,    \* ll_chn_mask of the keyboard
  devChan,  \* device_channel
  miss,     \* ack_miss_no, as far as LL_CHANNEL_SEARCH_TH
  busy, n,  \* device_send_packet is at work, in its turn n
  due,      \* ticks of timer 1 until the next loop
  long,     \* whether the next loop is two ticks away, or one
  phase,    \* the transmissions before the first of two ticks
  kind,     \* this loop: frames get lost, answers get lost, there is nothing to send
  loops, outages, \* how long it has been so, how often it has changed for the worse
  agreed,   \* the keyboard began the burst with the dongle's mask, and keeps it
  waited    \* loops in clear air without an answer

devVars  == <<known, devChan, miss>>
timeVars == <<due, long, phase, kind, loops, outages, agreed>>
syncVars == <<vars, devVars, busy, n, timeVars, waited>>

SyncInit ==
  /\ Init
  /\ known = NoMask /\ devChan = 0 /\ miss = 0
  /\ busy = FALSE /\ n = 0
  /\ due = 0 /\ long \in BOOLEAN /\ phase = 0
  /\ kind = "clear" /\ loops = 0 /\ outages = 0 /\ agreed = FALSE /\ waited = 0
-----------------------------------------------------------------------------
\* get_next_channel_with_mask on the keyboard.
FollowStays(m, c) == IF m = NoMask THEN NextChannel(c) ELSE c  \* mutant: stays on the channel
Follow(m, c) ==
  IF m = NoMask THEN NextChannel(c) ELSE IF m[1] # c THEN m[1] ELSE m[0]

\* The loop of the keyboard begins.  An outage ends when it likes.
Worse == outages < MaxOutages /\ kind = "clear"
Loop ==
  /\ ~busy /\ due = 0
  /\ kind' \in {"clear"} \cup (IF loops < MaxLoops THEN {kind} ELSE {})
                         \cup (IF Worse THEN Kinds ELSE {})
  /\ loops' = IF kind' = "clear" THEN 0 ELSE loops + 1
  /\ outages' = IF kind' # kind /\ kind' # "clear" THEN outages + 1 ELSE outages
  /\ busy' = (kind' # "quiet") /\ n' = 0
  /\ due' = (IF long THEN 2 ELSE 1) /\ long' = ~long
  /\ agreed' = /\ known = mask /\ devChan \in {mask[0], mask[1]}
               /\ miss + 2 < SearchTh
  /\ waited' = IF kind' = "clear" THEN waited ELSE 0
  /\ phase' \in (IF long THEN 0 .. Retry + 1 ELSE {0})
  /\ UNCHANGED <<vars, devVars>>

\* With nothing to send for long the keyboard goes to deep sleep, which is a reset.
Restart ==
  /\ ~busy /\ kind = "quiet"
  /\ known' = NoMask /\ devChan' = 0 /\ miss' = 0
  /\ UNCHANGED <<vars, busy, n, timeVars, waited>>

\* irq_host_timer1.
TickNext == due > 0 /\ (busy => due = 2 /\ n = phase)
Tick ==
  /\ TickNext
  /\ HostTimer
  /\ due' = due - 1
  /\ UNCHANGED <<devVars, busy, n, long, phase, kind, loops, outages, agreed, waited>>

Meets == devChan = chan /\ kind # "jam"

\* irq_device_rx within the window of a transmission: the answer carries chn_mask.
Answered ==
  /\ busy /\ ~TickNext /\ Meets /\ kind = "clear"
  /\ HostRx("kb")
  /\ known' = mask /\ miss' = 0 /\ busy' = FALSE /\ waited' = 0
  /\ UNCHANGED <<devChan, n, timeVars>>

\* A turn of the loop of device_send_packet without an answer.
GivesUp(k) == k >= SearchTh
Missed ==
  /\ busy /\ ~TickNext /\ ~(Meets /\ kind = "clear")
  /\ IF Meets THEN HostRx("kb") ELSE UNCHANGED vars
  /\ miss' = IF miss < SearchTh THEN miss + 1 ELSE miss
  /\ known' = IF GivesUp(miss') THEN NoMask ELSE known
  /\ devChan' = Follow(known', devChan)
  /\ n' = n + 1 /\ busy' = (n < Retry)
  /\ waited' = IF n = Retry /\ kind = "clear" THEN waited + 1 ELSE waited
  /\ UNCHANGED timeVars

SyncNext == Loop \/ Restart \/ Tick \/ Answered \/ Missed
SyncSpec == SyncInit /\ [][SyncNext]_syncVars
-----------------------------------------------------------------------------
SyncTypeOK ==
  /\ TypeOK
  /\ known \in [Index -> Channel] /\ devChan \in Channel /\ miss \in 0 .. SearchTh
  /\ busy \in BOOLEAN /\ n \in 0 .. Retry + 1
  /\ due \in 0 .. 2 /\ phase \in 0 .. Retry + 1 /\ {long, agreed} \subseteq BOOLEAN
  /\ kind \in Kinds /\ loops \in Nat /\ outages \in 0 .. MaxOutages
  /\ waited \in Nat

\* A keyboard that knows the mask of the dongle needs one burst: three transmissions
\* reach it also when timer 1 ticks in between, and even when that tick changes the
\* mask.
BurstMeets == [][agreed /\ kind = "clear" /\ busy /\ ~busy' => known' = mask /\ miss' = 0]_syncVars

\* However long frames or answers were lost or the keyboard was silent, however often
\* the dongle has hopped away meanwhile and goes on hopping: once the air is clear
\* the two meet again soon.  The search alone does not bring them together (its walk
\* and the alternation of the dongle may be in step, and it never tries an odd channel
\* of a custom mask); the hop of the silent dongle does.
MeetsSoon == waited <= MaxWait
=============================================================================
