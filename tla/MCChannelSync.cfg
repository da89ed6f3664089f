\* The keyboard follows, loses and finds the dongle; clock limits are shortened.
SPECIFICATION SyncSpec
CONSTANTS
  Mask0 <- CustomMask
  MaxPkt <- ShortMaxPkt
  HitDiff <- ShortHitDiff
  AlwaysTicks <- Always
  HoldTicks = 2
  SupportKb = TRUE
  Retry = 2
  SearchTh = 9
  MaxWait = 22
  MaxOutages = 2
  MaxLoops = 9
INVARIANTS MeetsSoon
PROPERTIES BurstMeets
