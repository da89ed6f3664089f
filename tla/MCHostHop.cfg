\* The hopping rules, every interleaving of frames, ticks and mode switches.
SPECIFICATION FairSpec
CONSTANTS
  Mask0 <- CustomMask
  MaxPkt <- ShortMaxPkt
  HitDiff <- ShortHitDiff
  AlwaysTicks <- ShortAlways
  HoldTicks = 1
  SupportKb = TRUE
INVARIANTS TypeOK TwoChannels ListensOnMask CountersFit
PROPERTIES Alternates HopKeepsCurrent SilenceSweepsAll
