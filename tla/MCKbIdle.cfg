\* Pairing, LED and battery warning against the sleep machine, times shortened.
\* Nobody has to press a key again: a keyboard in deep sleep may stay there.
SPECIFICATION FairSpec
CONSTANTS
  On <- ShortOn
  Off <- ShortOff
  Rep <- ShortRep
  Prio <- RealPrio
  BasicLoops = 4
  LongLoops = 1
  CheckLoops = 9
  DetectLoops = 2
  DetectMod = 4
  NoLink = 3
  PairFrom = 1
  PairMost = 3
  NoQuick = 5
  SilenceLoops = 2
INVARIANTS LedDark BlinkMeansPairing UnusedSleeps
PROPERTIES LowBatteryTold
