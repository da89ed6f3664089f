\* Both sides may restart: the keyboard sleeps or loses its battery, the dongle is
\* plugged in again; liveness under the fairness of the main loop.
\* Nobody has to press a key again: a keyboard in deep sleep may stay there.
CHECK_DEADLOCK FALSE
SPECIFICATION FairSpec
CONSTANTS
  SeqMod = 3
  TxRetry = 1
  RetryThresh = 3
  NoLink = 2
  SilenceLoops = 2
  BasicLoops = 3
  LongLoops = 2
  YoungLoops = 2
  MaxEvents = 2
  MaxBoots = 1
  MaxReplugs = 2
INVARIANTS TypeOK FreshSequence NeverGivesUp WaitDeepOnlyWhenLost
PROPERTIES BindingStable Delivers DeadRadioSleeps WaitDeepEnds IdHandedOver
