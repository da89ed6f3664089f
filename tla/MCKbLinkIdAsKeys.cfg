\* The id of the keyboard read as keycodes.
\* Nobody has to press a key again: a keyboard in deep sleep may stay there.
CHECK_DEADLOCK FALSE
SPECIFICATION Spec
CONSTANTS
  SeqMod = 4
  TxRetry = 1
  RetryThresh = 4
  NoLink = 3
  SilenceLoops = 1
  BasicLoops = 2
  LongLoops = 2
  YoungLoops = 3
  MaxEvents = 1
  MaxBoots = 0
  MaxReplugs = 1
PROPERTIES NoIdAsKeys
