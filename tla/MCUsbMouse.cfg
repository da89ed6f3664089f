SPECIFICATION FairSpec
CONSTANTS
  Size = 4
  FrameMax = 2
  DebounceLen = 1
  MaxSamples = 6
INVARIANTS NothingStuck
PROPERTIES SentInOrder EndsStill
CHECK_DEADLOCK FALSE
