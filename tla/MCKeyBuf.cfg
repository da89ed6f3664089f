SPECIFICATION FairSpec
CONSTANTS
  Drive <- MCRows
  Scan <- MCRows
  KeyMap <- MCKeyMap
  None = "none"
  NumLock = {FALSE}
  FnKey <- MCFn
  Presses <- MCPresses
  RingSize = 2
  BufSize = 2
  MaxKeys = 2
  ReleaseScans = 4
  RepeatScans = 2
  MaxTouches = 3
INVARIANTS TypeOK LastTellsNow ReleaseNoticed
PROPERTIES NoGhosts LosesOnlyWhenStuck HeldIsTold
CHECK_DEADLOCK FALSE
