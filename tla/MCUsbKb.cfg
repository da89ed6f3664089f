\* Frames arrive between any two steps of the main loop.
SPECIFICATION FairSpec
CONSTANT
  Keys <- FewKeys
INVARIANTS TypeOK StuckOnlyIfCrossed
PROPERTIES LostOnlyIfMixed ReleasedUnlessCrossed
