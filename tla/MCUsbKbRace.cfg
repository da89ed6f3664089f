\* What the timeout promises, whatever frames and main loop do to each other.
SPECIFICATION FairSpec
CONSTANT
  Keys <- LessKeys
PROPERTY AllReleased
