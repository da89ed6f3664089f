\* Manual pairing with a device far away.
SPECIFICATION Spec
CONSTANTS
  Modes <- ManualOnly
  MaxSlots = 2
  IdBytes = 2
  Bits <- TwoBits
  Ids <- Two
  IdCheck = TRUE
  Weak = FALSE
  Cavy = FALSE
INVARIANT OnlyNearPairs

