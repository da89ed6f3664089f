\* A full table.
SPECIFICATION Spec
CONSTANTS
  Modes <- SoftOnly
  MaxSlots = 2
  IdBytes = 2
  Bits <- TwoBits
  Ids <- Two
  IdCheck = TRUE
  Weak = FALSE
  Cavy = FALSE

PROPERTY OkMeansBound
