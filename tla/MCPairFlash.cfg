\* Cells that hold what they are given; power fails at any time.
SPECIFICATION Spec
CONSTANTS
  Modes <- Both
  MaxSlots = 2
  IdBytes = 2
  Bits <- TwoBits
  Ids <- Three
  IdCheck = TRUE
  Weak = FALSE
  Cavy = FALSE
INVARIANTS TypeOK ProgramsErased OkNeverWraps RestartKeeps
PROPERTY Stores
