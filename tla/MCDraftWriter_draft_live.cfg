SPECIFICATION FairSpec
CONSTANTS
  Tabs = {a, b}
  Fresh = {a}
  Components = {c1}
  Schemas = {}
  Meta = {}
  MaxEdits = 3
  Stamps = FALSE
  Refusals = TRUE
  InOrder = TRUE
INVARIANTS
  OnlyOwnEdits
PROPERTIES
  HeldIsWritten
  Converges
CHECK_DEADLOCK FALSE
