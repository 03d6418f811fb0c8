SPECIFICATION Spec
CONSTANTS
  Tabs = {a, b}
  Fresh = {}
  Components = {c1}
  Schemas = {d1}
  Meta = {m}
  MaxEdits = 3
  Stamps = TRUE
  Refusals = FALSE
  InOrder = TRUE
INVARIANTS
  TypeOK
  OnlyOwnEdits
  NeverSilentlyStale
SYMMETRY TabSymmetry
CHECK_DEADLOCK FALSE
