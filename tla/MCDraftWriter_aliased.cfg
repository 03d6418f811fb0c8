SPECIFICATION Spec
CONSTANTS
  Tabs = {a, b}
  Fresh = {}
  Components = {}
  Schemas = {d1}
  Meta = {}
  MaxEdits = 3
  Stamps = FALSE
  Refusals = FALSE
  InOrder = TRUE
INVARIANTS
  SchemaEditsAreWritten
CHECK_DEADLOCK FALSE
