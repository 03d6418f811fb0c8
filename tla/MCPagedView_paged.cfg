SPECIFICATION FairSpec
CONSTANTS
  Components <- FormTableList
  PAGE = 1
  Ops = {w1}
  None = None
  Failures = TRUE
  Held = 1
  MaxRow = 2
  MaxVersion = 3
  MaxScans = 1
INVARIANTS
  TypeOK
  AllShownIsAll
  OwnWritesAreShown
PROPERTIES
  LiveFollows
CHECK_DEADLOCK FALSE
