SPECIFICATION FairSpec
CONSTANTS
  Publishers = {p}
  Domains = {d, e}
  Places = {x, y}
  SeedPlaces = {x}
  None = None
  Room = 2
  MaxLosses = 2
  MaxEdits = 2
  MaxReloads = 1
INVARIANTS
  TypeOK
  SettledIsThePreview
  DoneIsLive
PROPERTIES
  LiveIsCreateOnly
  HandoffEnds
CHECK_DEADLOCK FALSE
