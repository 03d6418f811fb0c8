SPECIFICATION Spec
CONSTANTS
  Catalogue <- Entries
  HomeOf <- Homes
  Drafts <- OtherTabs
  Domains = {"tables", "comments", "?"}
  MaxComponents = 2
  MaxSteps = 6
INVARIANTS TypeOK PanelsShowIt MountedIsCurrent EditsAreKept
CHECK_DEADLOCK FALSE
