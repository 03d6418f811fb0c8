SPECIFICATION FairSpec
CONSTANTS
  Pieces = {1, 2, 3}
  K = 2
  Modules <- SdkModules
  Starter <- StarterModules
  Apps = {"empty", "publisher", "mine", "code", "lostCode"}
INVARIANTS TypeOK LinkOpens DoneIsSo
PROPERTY KeepsItsPromise
CHECK_DEADLOCK FALSE
