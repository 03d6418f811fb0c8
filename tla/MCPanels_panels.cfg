SPECIFICATION Spec
CONSTANTS
  BakedInfos <- SomeBuilds
  Reports <- SomeReports
  Stamps <- SomeStamps
  Blocks = {1, 2}
  K = 1
  Mounts = 2
INVARIANTS TypeOK PaintedIsCurrent VerdictsHold PagesAreClosed
PROPERTY OnlyWhatWasAsked
CHECK_DEADLOCK FALSE
