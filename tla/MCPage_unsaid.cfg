SPECIFICATION Spec
CONSTANTS
  Projects = {1, 2}
  MadeEarlier = {1}
  Unstamped = {}
  PublishedOnes = {1}
  None = None
  MaxRuns = 2
  MaxPuts = 1
INVARIANT FailedPutIsSaid
CHECK_DEADLOCK FALSE
