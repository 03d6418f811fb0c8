SPECIFICATION FairSpec
CONSTANTS
  Projects = {1, 2}
  MadeEarlier = {1}
  Unstamped = {}
  PublishedOnes = {1}
  None = None
  MaxRuns = 2
  MaxPuts = 1
INVARIANTS TypeOK WordsHold StampedOnce
PROPERTY StartsSomewhere
CHECK_DEADLOCK FALSE
