SPECIFICATION FairSpec
CONSTANTS
  Opens = {o1, o2}
  Mounts = {m1, m2}
  Rows = {}
  None = None
  MadeHere = FALSE
  ReadFailures = FALSE
  MaxGen = 2
INVARIANTS
  OneMountPaints
PROPERTIES
  WhatIsBegunEnds
CHECK_DEADLOCK FALSE
