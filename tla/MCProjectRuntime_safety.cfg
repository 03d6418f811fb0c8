SPECIFICATION Spec
CONSTANTS
  Opens = {o1, o2}
  Mounts = {m1, m2, m3}
  Rows = {r1}
  None = None
  MadeHere = FALSE
  ReadFailures = TRUE
  MaxGen = 2
INVARIANTS
  TypeOK
  OneSession
  NoStaleMount
  NeverHalfCopied
  PublishedIsShown
  SaidIsSo
SYMMETRY Symmetry
CHECK_DEADLOCK FALSE
