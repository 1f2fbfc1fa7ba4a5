SPECIFICATION FairSpec
CONSTANTS
  Clients = {c1, c2}
  Envs = {e1, e2}
  Snaps = {s1, s2}
  Images = {i1, i2}
  Markers = {"marked"}
  Real = TRUE
  MaxStarts = 4
  MaxRetags = 1
  None = None
CHECK_DEADLOCK FALSE
INVARIANTS
  LocksSound
  Accounted
  ArchivesPinned
PROPERTIES
  ExactOnReturn
  OperationsEnd
