SPECIFICATION FairSpec
CONSTANTS
  c1 = c1  c2 = c2  c3 = c3  w1 = w1  w2 = w2  w3 = w3
  None = None
  Clients = {c1, c2}
  WorldIds = {w1, w2, w3}
  Handles <- AllHandles
  Targets = {"target"}
  Roots = {"r1"}
  Contents = {"x", "y"}
  Labels = {"l1"}
  Operations = {"prepare", "fork", "create_ghost", "snapshot", "restore", "destroy", "transition"}
  Destinations = {"FROZEN", "PRUNED", "REPLAY"}
  MaxCalls = 3
INVARIANTS
  CatalogSound
  NoStaleCommit
  Ownership
  DestroysOnlyItsOwn
PROPERTIES
  WorldHistory
  CommandsFinish
