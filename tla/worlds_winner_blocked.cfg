SPECIFICATION Spec
CONSTANTS
  c1 = c1  c2 = c2  c3 = c3  w1 = w1  w2 = w2  w3 = w3
  None = None
  Clients = {c1, c2}
  WorldIds = {w1, w2, w3}
  Handles <- ClashingHandles
  Targets = {"target"}
  Roots = {"r1"}
  Contents = {"x"}
  Labels = {"l1"}
  Operations = {"prepare"}
  Destinations = {}
  MaxCalls = 2
INVARIANT
  WinnerCommits
