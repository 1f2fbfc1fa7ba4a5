SPECIFICATION Spec
CONSTANTS
  Workers = {w1, w2}
  Modes = {"vulnerable", "patched"}
  Advances <- MCAdvances
  SessionLifetime = 120
  MaxEvidence = 9
  MaxClock = 270
  Nothing = Nothing
SYMMETRY Symmetry
INVARIANTS
  SynchronisationTimely
  DisclosureNeedsWholeChain
  CheckpointExact
PROPERTIES
  OneRecordPerChange
