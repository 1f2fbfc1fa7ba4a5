SPECIFICATION FairSpec
CONSTANTS
  Limits <- SmallLimits
  Width <- SmallWidth
  Digest <- SmallDigest
  Batches <- SmallBatches
  AllocationIds = {w1, w2}
  SiblingIdentities = {s1, s2}
  None = None
  MaxAdvances = 2
  MaxHandovers = 3
INVARIANTS
  CommitSound
  IdentitiesSound
PROPERTIES
  KeepsCustody
  EverythingReleased
