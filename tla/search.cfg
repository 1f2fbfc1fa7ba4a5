SPECIFICATION AllSpec
CONSTANTS
  Limits <- SmallLimits
  Width <- Beams
  Digest <- SmallDigest
  Ids = {"a", "b", "c", "d"}
  Scores <- FourScores
  Families <- TwoFamilies
  Batches <- GhostBatches
  Submissions <- AllBatches
  AllocationIds <- Names
  SiblingIdentities <- Names
  None = None
  MaxAdvances = 3
  MaxHandovers = 4
INVARIANTS
  LedgerSound
  BeamSound
  SearchQualified
PROPERTIES
  M4Ends
CHECK_DEADLOCK FALSE
