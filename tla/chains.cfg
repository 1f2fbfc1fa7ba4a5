SPECIFICATION AllSpec
CONSTANTS
  Workers = {w1}
  Worker = w1
  Modes = {"vulnerable", "patched"}
  Advances <- PlannedAdvances
  SessionLifetime = 3600
  MaxEvidence = 9
  MaxClock = 300
  MaxFaults = 1
  Nothing = Nothing
  Writes = {"share"}
  Primary <- LoginShare
  Images = {"first", "second", "stale"}
  Revision <- LabelOf
  Marker = "rev1"
  PlannedRuns <- ThreeKinds
  Providers <- TwoProviders
  Winner <- WinnerState
  MaxMishaps = 2
  MaxRebuilds = 1
  None = None
INVARIANTS
  ReportSound
  QualifiedSound
PROPERTIES
  RunsDoNotOverlap
  ChainsEnd
CHECK_DEADLOCK FALSE
