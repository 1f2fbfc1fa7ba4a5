SPECIFICATION Spec
CONSTANTS
  s1 = s1  s2 = s2  g1 = g1  g2 = g2 
  Stores = {s1, s2}
  Generations = {g1}
  MayStage <- Together
  Providers <- TwoProviders
  MaxFaults = 0
  MaxCrashes = 0
  Nothing = Nothing
CHECK_DEADLOCK FALSE
PROPERTIES
  RollBackDeletesOwn
