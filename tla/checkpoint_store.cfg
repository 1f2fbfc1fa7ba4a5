SPECIFICATION Spec
CONSTANTS
  s1 = s1  s2 = s2  g1 = g1  g2 = g2 
  Stores = {s1, s2}
  Generations = {g1, g2}
  MayStage <- Apart
  Providers <- FourProviders
  MaxFaults = 1
  MaxCrashes = 1
  Nothing = Nothing
CHECK_DEADLOCK FALSE
INVARIANTS
  GenerationsWhole
PROPERTIES
  RollBackDeletesOwn
