SPECIFICATION AllSpec
CONSTANTS
  write = write  rewrite = rewrite  read = read  again = again
  k1 = k1  k2 = k2  k3 = k3
  Envelopes <- MCEnvelopes
  Key <- MCKey
  Permit <- MCPermit
  Writes <- MCWrites
  MaxRuns = 2
  Plans <- MCPlans
  MaxReplays = 2
  Nothing = Nothing
  Observers = {o1, o2}
  MaxRecords = 3
  MaxCalls = 3
  Driver = o1
  ObservedActions <- MCActions
CHECK_DEADLOCK FALSE
INVARIANTS
  RunCommitted
  OnceOnly
  ReplaySound
  ObservationSound
  QualifiedChain
PROPERTIES
  NoLateEffect
  ReplaysEnd
