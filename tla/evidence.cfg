CONSTANTS
  c1 = c1
  c2 = c2
  Versions <- MCVersions
  Workflows <- MCWorkflows
  Inputs <- MCInputs
  Installed <- Version1
  Asked <- MCAsked
  Foreign <- MCForeign
  MaxMeddling = 3
SPECIFICATION BundleSpec
INVARIANTS
  BundleIsGenuine
  FinishedVerifies
  NothingPassesUnproved
PROPERTIES
  NothingOverwritten
CHECK_DEADLOCK FALSE
