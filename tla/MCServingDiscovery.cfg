SPECIFICATION FairSpec
CONSTANTS
  f1 = f1
  f2 = f2
  a1 = a1
  FunctionIDs = {f1, f2}
  AssignmentsOf <- OneAssignment
  MaxFunctions = 2
  MaxStales = {0, 1}
  ClockMayRegress = TRUE
  MaxEpoch = 2
  MaxEvents = 4
  MaxRevision <- OneChanges
INVARIANTS DiscoveryInvariant HoldsPublishedPrefix
PROPERTIES NeverBack CatchesUp
CHECK_DEADLOCK FALSE
