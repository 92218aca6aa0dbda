SPECIFICATION FairSpec
CONSTANTS
  w1 = w1
  w2 = w2
  b1 = b1
  b2 = b2
  WorkerIDs = {w1, w2}
  BootIDs = {b1, b2}
  MaxWorkers = 1
  SuspectAfter = 1
  UnavailableAfter = 2
  RevisionSize = 3
  ClockMayRegress = TRUE
  MaxEpoch = 3
  MaxInventory = 1
  MaxClock = 4
INVARIANTS RegistryInvariant
PROPERTIES SessionsMoveForward SilentWorkerLeaves
CHECK_DEADLOCK FALSE
