SPECIFICATION FairSpec
CONSTANTS
  a1 = a1
  g1 = g1
  self = self
  c1 = c1
  i1 = i1
  i2 = i2
  k1 = k1
  program = program
  AssignmentIds = {a1}
  Generations = {g1}
  Boots = {self}
  Self = self
  ConnectionIds = {c1}
  SessionEpochs = {1, 2}
  DiscoveryEpochs = {1, 2}
  MaxTTL = 1
  MaxAuthorizations = 1
  Invocations = {i1, i2}
  Closers = {k1}
  ProgramOf <- OneProgram
  MaxAssignments = 1
  Slots <- SlotsOf
  Queue <- OneQueued
  MaxIncarnations = 1
  MaxTime = 1
  ClockMayRegress = FALSE
INVARIANTS AgentInvariant PermissionNeedsReadyReplica StoredIsCurrent
PROPERTIES AcceptedRunsOn ImplementsPermission QueuedLeavesOnStop StoppedIsReleased
CHECK_DEADLOCK FALSE
