SPECIFICATION Spec
CONSTANTS
  o1 = o1
  o2 = o2
  o3 = o3
  s1 = s1
  s2 = s2
  nobody = nobody
  Operations = {o1, o2, o3}
  MaxOperations = 2
  OperationTTL = 1
  TombstoneTTL = 1
  Slots = {s1, s2}
  Nobody = nobody
  MaxTime = 2
  MaxCalls = 3
  MaxVersion = 1
  MaxRevision = 3
SYMMETRY IDsAndSlots
INVARIANTS LedgerInvariant AppliedOnceWhileRetained AnswersAreTrue
CHECK_DEADLOCK FALSE
