SPECIFICATION FairConvergenceSpec
CONSTANTS
  f1 = f1
  f2 = f2
  c1 = c1
  c2 = c2
  v1 = v1
  v2 = v2
  nov = nov
  Functions = {f1, f2}
  Versions = {v1, v2}
  Calls = {c1, c2}
  NoVersion = nov
  MaxChanges = 3
  MaxAssignments = 3
INVARIANTS ConvergenceInvariant CallsKeepTheirReplica
PROPERTIES ViewsConverge
