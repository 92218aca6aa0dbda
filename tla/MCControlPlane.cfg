SPECIFICATION FairControlPlaneSpec
CONSTANTS
  f1 = f1
  v1 = v1
  v2 = v2
  nov = nov
  Functions = {f1}
  Versions = {v1, v2}
  Ordinal <- IDOrder
  ResumeLimit = 1
  MaxOps = 3
  NoVersion = nov
INVARIANTS StoresAgree
PROPERTIES StoresMoveForward LoopsFinish
