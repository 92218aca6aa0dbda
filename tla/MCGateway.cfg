SPECIFICATION GatewaySpec
CONSTANTS
  r1 = r1
  r2 = r2
  r3 = r3
  Requests = {r1, r2, r3}
  t1 = t1
  t2 = t2
  k1 = k1
  k2 = k2
  none = none
  Tokens = {t1, t2}
  Public = public
  RequestIDs = {k1}
  Idempotency = {k2}
  NoKey = none
  Views <- SomeViews
  Hash <- SomeHash
  Routes <- AllRoutes
  HashSize = 8
  Total = 3
  CursorSize = 4
  Endpoints = {1, 2, 3, 4}
  MaxConcurrent = 2
  RateBurst = 1
  MaxViews = 2
SYMMETRY Symmetry
INVARIANTS GatewayInvariant EveryRouteExact
PROPERTIES RoundRobinMoves
