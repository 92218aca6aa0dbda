SPECIFICATION FairSpec
CONSTANTS
  d1 = d1
  d2 = d2
  o1 = o1
  o2 = o2
  Digests = {d1, d2}
  Stripe <- OneStripe
  Ops = {o1, o2}
  MaxFaults = 3
INVARIANTS StoreInvariant SucceededStays
PROPERTIES CallsEnd
