SPECIFICATION Spec
CONSTANTS
  Nil = Nil
  Rules = {r1}
  IssuanceLimit <- LimitOne
  Channel <- OnlineOnly
  Validity <- TwoDays
  Coupons = {c1}
  Members = {m1, m2}
  Claims = {p1}
  ExternalClaims = {}
  Orders = {o1}
  Stores = {}
  Readers = {}
  HoldTime = 1
  Attempts = 1
  MaxTime = 3
INVARIANTS
  OnlyLocksBlockMerge
CHECK_DEADLOCK FALSE
