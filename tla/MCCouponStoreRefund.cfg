SPECIFICATION Spec
CONSTANTS
  Nil = Nil
  Rules = {r1}
  IssuanceLimit <- LimitOne
  Channel <- BothChannels
  Validity <- TwoDays
  Coupons = {c1}
  Members = {m1}
  Claims = {p1}
  ExternalClaims = {}
  Orders = {o1, o2}
  Stores = {s1}
  Readers = {}
  HoldTime = 1
  Attempts = 1
  MaxTime = 3
PROPERTIES
  RefundMatchesUse
CHECK_DEADLOCK FALSE
