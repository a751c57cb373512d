SPECIFICATION MCSpec
CONSTANTS
  Nil = Nil
  Rules = {r1}
  IssuanceLimit <- LimitOne
  Channel <- OnlineOnly
  Validity <- TwoDays
  Coupons = {c1, c2}
  Members = {m1, m2}
  Claims = {p1, p2}
  ExternalClaims = {}
  Orders = {o1, o2}
  Stores = {}
  Readers = {w1, w2}
  HoldTime = 1
  Attempts = 2
  MaxTime = 3
  Keys = {k1, k2}
  Consumer = u1
  Workers = {v1}
  NoWorker = NoWorker
  NoKey = NoKey
INVARIANTS
  OneLiveUse
  LogExplainsRow
  LocksAreAnswered
PROPERTIES
  PromiseSpec
  LimitsAtClaim
SYMMETRY Alike
CHECK_DEADLOCK FALSE
