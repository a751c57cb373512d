SPECIFICATION AssetSpec
CONSTANTS
  Nil = Nil
  Rules = {r1}
  IssuanceLimit <- LimitTwo
  Channel <- BothChannels
  Validity <- FixedWindow
  Coupons = {c1, c2}
  Members = {m1, m2}
  Claims = {p1, p2, p3}
  ExternalClaims = {p2, p3}
  Orders = {o1}
  Stores = {s1}
  Readers = {w1}
  HoldTime = 1
  Attempts = 1
  MaxTime = 2
INVARIANTS
  TypeOK
  ChecksNeverFire
  UnconfirmedIsUnusable
  OneActiveUnlessRestored
SYMMETRY Alike
CHECK_DEADLOCK FALSE
