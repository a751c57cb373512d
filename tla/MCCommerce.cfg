SPECIFICATION MCSpec
CONSTANTS
  Nil = Nil
  Connections = {c1, c2}
  Members = {m1, m2}
  Refs = {"r1"}
  Handoffs = {h1}
  Orders = {"o1", "o2"}
  Products = {"p1"}
  Coupons = {"k1"}
  Events <- FeedEvents
  Event <- FeedEvent
  Requests = {q1, q2}
  Life = 2
  Overlap = 1
  HandoffLife = 1
  MaxVersions = 2
  MaxTime = 2
  Consents = {k1}
  Grants = {1, 2, 3}
  Workers = {w1}
  Marketing = {1, 2, 3}
  Service = {4}
  NoChannel = {}
  Week = 3
  MaxDay = 2
  MaxAttempts = 1
  Productions = {"p1", "p2"}
  Batches = {"b1", "b2"}
  Items = {"i1", "i2", "i3"}
  Keys = {x1, x2}
  Generations = {y1, y2}
  MaxCodes = 2
  Takeovers = {"legacy", "cname"}
  Routes = {"r1", "r2", "r3"}
  Domains = {"d1"}
  Calls = {t1, t2}
INVARIANTS
  RowIsNewest
  RefundsAddUp
  RowsNameTheLiving
  Ration
  GrantsPayOnce
  HistoryIsKept
  GeneratedOnce
  LiveRouteIsClaimed
  DarkIsExplained
PROPERTIES
  NothingAfterRevocation
  FeedSpec
  HandoverSpec
  CodeSpec
CHECK_DEADLOCK FALSE
