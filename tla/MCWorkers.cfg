SPECIFICATION MCSpec
CONSTANTS
  Nil = Nil
  Endpoints = {e1, e2}
  Events = {v1}
  Expanders = {x1, x2}
  Workers = {w1, w2}
  MAX_RETRIES = 2
  MaxVersions = 2
  MaxFaults = 2
  members = {m1}
  consentIds = {k1, k2}
  grantIds = {g1}
  senders = {s1, s2}
  marketing = {a}
  MaxAttempts = 2
INVARIANTS
  TypeOK
  NobodyIsMissed
  CopiesAreExplained
PROPERTIES
  MessageSpec
  Settles
  OutboxSpec
  EventsExpand
  DeliveriesSettle
CHECK_DEADLOCK FALSE
