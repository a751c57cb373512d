SPECIFICATION Spec
CONSTANTS
  Nil = Nil
  Productions = {p1}
  Batches = {b1}
  Items = {i1, i2}
  Keys = {k1}
  Requests = {q1}
  Source <- OneSource
  ItemsOf <- AllItems
  PairId <- Single
  MaxCodes = 2
  MaxDay = 1
INVARIANT VoidedCanBeLeftOut
CHECK_DEADLOCK FALSE
