SPECIFICATION MoneySpec
CONSTANTS
  k1 = k1
  k2 = k2
  k3 = k3
  c1 = c1
  w1 = w1
  w2 = w2
  NoWorker = NoWorker
  NoKey = NoKey
  Keys = {k1, k2, k3}
  Consumers = {c1}
  ConsumerOf <- OneConsumer
  Workers = {w1}
  MaxAttempts = 1
  BatchLimit = 1
  StockChoices = {2}
  LimitChoices = {3}
  Cash = TRUE
  AmountType = "lucky"
  MinAmount = 2
  MaxAmount = 2
  Budget = 5
  HasConnector = TRUE
  HasReconcile = FALSE
  AcceptedAnswers = {"pending"}
  ReportsOwnId = FALSE
SYMMETRY ClaimsAlike
INVARIANTS
  MoneyLedger
  StockLedger
  DeliveredWasOrdered
  LuckyNeverStarves
CHECK_DEADLOCK FALSE
