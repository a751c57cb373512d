SPECIFICATION Spec
CONSTANTS
  k1 = k1
  k2 = k2
  k3 = k3
  c1 = c1
  w1 = w1
  w2 = w2
  NoWorker = NoWorker
  NoKey = NoKey
  Keys = {k1}
  Consumers = {c1}
  ConsumerOf <- OneConsumer
  Workers = {w1, w2}
  MaxAttempts = 2
  BatchLimit = 2
  StockChoices = {1}
  LimitChoices = {1}
  Cash = TRUE
  AmountType = "fixed"
  MinAmount = 2
  MaxAmount = 2
  Budget = 3
  HasConnector = TRUE
  HasReconcile = FALSE
  AcceptedAnswers = {"success", "pending"}
  ReportsOwnId = FALSE
PROPERTIES
  ConsumerStatusIsMonotone
CHECK_DEADLOCK FALSE
