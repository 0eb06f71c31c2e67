SPECIFICATION CollectorSpec
CONSTANTS
  k1 = k1
  l1 = l1
  l2 = l2
  v1 = v1
  v2 = v2
  v3 = v3
  v4 = v4
  NoPublisher = NoPublisher
  NoValue = NoValue
  NoCall = NoCall
  NoWatcher = NoWatcher
  Links = {l1, l2}
  Values = {v1}
  Publishers <- OnePublisher
  Calls <- OneCall
  Watchers <- TwoInputs
  ClosingClients = {}
  AckHandlers = {h1, h2}
  Max = 1
  MaxTrouble = 1
INVARIANT LinkQueueDBTypeOK OneSubscriptionPerClient
PROPERTIES ImplementsDurableQueue ExpiredAreCollected
CHECK_DEADLOCK FALSE
