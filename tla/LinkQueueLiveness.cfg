SPECIFICATION FairSpec
CONSTANTS
  Publishers = {p1}
  Values = {v1}
  Copies = {a1, a2}
  Clients = {k1, k2}
  Handlers = {h1}
  MaxSubs = 2
  MaxWaiting = 1
  QueueSize = 2
  RetryQueueSize = 1
  NoValue = NoValue
  NoCopy = NoCopy
  NoClient = NoClient
PROPERTIES ImplementsDelivery PublishingResumes
CHECK_DEADLOCK FALSE
