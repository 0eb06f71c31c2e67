SPECIFICATION Spec
CONSTANTS
  Publishers = {p1}
  Values = {v1, v2}
  Copies = {a1, a2, a3}
  Clients = {k1, k2}
  Handlers = {h1, h2}
  MaxSubs = 2
  MaxWaiting = 1
  QueueSize = 3
  RetryQueueSize = 1
  NoValue = NoValue
  NoCopy = NoCopy
  NoClient = NoClient
SYMMETRY Symmetry
INVARIANTS TypeOK Conservation WaitingCounter BackpressureBound
CHECK_DEADLOCK FALSE
