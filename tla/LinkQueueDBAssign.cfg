SPECIFICATION Spec
CONSTANTS
  k1 = k1
  l1 = l1
  l2 = l2
  v1 = v1
  v2 = v2
  v3 = v3
  v4 = v4
  NoPublisher = NoPublisher
  NoValue = NoValue
  NoCall = NoCall
  NoWatcher = NoWatcher
  Links = {l1}
  Values = {v1, v2}
  Publishers <- OnePublisher
  Calls <- TwoCalls
  Watchers <- OneInput
  ClosingClients = {}
  AckHandlers = {}
  Max = 2
  MaxTrouble = 0
INVARIANT AssignedWasReturned
CHECK_DEADLOCK FALSE
