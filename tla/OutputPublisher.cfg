SPECIFICATION FairSpec
CONSTANTS
  Calls = {c1, c2}
  Requests = {c1}
  Links = {l1, l2}
  NoCall = NoCall
INVARIANTS OutputPublisherTypeOK AllLinksOrNone EveryLinkAsked
PROPERTY PublishReturns
CHECK_DEADLOCK FALSE
