SPECIFICATION Spec
CONSTANTS
  Calls = {c1}
  Requests = {c1}
  Links = {l1, l2}
  NoCall = NoCall
INVARIANT ChannelClosedByRunner
CHECK_DEADLOCK FALSE
