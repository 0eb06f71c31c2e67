SPECIFICATION FairSpec
CONSTANTS
  x = x
  y = y
  Inputs = {x, y}
  NoInput = NoInput
  Specs <- MCSpecs
  MaxArrivals = 3
INVARIANTS InputLoopTypeOK OneAckDuty WindowsAdvance TakenInOrder NoWedge SnapshotCounters
PROPERTIES ImplementsBatches BuiltAreExecuted
CHECK_DEADLOCK FALSE
