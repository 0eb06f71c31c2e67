SPECIFICATION FairSpec
CONSTANTS
  Settings <- MCSettings
  MaxSnapshots = 3
  MaxExecutions = 3
  MaxLaunches = 2
  MaxRestarts = 2
  MaxFaults = 2
  PodCollectionQueueSize = 1
INVARIANTS TaskExecutionTypeOK OwnResults NoStrayPod NewestFailedKept OneSnapshotAtATime
PROPERTIES ExecutionsEnd SupersededStop
CHECK_DEADLOCK FALSE
