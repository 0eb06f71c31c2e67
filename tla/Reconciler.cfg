SPECIFICATION FairSpec
CONSTANTS
  Order <- MCOrder
  Watched <- MCWatched
  Owned <- MCOwned
  Versioned <- MCVersioned
  Agents <- MCAgents
  Services <- MCServices
  Ports <- MCPorts
  MaxSpec = 5
  FirstSpecs = {0, 3}
  LastSpecs = {2, 5}
  InvalidSpecs = {1}
  Unlinked <- MCUnlinked
  Refused <- MCRefused
  MaxFaults = 1
INVARIANTS ReconcilerTypeOK RevisionRecordedFirst StaysAwake
PROPERTIES NoGoingBack Converges
CHECK_DEADLOCK FALSE
