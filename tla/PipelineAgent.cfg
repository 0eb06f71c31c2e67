SPECIFICATION FairSpec
CONSTANTS
  a1 = a1
  c1 = c1
  Agents <- MCAgents
  Clients <- OneClient
  MaxVersion = 1
  MaxFaults = 2
  BroadcastCap = 1
  SendCap = 1
INVARIANTS PipelineAgentTypeOK MembersAreOpen WritersAreReached
PROPERTIES StatisticsConverge FrontendsAreTold
CHECK_DEADLOCK FALSE
