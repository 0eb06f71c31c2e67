------------------------- MODULE PipelineAgent_proofs -------------------------
(***************************************************************************)
(* Proofs about PipelineAgent, for any agents and clients, capacities of   *)
(* the channels of the hub, lost and late calls, and restarts.             *)
(***************************************************************************)
EXTENDS PipelineAgent, TLAPS

-----------------------------------------------------------------------------
(* Type correctness.  The type invariant is inductive; it is proved in two *)
(* halves, since most steps leave one of them alone.                       *)

LoopTypeOK ==
  /\ links \subseteq Agents
  /\ version \in [Agents -> Versions]
  /\ step \in [Agents -> {"idle", "register", "publish"}]
  /\ due \subseteq Agents /\ everReg \subseteq Agents /\ registered \subseteq Agents
  /\ lastHash \in [Agents -> Versions \cup {Unknown}]
  /\ copy \in [Agents -> Versions]

ServerTypeOK ==
  /\ calls \subseteq Calls /\ notifying \subseteq Calls
  /\ registry \in [Agents -> Versions \cup {Unknown}]
  /\ faults \in 0..MaxFaults

HubTypeOK ==
  /\ broadcast \in 0..BroadcastCap
  /\ members \subseteq Clients /\ closed \subseteq Clients /\ stale \subseteq Clients
  /\ send \in [Clients -> 0..SendCap]
  /\ conn \in [Clients -> {"none", "up", "down"}]
  /\ reader \in [Clients -> {"none", "entering", "reading", "leaving", "done"}]
  /\ writer \in [Clients -> {"none", "writing", "done"}]

LEMMA TypeParts == PipelineAgentTypeOK <=> LoopTypeOK /\ ServerTypeOK /\ HubTypeOK
BY Zenon DEF PipelineAgentTypeOK, LoopTypeOK, ServerTypeOK, HubTypeOK

LEMMA InitType == Init => PipelineAgentTypeOK
<1> SUFFICES ASSUME Init PROVE PipelineAgentTypeOK
  OBVIOUS
<1> USE PipelineAgentAssumption DEF Init, Versions
<1>1. LoopTypeOK
  BY DEF LoopTypeOK
<1>2. ServerTypeOK
  BY DEF ServerTypeOK
<1>3. HubTypeOK
  BY DEF HubTypeOK
<1>4. QED BY <1>1, <1>2, <1>3, TypeParts

\* The copy that an agent makes when it comes to publishing is one of its versions.
LEMMA CopyTyped ==
  ASSUME LoopTypeOK, NEW a \in Agents, CopyOnPublish(a)
  PROVE  copy' \in [Agents -> Versions]
BY DEF LoopTypeOK, CopyOnPublish

\* Giving up the wait for a call leaves a well-typed call.
LEMMA LateTyped ==
  ASSUME NEW m \in Calls
  PROVE  [m EXCEPT !.live = FALSE] \in Calls
BY DEF Calls

LEMMA FaultTyped == ServerTypeOK /\ faults < MaxFaults => faults + 1 \in 0..MaxFaults
BY PipelineAgentAssumption DEF ServerTypeOK

\* Steps of the loops and the registry that only the agents and their calls see.
LEMMA LoopStepsTyped ==
  ASSUME LoopTypeOK, ServerTypeOK, NEW a \in Agents,
         \/ StatisticsChange(a) \/ MinutePasses(a) \/ Turn(a) \/ Attempt(a)
         \/ TimesOut(a) \/ AgentRestarts(a)
  PROVE  LoopTypeOK' /\ ServerTypeOK' /\ UNCHANGED <<broadcast, clientVars, stale>>
<1>v. version[a] < MaxVersion => version[a] + 1 \in Versions
  BY PipelineAgentAssumption DEF LoopTypeOK, Versions
<1>1. CASE StatisticsChange(a)
  BY <1>1, <1>v DEF StatisticsChange, LoopTypeOK, ServerTypeOK, serverVars
<1>2. CASE MinutePasses(a)
  BY <1>2 DEF MinutePasses, LoopTypeOK, ServerTypeOK, serverVars
<1>3. CASE Turn(a)
  <2>1. copy' \in [Agents -> Versions]
    BY <1>3, CopyTyped DEF Turn
  <2>2. QED BY <1>3, <2>1 DEF Turn, LoopTypeOK, ServerTypeOK, serverVars
<1>4. CASE Attempt(a)
  <2>1. Published(a) \in Versions
    BY DEF Published, LoopTypeOK
  <2>2. step[a] \in {"register", "publish"} =>
          [agent |-> a, what |-> step[a], version |-> Published(a), live |-> TRUE] \in Calls
    BY <2>1 DEF Calls
  <2>3. calls' \subseteq Calls
    BY <1>4, <2>2 DEF Attempt, ServerTypeOK
  <2>4. step' \in [Agents -> {"idle", "register", "publish"}]
    BY <1>4 DEF Attempt, LoopTypeOK
  <2>5. QED BY <1>4, <2>3, <2>4 DEF Attempt, LoopTypeOK, ServerTypeOK
<1>5. CASE TimesOut(a)
  <2>1. copy' \in [Agents -> Versions]
    BY <1>5, CopyTyped DEF TimesOut
  <2>2. step' \in [Agents -> {"idle", "register", "publish"}]
    BY <1>5 DEF TimesOut, AfterFailure, LoopTypeOK
  <2>3. calls' \subseteq Calls /\ notifying' \subseteq Calls
    BY <1>5, LateTyped DEF TimesOut, ServerTypeOK
  <2>4. faults' \in 0..MaxFaults
    BY <1>5, FaultTyped DEF TimesOut
  <2>5. QED BY <1>5, <2>1, <2>2, <2>3, <2>4 DEF TimesOut, LoopTypeOK, ServerTypeOK
<1>6. CASE AgentRestarts(a)
  <2>1. calls' \subseteq Calls /\ notifying' \subseteq Calls
    BY <1>6, LateTyped DEF AgentRestarts, ServerTypeOK
  <2>2. faults' \in 0..MaxFaults
    BY <1>6, FaultTyped DEF AgentRestarts
  <2>3. lastHash' \in [Agents -> Versions \cup {Unknown}]
    BY <1>6 DEF AgentRestarts, LoopTypeOK
  <2>4. QED BY <1>6, <1>v, <2>1, <2>2, <2>3 DEF AgentRestarts, LoopTypeOK, ServerTypeOK
<1>7. QED BY <1>1, <1>2, <1>3, <1>4, <1>5, <1>6

\* Steps of the registry.
LEMMA RegistryStepsTyped ==
  ASSUME LoopTypeOK, ServerTypeOK, HubTypeOK, NEW m \in Calls,
         Register(m) \/ Publish(m) \/ StatisticsChanged(m)
  PROVE  LoopTypeOK' /\ ServerTypeOK' /\ HubTypeOK'
<1>m. m.agent \in Agents /\ m.version \in Versions
  BY DEF Calls
<1>1. CASE Register(m)
  <2>1. copy' \in [Agents -> Versions]
    BY <1>1, <1>m, CopyTyped DEF Register
  <2>2. 0 \in Versions
    BY PipelineAgentAssumption DEF Versions
  <2>3. registry' \in [Agents -> Versions \cup {Unknown}]
    BY <1>1, <2>2 DEF Register, ServerTypeOK
  <2>4. QED BY <1>1, <1>m, <2>1, <2>3
       DEF Register, LoopTypeOK, ServerTypeOK, HubTypeOK, clientVars
<1>2. CASE Publish(m)
  BY <1>2, <1>m DEF Publish, LoopTypeOK, ServerTypeOK, HubTypeOK, loopVars, clientVars
<1>3. CASE StatisticsChanged(m)
  <2>1. broadcast' \in 0..BroadcastCap
    BY <1>3, PipelineAgentAssumption DEF StatisticsChanged, HubTypeOK
  <2>2. faults' \in 0..MaxFaults
    BY <1>3, FaultTyped DEF StatisticsChanged, ServerTypeOK
  <2>3. LoopTypeOK'
    BY <1>3, <1>m DEF StatisticsChanged, LoopTypeOK
  <2>4. QED BY <1>3, <2>1, <2>2, <2>3
       DEF StatisticsChanged, ServerTypeOK, HubTypeOK, clientVars
<1>4. QED BY <1>1, <1>2, <1>3

\* Steps of the hub and its clients.
LEMMA ClientStepsTyped ==
  ASSUME HubTypeOK, NEW c \in Clients,
         \/ Connect(c) \/ HubRegister(c) \/ HubUnregister(c) \/ Write(c)
         \/ WriterEnds(c) \/ ConnectionBreaks(c) \/ ReaderEnds(c)
  PROVE  HubTypeOK' /\ UNCHANGED <<loopVars, serverVars, faults>>
<1>1. CASE Write(c)
  <2>1. send' \in [Clients -> 0..SendCap]
    BY <1>1, PipelineAgentAssumption DEF Write, HubTypeOK
  <2>2. QED BY <1>1, <2>1 DEF Write, HubTypeOK
<1>2. CASE Connect(c) \/ HubRegister(c) \/ HubUnregister(c)
  BY <1>2 DEF Connect, HubRegister, HubUnregister, HubTypeOK
<1>3. CASE WriterEnds(c) \/ ConnectionBreaks(c) \/ ReaderEnds(c)
  BY <1>3 DEF WriterEnds, ConnectionBreaks, ReaderEnds, HubTypeOK
<1>4. QED BY <1>1, <1>2, <1>3

\* A message goes to the clients that have room for it.
LEMMA BroadcastTyped ==
  ASSUME HubTypeOK, HubBroadcast
  PROVE  HubTypeOK' /\ UNCHANGED <<loopVars, serverVars, faults>>
<1>1. send' \in [Clients -> 0..SendCap]
  BY PipelineAgentAssumption DEF HubBroadcast, HubTypeOK, Slow
<1>2. broadcast' \in 0..BroadcastCap
  BY PipelineAgentAssumption DEF HubBroadcast, HubTypeOK
<1>3. Slow \subseteq Clients
  BY DEF Slow, HubTypeOK
<1>4. QED BY <1>1, <1>2, <1>3 DEF HubBroadcast, HubTypeOK, Dropped, Remaining

LEMMA RestartTyped ==
  ASSUME LoopTypeOK, ServerTypeOK, PipelineAgentRestarts
  PROVE  LoopTypeOK' /\ ServerTypeOK' /\ HubTypeOK'
<1>1. LoopTypeOK'
  BY DEF PipelineAgentRestarts, LoopTypeOK, loopVars
<1>2. ServerTypeOK'
  BY FaultTyped DEF PipelineAgentRestarts, ServerTypeOK
<1>3. HubTypeOK'
  BY PipelineAgentAssumption DEF PipelineAgentRestarts, HubTypeOK
<1>4. QED BY <1>1, <1>2, <1>3

LEMMA NextType == PipelineAgentTypeOK /\ [Next]_vars => PipelineAgentTypeOK'
<1> SUFFICES ASSUME PipelineAgentTypeOK, [Next]_vars PROVE PipelineAgentTypeOK'
  OBVIOUS
<1>t. LoopTypeOK /\ ServerTypeOK /\ HubTypeOK
  BY TypeParts
<1>p. LoopTypeOK' /\ ServerTypeOK' /\ HubTypeOK' => PipelineAgentTypeOK'
  BY Zenon DEF PipelineAgentTypeOK, LoopTypeOK, ServerTypeOK, HubTypeOK
<1>l. UNCHANGED <<loopVars, serverVars, faults>> => LoopTypeOK' /\ ServerTypeOK'
  BY <1>t DEF loopVars, serverVars, LoopTypeOK, ServerTypeOK
<1>h. UNCHANGED <<broadcast, clientVars, stale>> => HubTypeOK'
  BY <1>t DEF clientVars, HubTypeOK
<1>1. ASSUME NEW a \in Agents,
             \/ StatisticsChange(a) \/ MinutePasses(a) \/ Turn(a) \/ Attempt(a)
             \/ TimesOut(a) \/ AgentRestarts(a)
      PROVE  PipelineAgentTypeOK'
  BY <1>1, <1>t, <1>p, <1>h, LoopStepsTyped
<1>2. ASSUME NEW m \in calls, Register(m) \/ Publish(m) PROVE PipelineAgentTypeOK'
  BY <1>2, <1>t, <1>p, RegistryStepsTyped DEF ServerTypeOK
<1>3. ASSUME NEW m \in notifying, StatisticsChanged(m) PROVE PipelineAgentTypeOK'
  BY <1>3, <1>t, <1>p, RegistryStepsTyped DEF ServerTypeOK
<1>4. CASE PipelineAgentRestarts
  BY <1>4, <1>t, <1>p, RestartTyped
<1>5. CASE HubBroadcast
  BY <1>5, <1>t, <1>p, <1>l, BroadcastTyped
<1>6. ASSUME NEW c \in Clients,
             \/ Connect(c) \/ HubRegister(c) \/ HubUnregister(c) \/ Write(c)
             \/ WriterEnds(c) \/ ConnectionBreaks(c) \/ ReaderEnds(c)
      PROVE  PipelineAgentTypeOK'
  BY <1>6, <1>t, <1>p, <1>l, ClientStepsTyped
<1>7. CASE UNCHANGED vars
  BY <1>7, <1>p, <1>l, <1>h DEF vars
<1>8. QED
  BY <1>1, <1>2, <1>3, <1>4, <1>5, <1>6, <1>7 DEF Next

\* Every reachable state is well typed: in particular no channel of the hub ever
\* holds more than its capacity.
THEOREM TypeCorrect == Spec => []PipelineAgentTypeOK
BY InitType, NextType, PTL DEF Spec

-----------------------------------------------------------------------------
(* The hub and the channels of its clients.                                *)

\* A client that the hub has not taken yet has no part in the hub.
NotYet ==
  \A c \in Clients :
    /\ conn[c] = "none" => reader[c] = "none"
    /\ reader[c] \in {"none", "entering"} =>
         c \notin members /\ c \notin closed /\ writer[c] = "none"

HubInv == NotYet /\ MembersAreOpen /\ WritersAreReached

LEMMA NextHub == HubTypeOK /\ HubInv /\ [Next]_vars => HubInv'
<1> SUFFICES ASSUME HubTypeOK, HubInv, [Next]_vars PROVE HubInv'
  OBVIOUS
<1> USE DEF HubInv, NotYet, MembersAreOpen, WritersAreReached
<1>1. CASE UNCHANGED clientVars
  BY <1>1 DEF clientVars
<1>2. CASE PipelineAgentRestarts
  BY <1>2 DEF PipelineAgentRestarts
<1>3. CASE HubBroadcast
  <2>1. /\ members' = members \ Slow /\ closed' = closed \cup Slow
        /\ UNCHANGED <<conn, reader, writer>> /\ Slow \subseteq members
    BY <1>3 DEF HubBroadcast, Remaining, Dropped, Slow
  <2>2. QED BY <2>1
<1>4. ASSUME NEW c \in Clients, Connect(c) \/ HubRegister(c) PROVE HubInv'
  BY <1>4 DEF Connect, HubRegister, HubTypeOK
<1>5. ASSUME NEW c \in Clients, HubUnregister(c) PROVE HubInv'
  BY <1>5 DEF HubUnregister, HubTypeOK
<1>6. ASSUME NEW c \in Clients, Write(c) \/ WriterEnds(c) PROVE HubInv'
  BY <1>6 DEF Write, WriterEnds, HubTypeOK
<1>7. ASSUME NEW c \in Clients, ConnectionBreaks(c) \/ ReaderEnds(c) PROVE HubInv'
  BY <1>7 DEF ConnectionBreaks, ReaderEnds, HubTypeOK
<1>8. ASSUME NEW a \in Agents,
             \/ StatisticsChange(a) \/ MinutePasses(a) \/ Turn(a) \/ Attempt(a)
             \/ TimesOut(a) \/ AgentRestarts(a)
      PROVE  UNCHANGED clientVars
  BY <1>8 DEF StatisticsChange, MinutePasses, Turn, Attempt, TimesOut, AgentRestarts
<1>9. ASSUME NEW m, Register(m) \/ Publish(m) \/ StatisticsChanged(m)
      PROVE  UNCHANGED clientVars
  BY <1>9 DEF Register, Publish, StatisticsChanged
<1>10. CASE UNCHANGED vars
  BY <1>1, <1>10 DEF vars
<1>11. QED
  BY <1>1, <1>2, <1>3, <1>4, <1>5, <1>6, <1>7, <1>8, <1>9, <1>10 DEF Next

LEMMA HubInvariant == Spec => []HubInv
<1>1. Init => HubInv
  BY DEF Init, HubInv, NotYet, MembersAreOpen, WritersAreReached
<1>2. PipelineAgentTypeOK => HubTypeOK
  BY TypeParts
<1>3. QED BY <1>1, <1>2, NextHub, TypeCorrect, PTL DEF Spec

\* The hub never sends on a closed channel and never closes one twice, whether clients
\* leave, are dropped for being slow, or both.
THEOREM NoClosedMember == Spec => []MembersAreOpen
<1>1. HubInv => MembersAreOpen
  BY DEF HubInv
<1>2. QED BY <1>1, HubInvariant, PTL

\* A writer that runs is served by the hub, or its channel is closed and it will end.
THEOREM NoWriterForgotten == Spec => []WritersAreReached
<1>1. HubInv => WritersAreReached
  BY DEF HubInv
<1>2. QED BY <1>1, HubInvariant, PTL

=============================================================================
