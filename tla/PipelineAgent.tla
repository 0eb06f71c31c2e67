---------------------------- MODULE PipelineAgent ----------------------------
(***************************************************************************)
(* The pipeline agent as the place where link and task agents register and *)
(* publish statistics, and from which frontends hear of changes: the       *)
(* registration loop of the agents (agent/link/service.go and              *)
(* agent/task/service.go), the registry (agent/pipeline/stub) and the      *)
(* websocket hub (agent/pipeline/frontend).                                *)
(*                                                                         *)
(* The statistics of an agent are a version number: what matters is        *)
(* whether the registry has the current ones.  Calls are messages: an      *)
(* attempt that timed out at the agent may be handled by the pipeline      *)
(* agent later, or never.  There is one agent, with one URI, per name.     *)
(***************************************************************************)
EXTENDS Integers, FiniteSets

CONSTANTS Agents,       \* link and task agents
          Clients,      \* websocket connections of frontends
          MaxVersion,   \* bound: changes of an agent's statistics
          MaxFaults,    \* bound: attempts that time out, restarts
          BroadcastCap, \* capacity of Hub.broadcast
          SendCap       \* capacity of client.send

ASSUME PipelineAgentAssumption ==
  /\ IsFiniteSet(Agents)
  /\ MaxVersion \in Nat /\ MaxFaults \in Nat
  /\ BroadcastCap \in Nat \ {0} /\ SendCap \in Nat \ {0}

Versions == 0..MaxVersion
Unknown == -1  \* no entry, no hash

\* A call under way; live means that the caller still waits for its answer.
Calls == [agent : Agents, what : {"register", "publish"}, version : Versions,
          live : BOOLEAN]

VARIABLES
  \* the registration loop of every agent
  links,       \* those that are link agents; it never changes
  version,     \* version[a]: the statistics of agent a
  step,        \* step[a]: where its loop is
  due,         \* agents whose last registration was more than a minute ago
  everReg,     \* agents that closed agentRegistered
  registered,  \* agents that registered in this turn of their loop
  lastHash,    \* lastHash[a]: the version it published last, as far as it knows
  copy,        \* copy[a]: the statistics a task agent copied to publish them
  \* the pipeline agent
  calls,       \* calls that were not handled yet
  notifying,   \* publish calls handled up to the notification of the hub
  registry,    \* registry[a]: the statistics of a in the registry
  broadcast,   \* number of messages in Hub.broadcast
  \* the hub's clients
  members,     \* Hub.clients
  send,        \* send[c]: number of messages in the channel of c
  closed,      \* clients whose send channel was closed
  conn,        \* conn[c]: the connection of c
  reader, writer,  \* the goroutines of c
  stale,       \* members not told yet of a change of the registry (history)
  faults

loopVars == <<links, version, step, due, everReg, registered, lastHash, copy>>
serverVars == <<calls, notifying, registry>>
clientVars == <<members, send, closed, conn, reader, writer>>
vars == <<loopVars, serverVars, broadcast, clientVars, stale, faults>>

Init ==
  /\ links \in SUBSET Agents
  /\ version = [a \in Agents |-> 0]
  /\ step = [a \in Agents |-> "idle"]
  /\ due = Agents /\ everReg = {} /\ registered = {}
  /\ lastHash = [a \in Agents |-> Unknown]
  /\ copy = [a \in Agents |-> 0]
  /\ calls = {} /\ notifying = {}
  /\ registry = [a \in Agents |-> Unknown]
  /\ broadcast = 0
  /\ members = {} /\ closed = {} /\ stale = {}
  /\ send = [c \in Clients |-> 0]
  /\ conn = [c \in Clients |-> "none"]
  /\ reader = [c \in Clients |-> "none"]
  /\ writer = [c \in Clients |-> "none"]
  /\ faults = 0

-----------------------------------------------------------------------------
(* The agents: runUpdateAgentRegistration.                                   *)

StatisticsChange(a) ==
  /\ version[a] < MaxVersion
  /\ version' = [version EXCEPT ![a] = @ + 1]
  /\ UNCHANGED <<links, step, due, everReg, registered, lastHash, copy, serverVars,
                 broadcast, clientVars, stale, faults>>

MinutePasses(a) ==
  /\ a \notin due
  /\ due' = due \cup {a}
  /\ UNCHANGED <<links, version, step, everReg, registered, lastHash, copy, serverVars,
                 broadcast, clientVars, stale, faults>>

\* A task agent copies its statistics when it comes to publishing.
CopyOnPublish(a) ==
  copy' = [copy EXCEPT ![a] = IF step[a] # "publish" /\ step'[a] = "publish"
                              THEN version[a] ELSE @]

\* The next turn of the loop, after its delay: register if that is due.
Turn(a) ==
  /\ step[a] = "idle"
  /\ step' = [step EXCEPT ![a] = IF a \in due THEN "register" ELSE "publish"]
  /\ registered' = registered \ {a}
  /\ CopyOnPublish(a)
  /\ UNCHANGED <<links, version, due, everReg, lastHash, serverVars, broadcast, clientVars,
                 stale, faults>>

Waits(a) == \E m \in calls \cup notifying : m.agent = a /\ m.live

\* A link agent looks at its statistics in every attempt, a task agent at its copy.
Published(a) == IF a \in links THEN version[a] ELSE copy[a]

\* Mutant: a new registration is no reason to publish.
NeedsPublishHashOnly(a) == Published(a) # lastHash[a]

NeedsPublish(a) == Published(a) # lastHash[a] \/ a \in registered

\* An attempt of retry.Do.
Attempt(a) ==
  /\ step[a] \in {"register", "publish"} /\ ~Waits(a)
  /\ IF step[a] = "publish" /\ ~NeedsPublish(a)
     THEN step' = [step EXCEPT ![a] = "idle"] /\ UNCHANGED calls
     ELSE /\ calls' = calls \cup {[agent |-> a, what |-> step[a],
                                   version |-> Published(a), live |-> TRUE]}
          /\ UNCHANGED step
  /\ UNCHANGED <<links, version, due, everReg, registered, lastHash, copy, notifying,
                 registry, broadcast, clientVars, stale, faults>>

\* What follows when retry.Do gives up: an agent that never registered does not
\* publish.
AfterFailure(a) ==
  IF step[a] = "register" /\ a \in everReg THEN "publish" ELSE "idle"

\* The answer did not come in time.  The call goes on without a caller, or was
\* lost; retry.Do tries again or gives up.
TimesOut(a) ==
  /\ faults < MaxFaults /\ faults' = faults + 1
  /\ \E m \in calls \cup notifying :
       /\ m.agent = a /\ m.live
       /\ LET late == [m EXCEPT !.live = FALSE] IN
            IF m \in calls
            THEN calls' \in {(calls \ {m}) \cup {late}, calls \ {m}} /\ UNCHANGED notifying
            ELSE notifying' = (notifying \ {m}) \cup {late} /\ UNCHANGED calls
  /\ step' \in {step, [step EXCEPT ![a] = AfterFailure(a)]}
  /\ CopyOnPublish(a)
  /\ UNCHANGED <<links, version, due, everReg, registered, lastHash, registry,
                 broadcast, clientVars, stale>>

\* The agent's process restarts: the loop starts afresh with new statistics.
AgentRestarts(a) ==
  /\ faults < MaxFaults /\ faults' = faults + 1
  /\ version[a] < MaxVersion
  /\ version' = [version EXCEPT ![a] = @ + 1]
  /\ step' = [step EXCEPT ![a] = "idle"]
  /\ due' = due \cup {a} /\ everReg' = everReg \ {a}
  /\ registered' = registered \ {a}
  /\ lastHash' = [lastHash EXCEPT ![a] = Unknown]
  /\ calls' = {IF m.agent = a THEN [m EXCEPT !.live = FALSE] ELSE m : m \in calls}
  /\ notifying' = {IF m.agent = a THEN [m EXCEPT !.live = FALSE] ELSE m :
                     m \in notifying}
  /\ UNCHANGED <<links, copy, registry, broadcast, clientVars, stale>>

-----------------------------------------------------------------------------
(* The registry.                                                             *)

\* RegisterLink, RegisterTask: an agent that is known keeps its statistics.
Register(m) ==
  /\ m \in calls /\ m.what = "register"
  /\ calls' = calls \ {m}
  /\ registry' = [registry EXCEPT ![m.agent] = IF @ = Unknown THEN 0 ELSE @]
  /\ IF m.live
     THEN /\ due' = due \ {m.agent} /\ registered' = registered \cup {m.agent}
          /\ everReg' = everReg \cup {m.agent}
          /\ step' = [step EXCEPT ![m.agent] = "publish"]
     ELSE UNCHANGED <<due, registered, everReg, step>>
  /\ CopyOnPublish(m.agent)
  /\ UNCHANGED <<links, version, lastHash, notifying, broadcast, clientVars, stale,
                 faults>>

\* Mutant: the hub hears only of agents that are known.
PublishQuietly(m) ==
  /\ m \in calls /\ m.what = "publish"
  /\ calls' = calls \ {m}
  /\ registry' = [registry EXCEPT ![m.agent] = m.version]
  /\ stale' = stale \cup members
  /\ notifying' = IF registry[m.agent] # 0 THEN notifying \cup {m} ELSE notifying
  /\ UNCHANGED <<loopVars, broadcast, clientVars, faults>>

\* PublishLinkStatistics, PublishTaskStatistics, up to the unlock.
Publish(m) ==
  /\ m \in calls /\ m.what = "publish"
  /\ calls' = calls \ {m}
  /\ registry' = [registry EXCEPT ![m.agent] = m.version]
  /\ stale' = stale \cup members
  /\ notifying' = notifying \cup {m}
  /\ UNCHANGED <<loopVars, broadcast, clientVars, faults>>

\* hub.StatisticsChanged waits for room in the channel; then the call returns.
\* The caller takes the statistics for published, also when retry.Do finds that
\* the answer came too late and tries again.
StatisticsChanged(m) ==
  /\ m \in notifying /\ broadcast < BroadcastCap
  /\ notifying' = notifying \ {m}
  /\ broadcast' = broadcast + 1
  /\ IF m.live
     THEN /\ lastHash' = [lastHash EXCEPT ![m.agent] = m.version]
          /\ \/ step' = [step EXCEPT ![m.agent] = "idle"] /\ UNCHANGED faults
             \/ faults < MaxFaults /\ faults' = faults + 1 /\ UNCHANGED step
     ELSE UNCHANGED <<lastHash, step, faults>>
  /\ UNCHANGED <<links, version, due, everReg, registered, copy, calls, registry,
                 clientVars, stale>>

\* The pipeline agent restarts with nothing in memory; connections break.
PipelineAgentRestarts ==
  /\ faults < MaxFaults /\ faults' = faults + 1
  /\ registry' = [a \in Agents |-> Unknown]
  /\ calls' = {} /\ notifying' = {} /\ broadcast' = 0
  /\ members' = {} /\ closed' = {} /\ stale' = {}
  /\ send' = [c \in Clients |-> 0]
  /\ conn' = [c \in Clients |-> "none"]
  /\ reader' = [c \in Clients |-> "none"]
  /\ writer' = [c \in Clients |-> "none"]
  /\ UNCHANGED loopVars

-----------------------------------------------------------------------------
(* The hub and its clients.                                                  *)

\* A frontend connects: the HTTP handler waits for the hub to take the client.
Connect(c) ==
  /\ conn[c] = "none"
  /\ conn' = [conn EXCEPT ![c] = "up"]
  /\ reader' = [reader EXCEPT ![c] = "entering"]
  /\ UNCHANGED <<loopVars, serverVars, broadcast, members, send, closed, writer,
                 stale, faults>>

HubRegister(c) ==
  /\ reader[c] = "entering"
  /\ members' = members \cup {c}
  /\ reader' = [reader EXCEPT ![c] = "reading"]
  /\ writer' = [writer EXCEPT ![c] = "writing"]
  /\ UNCHANGED <<loopVars, serverVars, broadcast, send, closed, conn, stale, faults>>

\* A client that the hub dropped before is not in the map any more.
HubUnregister(c) ==
  /\ reader[c] = "leaving"
  /\ reader' = [reader EXCEPT ![c] = "done"]
  /\ conn' = [conn EXCEPT ![c] = "down"]
  /\ members' = members \ {c}
  /\ closed' = closed \cup ({c} \cap members)
  /\ stale' = stale \ {c}
  /\ UNCHANGED <<loopVars, serverVars, broadcast, send, writer, faults>>

\* Mutant: a full channel takes one message more.
SlowLate == {c \in members : send[c] > SendCap}

\* Clients with a full channel.
Slow == {c \in members : send[c] = SendCap}

\* Mutant: a slow client is dropped with its channel left open.
DroppedOpen == closed

Dropped == closed \cup Slow

\* Mutant: a slow client stays in the map.
RemainingAll == members

Remaining == members \ Slow

\* A message goes to all clients that have room for it; the others are dropped.
HubBroadcast ==
  /\ broadcast > 0 /\ broadcast' = broadcast - 1
  /\ send' = [c \in Clients |-> IF c \in members \ Slow THEN send[c] + 1 ELSE send[c]]
  /\ closed' = Dropped
  /\ members' = Remaining
  /\ stale' = stale \ Slow
  /\ UNCHANGED <<loopVars, serverVars, conn, reader, writer, faults>>

\* writePump writes a message, or finds the channel closed, or fails; in the last
\* two cases it ends and closes the connection.
Write(c) ==
  /\ writer[c] = "writing" /\ conn[c] = "up" /\ send[c] > 0
  /\ send' = [send EXCEPT ![c] = @ - 1]
  /\ stale' = stale \ {c}
  /\ UNCHANGED <<loopVars, serverVars, broadcast, members, closed, conn, reader,
                 writer, faults>>

WriterEnds(c) ==
  /\ writer[c] = "writing"
  /\ conn[c] = "down" \/ (send[c] = 0 /\ c \in closed)
  /\ writer' = [writer EXCEPT ![c] = "done"]
  /\ conn' = [conn EXCEPT ![c] = "down"]
  /\ UNCHANGED <<loopVars, serverVars, broadcast, members, send, closed, reader,
                 stale, faults>>

\* The frontend goes away, or does not answer pings.
ConnectionBreaks(c) ==
  /\ conn[c] = "up"
  /\ conn' = [conn EXCEPT ![c] = "down"]
  /\ UNCHANGED <<loopVars, serverVars, broadcast, members, send, closed, reader,
                 writer, stale, faults>>

\* readPump gets an error and waits for the hub to take its leave.
ReaderEnds(c) ==
  /\ reader[c] = "reading" /\ conn[c] = "down"
  /\ reader' = [reader EXCEPT ![c] = "leaving"]
  /\ UNCHANGED <<loopVars, serverVars, broadcast, members, send, closed, conn,
                 writer, stale, faults>>

-----------------------------------------------------------------------------
Next ==
  \/ \E a \in Agents : \/ StatisticsChange(a) \/ MinutePasses(a) \/ Turn(a)
                       \/ Attempt(a) \/ TimesOut(a) \/ AgentRestarts(a)
  \/ \E m \in calls : Register(m) \/ Publish(m)
  \/ \E m \in notifying : StatisticsChanged(m)
  \/ PipelineAgentRestarts \/ HubBroadcast
  \/ \E c \in Clients : \/ Connect(c) \/ HubRegister(c) \/ HubUnregister(c)
                        \/ Write(c) \/ WriterEnds(c) \/ ConnectionBreaks(c)
                        \/ ReaderEnds(c)

Spec == Init /\ [][Next]_vars

\* A call that a live caller waits for is handled.
Serve(a) == \E m \in calls : m.agent = a /\ m.live /\ (Register(m) \/ Publish(m))
Notify == \E m \in notifying : StatisticsChanged(m)

(***************************************************************************)
(* Time passes and goroutines run; calls with a caller are handled, since   *)
(* failures are bounded.  A call without a caller may never be handled, a   *)
(* connection may last for ever.  A writer alone with an open connection    *)
(* writes.                                                                  *)
(***************************************************************************)
Fairness ==
  /\ \A a \in Agents : WF_vars(MinutePasses(a)) /\ WF_vars(Turn(a))
                       /\ WF_vars(Attempt(a)) /\ WF_vars(Serve(a))
  /\ WF_vars(Notify) /\ WF_vars(HubBroadcast)
  /\ \A c \in Clients : WF_vars(HubRegister(c)) /\ WF_vars(HubUnregister(c))
                        /\ WF_vars(Write(c)) /\ WF_vars(WriterEnds(c))
                        /\ WF_vars(ReaderEnds(c))

FairSpec == Spec /\ Fairness

-----------------------------------------------------------------------------
(* Properties.                                                               *)

\* Every variable has its type.
PipelineAgentTypeOK ==
  /\ links \subseteq Agents
  /\ version \in [Agents -> Versions]
  /\ step \in [Agents -> {"idle", "register", "publish"}]
  /\ due \subseteq Agents /\ everReg \subseteq Agents /\ registered \subseteq Agents
  /\ lastHash \in [Agents -> Versions \cup {Unknown}]
  /\ copy \in [Agents -> Versions]
  /\ calls \subseteq Calls /\ notifying \subseteq Calls
  /\ registry \in [Agents -> Versions \cup {Unknown}]
  /\ broadcast \in 0..BroadcastCap
  /\ members \subseteq Clients /\ closed \subseteq Clients /\ stale \subseteq Clients
  /\ send \in [Clients -> 0..SendCap]
  /\ conn \in [Clients -> {"none", "up", "down"}]
  /\ reader \in [Clients -> {"none", "entering", "reading", "leaving", "done"}]
  /\ writer \in [Clients -> {"none", "writing", "done"}]
  /\ faults \in 0..MaxFaults

\* The hub sends to, and closes, channels of its members only: none of them is
\* closed already, whether the client left or was dropped for being slow first.
MembersAreOpen == members \cap closed = {}

\* A channel that the hub will never close again belongs to a client that has
\* left: a writer that still runs has a member's or a closed channel.
WritersAreReached ==
  \A c \in Clients : writer[c] = "writing" => c \in members \/ c \in closed

\* The registry has the current statistics of every agent in the end, however
\* calls were lost, late or repeated, and whoever restarted, since agents publish
\* again with every registration.
StatisticsConverge == <>[](\A a \in Agents : registry[a] = version[a])

\* A frontend hears of a change that came while it was connected, or is
\* disconnected.
FrontendsAreTold == \A c \in Clients : (c \in stale) ~> (c \notin stale)

=============================================================================
