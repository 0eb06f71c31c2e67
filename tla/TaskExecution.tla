---------------------------- MODULE TaskExecution ----------------------------
(***************************************************************************)
(* How a task agent executes snapshots: the processor of the input loop    *)
(* under the launch policies Auto, Restart and Custom (input_loop.go), the *)
(* executor that runs every execution in a Pod (executor.go), the snapshot *)
(* service of custom executors (snapshot_service.go) and the garbage       *)
(* collector of Pods (pod_gc.go).                                          *)
(*                                                                         *)
(* Executions are numbered in the order in which Execute is called; the    *)
(* Pod of an execution has its number.  Snapshots are numbered in the      *)
(* order in which the processor takes them from the execQueue.  The        *)
(* cluster is an external actor: it ends Pods, removes deleted ones and    *)
(* reports changes, of which only those that show an end matter.           *)
(***************************************************************************)
EXTENDS Integers, FiniteSets, Sequences

CONSTANTS Settings,       \* the tasks considered, see TaskSetting
          MaxSnapshots,   \* bound: snapshots put into the execQueue
          MaxExecutions,  \* bound: calls of Execute
          MaxLaunches,    \* bound: those for custom executors
          MaxRestarts,    \* bound: those under the policy Restart
          MaxFaults,      \* bound: faults after which Execute leaves something behind
          PodCollectionQueueSize

\* What Execute reads of a task: its launch policy, and whether one of its
\* service ports needs the proxy container next to the executor container.
TaskSetting == [policy : {"Auto", "Restart", "Custom"}, proxy : BOOLEAN]

ASSUME TaskExecutionAssumption ==
  /\ Settings \subseteq TaskSetting
  /\ MaxSnapshots \in Nat /\ MaxExecutions \in Nat /\ MaxLaunches \in Nat /\ MaxRestarts \in Nat
  /\ MaxFaults \in Nat
  /\ PodCollectionQueueSize \in Nat

Executions == 1..MaxExecutions
Snapshots == 1..MaxSnapshots

VARIABLES
  setting,     \* the task; it never changes
  \* the processor of the input loop and the loop that launches custom executors
  taken,       \* snapshots taken from the execQueue so far
  started,     \* calls of Execute so far
  lastCancel,  \* the execution that Restart can cancel, 0 if none
  \* executions
  stage,       \* stage[e]: how far Execute has come
  snapshotOf,  \* snapshotOf[e]: its snapshot, 0 for a custom executor
  cancelled,   \* executions whose context was cancelled
  resources,   \* executions whose volumes and claims exist
  leftPods,    \* executions whose Pod Execute could not delete (history)
  leftResources, \* executions that left volumes or claims behind (history)
  misled,      \* Pods given a URI in the volume of another execution (history)
  acked,       \* snapshots whose annotated values were acknowledged
  \* the cluster
  pod,         \* pod[e]: what the cluster knows of the Pod
  changes,     \* podChanges, with the informer's queue in front of it
  created,     \* Pods in order of creation
  result,      \* result[e]: how the executor container ended (history)
  \* the Pod garbage collector
  failedPods,  \* the Pods its current pass has left to look at
  collected,   \* Pods it deleted (history)
  \* the snapshot service
  service,     \* what its Execute does for snapshot number taken
  nextCalls,   \* Pods with a call of Next waiting in the agent
  holder,      \* holder[s]: the Pod that Next gave snapshot s to, 0 if none
  ackCalls,    \* snapshots with a call of Ack waiting in the agent
  executed     \* snapshots that an executor called Ack for (history)

loopVars == <<taken, started, lastCancel>>
leftVars == <<leftPods, leftResources>>
execVars == <<stage, snapshotOf, cancelled, resources, leftVars, misled, acked>>
podVars == <<pod, changes, created, result>>
gcVars == <<failedPods, collected>>
serviceVars == <<service, nextCalls, holder, ackCalls, executed>>
vars == <<setting, loopVars, execVars, podVars, gcVars, serviceVars>>

Init ==
  /\ setting \in Settings
  /\ taken = 0 /\ started = 0 /\ lastCancel = 0
  /\ stage = [e \in Executions |-> "none"]
  /\ snapshotOf = [e \in Executions |-> 0]
  /\ cancelled = {} /\ resources = {} /\ acked = {}
  /\ leftPods = {} /\ leftResources = {} /\ misled = {}
  /\ pod = [e \in Executions |-> "none"]
  /\ changes = <<>> /\ created = <<>>
  /\ result = [e \in Executions |-> "none"]
  /\ failedPods = {} /\ collected = {}
  /\ service = "idle" /\ nextCalls = {}
  /\ holder = [s \in Snapshots |-> 0]
  /\ ackCalls = {} /\ executed = {}

\* Execute was called for e and has not returned.
InExecute(e) == stage[e] \in {"preparing", "launching", "waiting", "processing", "removing"}
\* A deletion by Execute may fail, which is only logged.
CanLeave == Cardinality(leftPods) + Cardinality(leftResources) < MaxFaults

\* Mutant: the resources are deleted only after a success.
ReturnKeeping(e, outcome) ==
  /\ stage' = [stage EXCEPT ![e] = outcome]
  /\ resources' = IF outcome = "failed" THEN resources ELSE resources \ {e}
  /\ UNCHANGED leftResources

\* Execute returns; its deferred function deletes the resources.
Return(e, outcome) ==
  /\ stage' = [stage EXCEPT ![e] = outcome]
  /\ \/ resources' = resources \ {e} /\ UNCHANGED leftResources
     \/ CanLeave /\ leftResources' = leftResources \cup {e} /\ UNCHANGED resources

-----------------------------------------------------------------------------
(* The processor: processExecQueue and runExecWithCustomLaunchPolicy.       *)

Start(s) ==
  /\ started < MaxExecutions
  /\ started' = started + 1
  /\ stage' = [stage EXCEPT ![started + 1] = "preparing"]
  /\ snapshotOf' = [snapshotOf EXCEPT ![started + 1] = s]

\* Auto: the processor executes the snapshot itself.
TakeAuto ==
  /\ setting.policy = "Auto" /\ taken < MaxSnapshots
  /\ \A e \in Executions : ~InExecute(e)
  /\ taken' = taken + 1
  /\ Start(taken + 1)
  /\ UNCHANGED <<setting, lastCancel, cancelled, resources, leftVars, misled, acked,
                 podVars, gcVars, serviceVars>>

\* Mutant: the cancel function of an execution is not remembered.
TakeRestartForgetful ==
  /\ setting.policy = "Restart" /\ taken < MaxRestarts /\ taken < MaxSnapshots
  /\ taken' = taken + 1
  /\ cancelled' = cancelled \cup ({lastCancel} \ {0})
  /\ lastCancel' = 0
  /\ Start(taken + 1)
  /\ UNCHANGED <<setting, resources, leftVars, misled, acked, podVars, gcVars,
                 serviceVars>>

\* Restart: the previous execution is cancelled and the next one launched, in a
\* goroutine of its own.
TakeRestart ==
  /\ setting.policy = "Restart" /\ taken < MaxRestarts /\ taken < MaxSnapshots
  /\ taken' = taken + 1
  /\ cancelled' = cancelled \cup ({lastCancel} \ {0})
  /\ lastCancel' = started + 1
  /\ Start(taken + 1)
  /\ UNCHANGED <<setting, resources, leftVars, misled, acked, podVars, gcVars,
                 serviceVars>>

\* Custom: snapshotService.Execute offers the snapshot to calls of Next.
TakeCustom ==
  /\ setting.policy = "Custom" /\ taken < MaxSnapshots
  /\ service = "idle"
  /\ taken' = taken + 1
  /\ service' = "offering"
  /\ UNCHANGED <<setting, started, lastCancel, execVars, podVars, gcVars,
                 nextCalls, holder, ackCalls, executed>>

\* Custom: the executor runs all the time, without a snapshot.  The circuit
\* breaker only delays its launch.
LaunchCustom ==
  /\ setting.policy = "Custom" /\ started < MaxLaunches
  /\ \A e \in Executions : ~InExecute(e)
  /\ Start(0)
  /\ UNCHANGED <<setting, taken, lastCancel, cancelled, resources, leftVars, misled,
                 acked, podVars, gcVars, serviceVars>>

-----------------------------------------------------------------------------
(* executor.Execute.                                                         *)

\* configureExecContainer lets builders create the volumes for inputs and outputs.
Build(e) ==
  /\ stage[e] = "preparing"
  /\ stage' = [stage EXCEPT ![e] = "launching"]
  /\ resources' = resources \cup {e}
  /\ UNCHANGED <<setting, loopVars, snapshotOf, cancelled, leftVars, misled, acked,
                 podVars, gcVars, serviceVars>>

\* When a builder fails, Execute deletes the volumes of the builders before it, but
\* what this one had created is forgotten.
BuildFails(e) ==
  /\ stage[e] = "preparing"
  /\ stage' = [stage EXCEPT ![e] = "failed"]
  /\ \/ UNCHANGED <<resources, leftResources>>
     \/ /\ CanLeave
        /\ resources' = resources \cup {e}
        /\ leftResources' = leftResources \cup {e}
  /\ UNCHANGED <<setting, loopVars, snapshotOf, cancelled, leftPods, misled, acked,
                 podVars, gcVars, serviceVars>>

\* A template does not apply, or the proxy's ConfigMap or the Pod is not created.
LaunchFails(e) ==
  /\ stage[e] = "launching"
  /\ Return(e, "failed")
  /\ UNCHANGED <<setting, loopVars, snapshotOf, cancelled, leftPods, misled, acked,
                 podVars, gcVars, serviceVars>>

LaunchPod(e) ==
  /\ stage[e] = "launching"
  /\ stage' = [stage EXCEPT ![e] = "waiting"]
  /\ pod' = [pod EXCEPT ![e] = "running"]
  /\ created' = Append(created, e)
  /\ UNCHANGED <<setting, loopVars, snapshotOf, cancelled, resources, leftVars, misled,
                 acked, changes, result, gcVars, serviceVars>>

\* The executor in Pod p runs.
IsAlive(p) == pod[p] \in {"running", "terminating"} /\ result[p] = "none"

\* Mutant: the change of any Pod of the task is taken for the own one.
IsOwnAny(e, change) == TRUE

\* Mutant: the status of the executor container is not looked at.
IsOwnPhase(e, change) == change.pod = e /\ pod[e] # "halfway"

\* Name and UID label match.
IsOwn(e, change) == change.pod = e

\* One turn of the wait loop: a change is taken off the channel, by any
\* execution that waits, and used only if it is about the own Pod.
HandleChange(e) ==
  /\ stage[e] = "waiting" /\ changes # <<>>
  /\ LET change == Head(changes) IN
       CASE ~IsOwn(e, change) -> UNCHANGED <<stage, resources, leftResources>>
         [] IsOwn(e, change) /\ change.ended = "ok" ->
              /\ stage' = [stage EXCEPT ![e] = "processing"]
              /\ UNCHANGED <<resources, leftResources>>
         [] IsOwn(e, change) /\ change.ended = "error" -> Return(e, "failed")
  /\ changes' = Tail(changes)
  /\ UNCHANGED <<setting, loopVars, snapshotOf, cancelled, leftPods, misled, acked,
                 pod, created, result, gcVars, serviceVars>>

\* Another arm of the wait loop: a call of CreateFileURI, by the executor in any
\* Pod of the task, is served with the volumes of the execution that takes it.
CreateFileURI(e, p) ==
  /\ stage[e] = "waiting" /\ IsAlive(p)
  /\ p # e /\ p \notin misled
  /\ misled' = misled \cup {p}
  /\ UNCHANGED <<setting, loopVars, stage, snapshotOf, cancelled, resources, leftVars,
                 acked, podVars, gcVars, serviceVars>>

\* Mutant: Pods are left alone.
KeepPod(p) == UNCHANGED <<pod, changes>>

\* The API server removes a finished Pod at once and gives a running one the
\* time to end.  The informer reports the removal with the last known state.
DeletePod(p) ==
  CASE pod[p] \in {"succeeded", "failed"} ->
         /\ pod' = [pod EXCEPT ![p] = "gone"]
         /\ changes' = Append(changes, [pod |-> p, ended |-> result[p]])
    [] pod[p] \in {"running", "halfway"} ->
         pod' = [pod EXCEPT ![p] = "terminating"] /\ UNCHANGED changes
    [] OTHER -> UNCHANGED <<pod, changes>>

\* Execute deletes its Pod, or fails to.
DeleteOwnPod(e) ==
  \/ DeletePod(e) /\ UNCHANGED leftPods
  \/ CanLeave /\ leftPods' = leftPods \cup {e} /\ UNCHANGED <<pod, changes>>

\* The last arm of the wait loop.
GiveUp(e) ==
  /\ stage[e] = "waiting" /\ e \in cancelled
  /\ DeleteOwnPod(e)
  /\ Return(e, "failed")
  /\ UNCHANGED <<setting, loopVars, snapshotOf, cancelled, misled, acked, created,
                 result, gcVars, serviceVars>>

\* The output processors publish what the Pod left in its volumes.
ProcessOutputs(e) ==
  /\ stage[e] = "processing"
  /\ stage' = [stage EXCEPT ![e] = "removing"]
  /\ UNCHANGED <<setting, loopVars, snapshotOf, cancelled, resources, leftVars, misled,
                 acked, podVars, gcVars, serviceVars>>

ProcessFails(e) ==
  /\ stage[e] = "processing"
  /\ Return(e, "failed")
  /\ UNCHANGED <<setting, loopVars, snapshotOf, cancelled, leftPods, misled, acked,
                 podVars, gcVars, serviceVars>>

\* The Pod is deleted and Execute returns nil; execOnSnapshot acknowledges the
\* values, unless the context was cancelled.
Finish(e) ==
  /\ stage[e] = "removing"
  /\ DeleteOwnPod(e)
  /\ Return(e, IF e \in cancelled THEN "failed" ELSE "succeeded")
  /\ acked' = IF e \in cancelled THEN acked
              ELSE acked \cup ({snapshotOf[e]} \ {0})
  /\ UNCHANGED <<setting, loopVars, snapshotOf, cancelled, misled, created, result,
                 gcVars, serviceVars>>

-----------------------------------------------------------------------------
(* The cluster.                                                              *)

\* The agent notices, then or later, that the caller is gone.
DropCalls(p) == nextCalls' \in {nextCalls, nextCalls \ {p}}

\* The executor container ends.  With a proxy container next to it the Pod does
\* not: "halfway".
ContainerEnds(p, ended) ==
  /\ pod[p] = "running"
  /\ result' = [result EXCEPT ![p] = ended]
  /\ pod' = [pod EXCEPT ![p] =
               CASE setting.proxy -> "halfway"
                 [] ended = "ok" -> "succeeded"
                 [] OTHER -> "failed"]
  /\ changes' = Append(changes, [pod |-> p, ended |-> ended])
  /\ DropCalls(p)
  /\ UNCHANGED <<setting, loopVars, execVars, created, gcVars, service, holder,
                 ackCalls, executed>>

\* A Pod that was told to end has ended and is removed.
PodRemoved(p) ==
  /\ pod[p] = "terminating"
  /\ pod' = [pod EXCEPT ![p] = "gone"]
  /\ result' = [result EXCEPT ![p] = IF @ = "none" THEN "error" ELSE @]
  /\ changes' = Append(changes, [pod |-> p, ended |-> result'[p]])
  /\ nextCalls' = nextCalls \ {p}
  /\ UNCHANGED <<setting, loopVars, execVars, created, gcVars, service, holder,
                 ackCalls, executed>>

\* The informer's periodic resync reports every Pod that it still knows again.
Resync(p) ==
  /\ pod[p] \in {"succeeded", "failed", "halfway"}
  /\ \A i \in DOMAIN changes : changes[i].pod # p
  /\ \E e \in Executions : stage[e] = "waiting"
  /\ changes' = Append(changes, [pod |-> p, ended |-> result[p]])
  /\ UNCHANGED <<setting, loopVars, execVars, pod, created, result, gcVars,
                 serviceVars>>

-----------------------------------------------------------------------------
(* podGC.                                                                    *)

\* Mutant: one Pod fewer is kept.
TooManyByOne(pods) == Cardinality(pods) >= PodCollectionQueueSize

TooMany(pods) == Cardinality(pods) > PodCollectionQueueSize

\* selectFailedPods.
Failed == {p \in Executions : pod[p] = "failed"}

\* Sorted by their time of creation, p comes first.
IsOldest(p, pods) ==
  \A i, j \in DOMAIN created : created[i] = p /\ created[j] \in pods => i <= j

\* A pass of collect lists the Pods that match the labels of the last execution.
\* A pass that has nothing to delete is left out.
ListPods ==
  /\ failedPods = {} /\ TooMany(Failed)
  /\ failedPods' = Failed
  /\ UNCHANGED <<setting, loopVars, execVars, podVars, collected, serviceVars>>

\* isFailedLongAgo is false always: only the length of the list counts.  A Pod that
\* could not be deleted is dropped from the list as well.
CollectPod ==
  /\ failedPods # {}
  /\ IF TooMany(failedPods)
     THEN \E p \in failedPods :
            /\ IsOldest(p, failedPods)
            /\ failedPods' = failedPods \ {p}
            /\ \/ DeletePod(p) /\ collected' = collected \cup {p}
               \/ UNCHANGED <<pod, changes, collected>>
     ELSE failedPods' = {} /\ UNCHANGED <<collected, pod, changes>>
  /\ UNCHANGED <<setting, loopVars, execVars, created, result, serviceVars>>

-----------------------------------------------------------------------------
(* The snapshot service, called by the executors in the Pods.                *)

Holds(p, s) == holder[s] = p

\* The executor calls Next, when it is done with what it got before.
CallNext(p) ==
  /\ IsAlive(p) /\ setting.policy = "Custom"
  /\ p \notin nextCalls
  /\ \A s \in Snapshots : Holds(p, s) => s \in executed
  /\ nextCalls' = nextCalls \cup {p}
  /\ UNCHANGED <<setting, loopVars, execVars, podVars, gcVars, service, holder,
                 ackCalls, executed>>

\* The wait timeout of Next passed, or the agent noticed that the caller is gone.
NextReturnsEmpty(p) ==
  /\ p \in nextCalls
  /\ nextCalls' = nextCalls \ {p}
  /\ UNCHANGED <<setting, loopVars, execVars, podVars, gcVars, service, holder,
                 ackCalls, executed>>

\* Execute hands the snapshot to a waiting call of Next.
NextReturns(p) ==
  /\ service = "offering" /\ p \in nextCalls
  /\ service' = "waiting"
  /\ nextCalls' = nextCalls \ {p}
  /\ holder' = [holder EXCEPT ![taken] = p]
  /\ UNCHANGED <<setting, loopVars, execVars, podVars, gcVars, ackCalls,
                 executed>>

\* The executor acknowledges a snapshot, for the first time or again because it
\* did not see the answer of an earlier call.
CallAck(p, s) ==
  /\ IsAlive(p) /\ Holds(p, s) /\ s \notin ackCalls
  /\ ackCalls' = ackCalls \cup {s}
  /\ executed' = executed \cup {s}
  /\ UNCHANGED <<setting, loopVars, execVars, podVars, gcVars, service, nextCalls,
                 holder>>

\* Mutant: any acknowledgement will do.
IsAwaitedAny(s) == TRUE

IsAwaited(s) == s = taken

\* Execute takes an acknowledgement: its own, or one that it only logs.
AckReceived(s) ==
  /\ service = "waiting" /\ s \in ackCalls
  /\ ackCalls' = ackCalls \ {s}
  /\ service' = IF IsAwaited(s) THEN "idle" ELSE "waiting"
  /\ UNCHANGED <<setting, loopVars, execVars, podVars, gcVars, nextCalls, holder,
                 executed>>

\* The connection broke: the call of Ack ends and nobody took it.
AckLost(s) ==
  /\ s \in ackCalls
  /\ ackCalls' = ackCalls \ {s}
  /\ UNCHANGED <<setting, loopVars, execVars, podVars, gcVars, service, nextCalls,
                 holder, executed>>

-----------------------------------------------------------------------------
Next ==
  \/ TakeAuto \/ TakeRestart \/ TakeCustom \/ LaunchCustom
  \/ ListPods \/ CollectPod
  \/ \E e \in Executions :
       \/ Build(e) \/ BuildFails(e) \/ LaunchPod(e) \/ LaunchFails(e)
       \/ HandleChange(e) \/ GiveUp(e)
       \/ ProcessOutputs(e) \/ ProcessFails(e) \/ Finish(e)
       \/ PodRemoved(e) \/ Resync(e)
       \/ CallNext(e) \/ NextReturnsEmpty(e) \/ NextReturns(e)
       \/ \E p \in Executions : CreateFileURI(e, p)
       \/ \E ended \in {"ok", "error"} : ContainerEnds(e, ended)
       \/ \E s \in Snapshots : CallAck(e, s)
  \/ \E s \in Snapshots : AckReceived(s) \/ AckLost(s)

Spec == Init /\ [][Next]_vars

(***************************************************************************)
(* The wait loops keep running, the collector makes its passes, the cluster *)
(* removes deleted Pods and the informer resyncs.  Nothing is assumed about *)
(* containers, builders and output processors: they may take for ever.      *)
(***************************************************************************)
Fairness ==
  /\ WF_vars(ListPods) /\ WF_vars(CollectPod)
  /\ \A e \in Executions :
       /\ WF_vars(HandleChange(e)) /\ WF_vars(GiveUp(e)) /\ WF_vars(Finish(e))
       /\ WF_vars(PodRemoved(e)) /\ WF_vars(Resync(e))

FairSpec == Spec /\ Fairness

-----------------------------------------------------------------------------
(* Properties.                                                               *)

PodState == {"none", "running", "halfway", "succeeded", "failed",
             "terminating", "gone"}
Stage == {"none", "preparing", "launching", "waiting", "processing", "removing",
          "succeeded", "failed"}
Change == [pod : Executions, ended : {"ok", "error"}]

\* Every variable has its type; volumes and claims exist during Execute only, but
\* for those that a failing builder forgot or that could not be deleted.
TaskExecutionTypeOK ==
  /\ setting \in TaskSetting
  /\ taken \in 0..MaxSnapshots /\ started \in 0..MaxExecutions
  /\ lastCancel \in 0..MaxExecutions
  /\ stage \in [Executions -> Stage]
  /\ snapshotOf \in [Executions -> 0..MaxSnapshots]
  /\ cancelled \subseteq Executions
  /\ resources \subseteq {e \in Executions : InExecute(e)} \cup leftResources
  /\ leftPods \subseteq Executions /\ leftResources \subseteq Executions
  /\ misled \subseteq Executions
  /\ acked \subseteq Snapshots
  /\ pod \in [Executions -> PodState]
  /\ changes \in Seq(Change) /\ created \in Seq(Executions)
  /\ result \in [Executions -> {"none", "ok", "error"}]
  /\ failedPods \subseteq Executions /\ collected \subseteq Executions
  /\ service \in {"idle", "offering", "waiting"}
  /\ nextCalls \subseteq Executions
  /\ holder \in [Snapshots -> 0..MaxExecutions]
  /\ ackCalls \subseteq Snapshots /\ executed \subseteq Snapshots

\* The outputs of an execution are processed, and its values acknowledged, only
\* when its own executor container ended well, although all executions read one
\* channel of changes, on which changes of deleted Pods come late.  An executor gets
\* URIs in its own volumes, although all executions take calls of CreateFileURI;
\* not so under Restart, where executions overlap.
OwnResults ==
  /\ \A e \in Executions :
       stage[e] \in {"processing", "removing", "succeeded"} => result[e] = "ok"
  /\ \A s \in acked : \E e \in Executions :
       snapshotOf[e] = s /\ stage[e] = "succeeded"
  /\ setting.policy # "Restart" => misled = {}

\* A Pod that was not told to end has an Execute call that waits for it, and its
\* volumes: no path out of Execute leaves an executor running on its own, unless
\* the API server refused to delete its Pod.
NoStrayPod ==
  \A e \in Executions :
    pod[e] = "running" =>
      \/ stage[e] = "waiting" /\ e \in resources
      \/ e \in leftPods

\* The collector keeps the newest failed Pods: whatever fails between its list
\* and its deletions, a collected Pod has enough failed ones after it.
NewestFailedKept ==
  \A p \in collected :
    Cardinality({i \in DOMAIN created : result[created[i]] = "error" /\
                   \E j \in 1..(i - 1) : created[j] = p}) >= PodCollectionQueueSize

\* Custom executors execute one snapshot at a time, in the order in which they
\* were taken: a snapshot is handed out when all earlier ones were executed, also
\* when executors die, are launched again and repeat acknowledgements.
OneSnapshotAtATime ==
  \A s \in Snapshots : holder[s] # 0 => \A r \in 1..(s - 1) : r \in executed

\* Execute ends when the executor container has ended, although another
\* execution may take the change off the channel: the next resync reports the Pod
\* again, unless the collector removed it meanwhile.
ExecutionsEnd ==
  \A e \in Executions :
    (stage[e] = "waiting" /\ result[e] # "none")
      ~> (stage[e] # "waiting" \/ pod[e] = "gone")

\* Restart: the executor of a superseded execution is stopped in the end, if its
\* Pod can be deleted.
SupersededStop ==
  \A e \in Executions :
    (stage[e] = "waiting" /\ started > e /\ setting.policy = "Restart")
      ~> (pod[e] \in {"gone", "failed", "succeeded", "halfway"} \/ e \in leftPods)

=============================================================================
