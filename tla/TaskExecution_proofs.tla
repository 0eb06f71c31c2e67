------------------------- MODULE TaskExecution_proofs -------------------------
(***************************************************************************)
(* Proofs about TaskExecution, for every number of snapshots, executions,  *)
(* launches and faults, and tasks of every launch policy.                  *)
(***************************************************************************)
EXTENDS TaskExecution, FiniteSetTheorems, TLAPS

-----------------------------------------------------------------------------
(* Type correctness.                                                       *)

LoopTypeOK ==
  /\ setting \in TaskSetting
  /\ taken \in 0..MaxSnapshots /\ started \in 0..MaxExecutions
  /\ lastCancel \in 0..MaxExecutions

ExecTypeOK ==
  /\ stage \in [Executions -> Stage]
  /\ snapshotOf \in [Executions -> 0..MaxSnapshots]
  /\ cancelled \subseteq Executions
  /\ resources \subseteq {e \in Executions : InExecute(e)} \cup leftResources
  /\ leftPods \subseteq Executions /\ leftResources \subseteq Executions
  /\ misled \subseteq Executions
  /\ acked \subseteq Snapshots

PodTypeOK ==
  /\ pod \in [Executions -> PodState]
  /\ changes \in Seq(Change) /\ created \in Seq(Executions)
  /\ result \in [Executions -> {"none", "ok", "error"}]
  /\ failedPods \subseteq Executions /\ collected \subseteq Executions

ServiceTypeOK ==
  /\ service \in {"idle", "offering", "waiting"}
  /\ nextCalls \subseteq Executions
  /\ holder \in [Snapshots -> 0..MaxExecutions]
  /\ ackCalls \subseteq Snapshots /\ executed \subseteq Snapshots

LEMMA TypeParts ==
  TaskExecutionTypeOK <=> LoopTypeOK /\ ExecTypeOK /\ PodTypeOK /\ ServiceTypeOK
BY Zenon DEF TaskExecutionTypeOK, LoopTypeOK, ExecTypeOK, PodTypeOK, ServiceTypeOK

\* What the cluster knows of a Pod tells whether its executor container has ended,
\* and a change on its way says how.
EndsKnown ==
  /\ \A p \in Executions :
       /\ pod[p] \in {"none", "running"} => result[p] = "none"
       /\ pod[p] \in {"halfway", "succeeded", "failed", "gone"} => result[p] # "none"
  /\ \A i \in DOMAIN changes : changes[i].ended = result[changes[i].pod]

PodInv == PodTypeOK /\ EndsKnown

\* A change that says how a Pod ended can be queued, and no later one contradicts it.
LEMMA ChangeQueued ==
  ASSUME PodInv, NEW p \in Executions,
         changes' = Append(changes, [pod |-> p, ended |-> result'[p]]),
         result'[p] \in {"ok", "error"},
         \A q \in Executions : result[q] # "none" => result'[q] = result[q]
  PROVE  /\ changes' \in Seq(Change)
         /\ \A i \in DOMAIN changes' : changes'[i].ended = result'[changes'[i].pod]
<1> DEFINE change == [pod |-> p, ended |-> result'[p]]
<1>1. change \in Change
  BY DEF Change
<1>2. changes \in Seq(Change) /\ Len(changes) \in Nat /\ DOMAIN changes = 1..Len(changes)
  BY DEF PodInv, PodTypeOK
<1>3. changes' \in Seq(Change)
  BY <1>1, <1>2
<1>4. ASSUME NEW i \in DOMAIN changes' PROVE changes'[i].ended = result'[changes'[i].pod]
  <2>1. CASE i \in DOMAIN changes
    <3>1. changes'[i] = changes[i]
      BY <2>1, <1>1, <1>2
    <3>2. changes[i] \in Change
      BY <2>1, <1>2
    <3>3. changes[i].pod \in Executions /\ changes[i].ended \in {"ok", "error"}
      BY <3>2 DEF Change
    <3>4. changes[i].ended = result[changes[i].pod]
      BY <2>1 DEF PodInv, EndsKnown
    <3>5. QED BY <3>1, <3>3, <3>4
  <2>2. CASE i = Len(changes) + 1
    BY <2>2, <1>1, <1>2
  <2>3. QED BY <2>1, <2>2, <1>1, <1>2
<1>5. QED BY <1>3, <1>4

\* A deletion leaves the Pods and changes well formed and tells nothing new about how
\* an executor ended.
LEMMA DeletePodOK ==
  ASSUME PodInv, NEW p \in Executions, DeletePod(p), UNCHANGED result
  PROVE  /\ pod' \in [Executions -> PodState]
         /\ changes' \in Seq(Change)
         /\ EndsKnown'
         /\ \A q \in Executions :
              pod'[q] # pod[q] =>
                /\ q = p
                /\ pod'[q] \in {"gone", "terminating"}
                /\ pod'[q] = "gone" => pod[q] \in {"succeeded", "failed"}
                /\ pod'[q] = "terminating" => pod[q] \in {"running", "halfway"}
         /\ pod'[p] # "running"
<1>1. CASE pod[p] \in {"succeeded", "failed"}
  <2>1. /\ pod' = [pod EXCEPT ![p] = "gone"]
        /\ changes' = Append(changes, [pod |-> p, ended |-> result[p]])
    BY <1>1 DEF DeletePod
  <2>2. result[p] \in {"ok", "error"}
    BY <1>1 DEF PodInv, PodTypeOK, EndsKnown
  <2>3. /\ changes' \in Seq(Change)
        /\ \A i \in DOMAIN changes' : changes'[i].ended = result'[changes'[i].pod]
    BY <2>1, <2>2, ChangeQueued
  <2>4. QED BY <1>1, <2>1, <2>2, <2>3 DEF PodInv, PodTypeOK, EndsKnown, PodState
<1>2. CASE pod[p] \in {"running", "halfway"}
  <2>1. pod' = [pod EXCEPT ![p] = "terminating"] /\ UNCHANGED changes
    BY <1>2 DEF DeletePod
  <2>2. QED BY <1>2, <2>1 DEF PodInv, PodTypeOK, EndsKnown, PodState
<1>3. CASE pod[p] \notin {"succeeded", "failed", "running", "halfway"}
  <2>1. UNCHANGED <<pod, changes>>
    BY <1>3 DEF DeletePod
  <2>2. QED BY <1>3, <2>1 DEF PodInv, PodTypeOK, EndsKnown
<1>4. QED BY <1>1, <1>2, <1>3

\* The same for a deletion by Execute, which may fail.
LEMMA DeleteOwnPodOK ==
  ASSUME PodInv, NEW p \in Executions, DeleteOwnPod(p), UNCHANGED result
  PROVE  /\ pod' \in [Executions -> PodState]
         /\ changes' \in Seq(Change)
         /\ EndsKnown'
         /\ \A q \in Executions :
              pod'[q] # pod[q] =>
                /\ q = p
                /\ pod'[q] \in {"gone", "terminating"}
                /\ pod'[q] = "gone" => pod[q] \in {"succeeded", "failed"}
                /\ pod'[q] = "terminating" => pod[q] \in {"running", "halfway"}
         /\ pod'[p] = "running" => p \in leftPods'
         /\ leftPods' \subseteq leftPods \cup {p} /\ leftPods \subseteq leftPods'
<1>1. CASE DeletePod(p) /\ UNCHANGED leftPods
  BY <1>1, DeletePodOK
<1>2. CASE leftPods' = leftPods \cup {p} /\ UNCHANGED <<pod, changes>>
  BY <1>2 DEF PodInv, PodTypeOK, EndsKnown
<1>3. QED BY <1>1, <1>2 DEF DeleteOwnPod

\* Taking a change off the channel.
LEMMA ChangeTaken ==
  ASSUME PodInv, changes # <<>>, changes' = Tail(changes), UNCHANGED <<pod, result>>
  PROVE  changes' \in Seq(Change) /\ EndsKnown' /\ Head(changes) \in Change
         /\ Head(changes).ended = result[Head(changes).pod]
<1>1. changes \in Seq(Change) /\ Len(changes) \in Nat /\ DOMAIN changes = 1..Len(changes)
  BY DEF PodInv, PodTypeOK
<1>2. Len(changes) # 0
  BY <1>1
<1>3. changes' \in Seq(Change) /\ DOMAIN changes' = 1..(Len(changes) - 1)
      /\ \A i \in DOMAIN changes' : changes'[i] = changes[i + 1] /\ i + 1 \in DOMAIN changes
  BY <1>1, <1>2
<1>4. Head(changes) = changes[1] /\ 1 \in DOMAIN changes /\ changes[1] \in Change
  BY <1>1, <1>2
<1>5. QED BY <1>3, <1>4 DEF PodInv, EndsKnown

\* What Execute's return does to the resources.
LEMMA ReturnOK ==
  ASSUME ExecTypeOK, NEW e \in Executions, NEW outcome \in {"failed", "succeeded"},
         Return(e, outcome), InExecute(e)
  PROVE  /\ stage' = [stage EXCEPT ![e] = outcome] /\ stage' \in [Executions -> Stage]
         /\ \A d \in Executions : d # e => stage'[d] = stage[d]
         /\ stage'[e] = outcome
         /\ resources' \subseteq {d \in Executions : InExecute(d)'} \cup leftResources'
         /\ leftResources' \subseteq Executions
         /\ \A d \in Executions : d # e => (d \in resources' <=> d \in resources)
<1>1. /\ stage' = [stage EXCEPT ![e] = outcome] /\ stage' \in [Executions -> Stage]
      /\ stage'[e] = outcome
      /\ \A d \in Executions : d # e => stage'[d] = stage[d]
  BY DEF Return, ExecTypeOK, Stage
<1>2. \A d \in Executions : d # e => (InExecute(d)' <=> InExecute(d))
  BY <1>1 DEF InExecute
<1>3. \/ resources' = resources \ {e} /\ UNCHANGED leftResources
      \/ leftResources' = leftResources \cup {e} /\ UNCHANGED resources
  BY DEF Return
<1>4. QED BY <1>1, <1>2, <1>3 DEF ExecTypeOK

\* How a step of Execute that does not return moves an execution on.
LEMMA MoveOK ==
  ASSUME ExecTypeOK, NEW e \in Executions,
         NEW next \in {"preparing", "launching", "waiting", "processing", "removing"},
         stage' = [stage EXCEPT ![e] = next], UNCHANGED leftResources,
         resources' = resources \/ resources' = resources \cup {e}
  PROVE  /\ stage' \in [Executions -> Stage] /\ stage'[e] = next
         /\ \A d \in Executions : d # e => stage'[d] = stage[d]
         /\ resources' \subseteq {d \in Executions : InExecute(d)'} \cup leftResources'
<1>1. /\ stage' \in [Executions -> Stage] /\ stage'[e] = next
      /\ \A d \in Executions : d # e => stage'[d] = stage[d]
  BY DEF ExecTypeOK, Stage
<1>2. InExecute(e)' /\ \A d \in Executions : InExecute(d) => InExecute(d)'
  BY <1>1 DEF InExecute
<1>3. QED BY <1>1, <1>2 DEF ExecTypeOK

\* Executions begin in order, and have no resources before the builders.
Begun ==
  \A e \in Executions :
    /\ e > started => stage[e] = "none"
    /\ stage[e] \in {"none", "preparing"} => e \notin resources

TypeInv == LoopTypeOK /\ ExecTypeOK /\ Begun /\ PodInv /\ ServiceTypeOK

\* An execution has no Pod before it is launched.
NotLaunched ==
  \A e \in Executions : stage[e] \in {"none", "preparing", "launching"} => pod[e] = "none"

LEMMA InitTypeInv == Init => TypeInv
<1> SUFFICES ASSUME Init PROVE TypeInv
  OBVIOUS
<1> USE TaskExecutionAssumption DEF Init
<1>1. LoopTypeOK
  BY DEF LoopTypeOK
<1>2. ExecTypeOK
  BY DEF ExecTypeOK, Stage
<1>3. PodInv
  BY DEF PodInv, PodTypeOK, EndsKnown, PodState
<1>4. ServiceTypeOK
  BY DEF ServiceTypeOK
<1>5. Begun
  BY DEF Begun
<1>6. QED BY <1>1, <1>2, <1>3, <1>4, <1>5 DEF TypeInv

LEMMA Unchanged ==
  /\ LoopTypeOK /\ UNCHANGED <<setting, loopVars>> => LoopTypeOK'
  /\ ExecTypeOK /\ UNCHANGED execVars => ExecTypeOK'
  /\ Begun /\ UNCHANGED <<started, stage, resources>> => Begun'
  /\ PodInv /\ UNCHANGED <<podVars, gcVars>> => PodInv'
  /\ ServiceTypeOK /\ UNCHANGED serviceVars => ServiceTypeOK'
<1>1. LoopTypeOK /\ UNCHANGED <<setting, loopVars>> => LoopTypeOK'
  BY DEF LoopTypeOK, loopVars
<1>2. ExecTypeOK /\ UNCHANGED execVars => ExecTypeOK'
  BY DEF ExecTypeOK, execVars, leftVars, InExecute
<1>3. PodInv /\ UNCHANGED <<podVars, gcVars>> => PodInv'
  BY DEF PodInv, PodTypeOK, EndsKnown, podVars, gcVars
<1>4. ServiceTypeOK /\ UNCHANGED serviceVars => ServiceTypeOK'
  BY DEF ServiceTypeOK, serviceVars
<1>5. Begun /\ UNCHANGED <<started, stage, resources>> => Begun'
  BY DEF Begun
<1>6. QED BY <1>1, <1>2, <1>3, <1>4, <1>5

\* A new execution has a number of its own.
LEMMA StartOK ==
  ASSUME LoopTypeOK, ExecTypeOK, Begun, NEW s \in 0..MaxSnapshots, Start(s),
         UNCHANGED <<resources, leftVars, misled, acked>>
  PROVE  /\ started + 1 \in Executions /\ started' = started + 1
         /\ started' \in 0..MaxExecutions
         /\ stage' \in [Executions -> Stage] /\ stage'[started + 1] = "preparing"
         /\ \A d \in Executions : d # started + 1 =>
              stage'[d] = stage[d] /\ snapshotOf'[d] = snapshotOf[d]
         /\ stage[started + 1] = "none"
         /\ Begun'
         /\ snapshotOf' \in [Executions -> 0..MaxSnapshots]
         /\ resources' \subseteq {d \in Executions : InExecute(d)'} \cup leftResources'
<1>1. started + 1 \in Executions /\ started' = started + 1 /\ started' \in 0..MaxExecutions
  BY TaskExecutionAssumption DEF Start, LoopTypeOK, Executions
<1>2. stage' = [stage EXCEPT ![started + 1] = "preparing"]
      /\ snapshotOf' = [snapshotOf EXCEPT ![started + 1] = s]
  BY DEF Start
<1>3. snapshotOf' \in [Executions -> 0..MaxSnapshots]
      /\ \A d \in Executions : d # started + 1 => snapshotOf'[d] = snapshotOf[d]
  BY <1>1, <1>2 DEF ExecTypeOK
<1>4. /\ stage' \in [Executions -> Stage] /\ stage'[started + 1] = "preparing"
      /\ \A d \in Executions : d # started + 1 => stage'[d] = stage[d]
      /\ resources' \subseteq {d \in Executions : InExecute(d)'} \cup leftResources'
  BY <1>1, <1>2, MoveOK DEF leftVars
<1>5. started \in Nat /\ Executions \subseteq Nat
  BY TaskExecutionAssumption DEF LoopTypeOK, Executions
<1>6. stage[started + 1] = "none"
  BY <1>1, <1>5 DEF Begun
<1>7. Begun'
  BY <1>1, <1>4, <1>5, <1>6 DEF Begun
<1>8. QED BY <1>1, <1>3, <1>4, <1>6, <1>7

\* Steps of the processor.
LEMMA LoopStepsTyped ==
  ASSUME TypeInv, TakeAuto \/ TakeRestart \/ TakeCustom \/ LaunchCustom
  PROVE  TypeInv'
<1> USE DEF TypeInv
<1>t. taken < MaxSnapshots => taken + 1 \in 0..MaxSnapshots
  BY TaskExecutionAssumption DEF LoopTypeOK
<1>0. 0 \in 0..MaxSnapshots
  BY TaskExecutionAssumption
<1>1. CASE TakeAuto
  <2>1. Start(taken + 1) /\ taken < MaxSnapshots /\ taken' = taken + 1
        /\ UNCHANGED <<setting, lastCancel, cancelled, resources, leftVars, misled, acked>>
    BY <1>1 DEF TakeAuto
  <2>2. LoopTypeOK'
    BY <2>1, <1>t, StartOK DEF LoopTypeOK
  <2>3. ExecTypeOK'
    BY <2>1, <1>t, StartOK DEF ExecTypeOK, leftVars
  <2>4. QED BY <1>1, <1>t, <2>1, <2>2, <2>3, StartOK, Unchanged DEF TakeAuto
<1>2. CASE TakeRestart
  <2>1. Start(taken + 1) /\ taken < MaxSnapshots /\ taken' = taken + 1
        /\ lastCancel' = started + 1 /\ cancelled' = cancelled \cup ({lastCancel} \ {0})
        /\ UNCHANGED <<setting, resources, leftVars, misled, acked>>
    BY <1>2 DEF TakeRestart
  <2>2. LoopTypeOK'
    BY <2>1, <1>t, StartOK DEF LoopTypeOK, Executions
  <2>3. {lastCancel} \ {0} \subseteq Executions
    BY TaskExecutionAssumption DEF LoopTypeOK, Executions
  <2>4. ExecTypeOK'
    BY <2>1, <2>3, <1>t, StartOK DEF ExecTypeOK, leftVars
  <2>5. QED BY <1>2, <1>t, <2>1, <2>2, <2>4, StartOK, Unchanged DEF TakeRestart
<1>3. CASE TakeCustom
  <2>1. LoopTypeOK' /\ ServiceTypeOK'
    BY <1>3, <1>t DEF TakeCustom, LoopTypeOK, ServiceTypeOK
  <2>2. QED BY <1>3, <2>1, Unchanged DEF TakeCustom, execVars
<1>4. CASE LaunchCustom
  <2>1. Start(0) /\ UNCHANGED <<setting, taken, lastCancel, cancelled, resources, leftVars,
                                misled, acked>>
    BY <1>4 DEF LaunchCustom
  <2>2. LoopTypeOK'
    BY <2>1, <1>0, StartOK DEF LoopTypeOK
  <2>3. ExecTypeOK'
    BY <2>1, <1>0, StartOK DEF ExecTypeOK, leftVars
  <2>4. QED BY <1>4, <1>0, <2>1, <2>2, <2>3, StartOK, Unchanged DEF LaunchCustom
<1>5. QED BY <1>1, <1>2, <1>3, <1>4

\* Steps of Execute.
LEMMA ExecStepsTyped ==
  ASSUME TypeInv, NotLaunched, NEW e \in Executions,
         \/ Build(e) \/ BuildFails(e) \/ LaunchPod(e) \/ LaunchFails(e)
         \/ HandleChange(e) \/ GiveUp(e) \/ ProcessOutputs(e) \/ ProcessFails(e) \/ Finish(e)
  PROVE  TypeInv'
<1> USE DEF TypeInv
<1>l. UNCHANGED <<setting, loopVars>> /\ LoopTypeOK'
  BY Unchanged DEF Build, BuildFails, LaunchPod, LaunchFails, HandleChange, GiveUp,
                   ProcessOutputs, ProcessFails, Finish
<1>s. UNCHANGED serviceVars /\ ServiceTypeOK'
  BY Unchanged DEF Build, BuildFails, LaunchPod, LaunchFails, HandleChange, GiveUp,
                   ProcessOutputs, ProcessFails, Finish
<1>k. UNCHANGED <<snapshotOf, cancelled, misled>>
  BY DEF Build, BuildFails, LaunchPod, LaunchFails, HandleChange, GiveUp,
         ProcessOutputs, ProcessFails, Finish
<1>n. started \in Nat /\ started' = started
  BY <1>l, TaskExecutionAssumption DEF LoopTypeOK, loopVars
\* An execution that goes on.
<1>go. ASSUME NEW next \in {"launching", "waiting", "processing", "removing"},
              stage' = [stage EXCEPT ![e] = next], stage[e] # "none",
              resources' = resources \/ resources' = resources \cup {e},
              UNCHANGED <<leftVars, acked>>
       PROVE  ExecTypeOK' /\ Begun'
  <2>1. ExecTypeOK'
    BY <1>go, <1>k, MoveOK DEF ExecTypeOK, leftVars
  <2>2. stage'[e] = next /\ \A d \in Executions : d # e => stage'[d] = stage[d]
    BY <1>go DEF ExecTypeOK
  <2>3. Begun'
    BY <1>go, <1>n, <2>2 DEF Begun
  <2>4. QED BY <2>1, <2>3
\* An execution that returns.
<1>ret. ASSUME NEW outcome \in {"failed", "succeeded"}, Return(e, outcome), InExecute(e),
               leftPods' \subseteq Executions, acked' \subseteq Snapshots
        PROVE  ExecTypeOK' /\ Begun'
  <2>1. ExecTypeOK'
    BY <1>ret, <1>k, ReturnOK DEF ExecTypeOK
  <2>2. /\ stage[e] # "none" /\ stage'[e] = outcome
        /\ \A d \in Executions : d # e => stage'[d] = stage[d]
        /\ \A d \in Executions : d # e => (d \in resources' <=> d \in resources)
    BY <1>ret, ReturnOK DEF InExecute
  <2>3. Begun'
    BY <1>n, <2>2 DEF Begun
  <2>4. QED BY <2>1, <2>3
<1>1. CASE Build(e)
  <2>1. ExecTypeOK' /\ Begun'
    BY <1>1, <1>go DEF Build
  <2>2. QED BY <1>1, <1>l, <1>s, <2>1, Unchanged DEF Build
<1>2. CASE BuildFails(e)
  <2>1. /\ stage' = [stage EXCEPT ![e] = "failed"]
        /\ \/ UNCHANGED <<resources, leftResources>>
           \/ resources' = resources \cup {e} /\ leftResources' = leftResources \cup {e}
        /\ stage[e] = "preparing"
        /\ UNCHANGED <<leftPods, acked>>
    BY <1>2 DEF BuildFails
  <2>2. stage' \in [Executions -> Stage] /\ stage'[e] = "failed"
        /\ \A d \in Executions : d # e => stage'[d] = stage[d]
    BY <2>1 DEF ExecTypeOK, Stage
  <2>3. e \notin resources
    BY <2>1 DEF Begun
  <2>4. \A d \in Executions : d # e => (InExecute(d)' <=> InExecute(d))
    BY <2>2 DEF InExecute
  <2>5. resources' \subseteq {d \in Executions : InExecute(d)'} \cup leftResources'
    BY <2>1, <2>3, <2>4 DEF ExecTypeOK
  <2>6. leftResources' \subseteq Executions
    BY <2>1 DEF ExecTypeOK
  <2>7. ExecTypeOK'
    BY <1>k, <2>1, <2>2, <2>5, <2>6 DEF ExecTypeOK
  <2>8. Begun'
    BY <1>n, <2>1, <2>2 DEF Begun
  <2>9. QED BY <1>2, <1>l, <1>s, <2>7, <2>8, Unchanged DEF BuildFails
<1>3. CASE LaunchPod(e)
  <2>1. ExecTypeOK' /\ Begun'
    BY <1>3, <1>go DEF LaunchPod
  <2>2. stage[e] = "launching" /\ pod' = [pod EXCEPT ![e] = "running"]
        /\ created' = Append(created, e) /\ UNCHANGED <<changes, result, gcVars>>
    BY <1>3 DEF LaunchPod
  <2>3. pod[e] = "none"
    BY <2>2 DEF NotLaunched
  <2>4. PodTypeOK'
    BY <2>2 DEF PodInv, PodTypeOK, PodState, gcVars
  <2>5. EndsKnown'
    <3>1. \A p \in Executions : pod'[p] = IF p = e THEN "running" ELSE pod[p]
      BY <2>2 DEF PodInv, PodTypeOK
    <3>2. QED BY <2>2, <2>3, <3>1 DEF PodInv, EndsKnown
  <2>6. QED BY <1>l, <1>s, <2>1, <2>4, <2>5 DEF PodInv
<1>4. CASE LaunchFails(e) \/ ProcessFails(e)
  <2>1. ExecTypeOK' /\ Begun'
    BY <1>4, <1>ret DEF LaunchFails, ProcessFails, InExecute, ExecTypeOK
  <2>2. QED BY <1>4, <1>l, <1>s, <2>1, Unchanged DEF LaunchFails, ProcessFails
<1>5. CASE ProcessOutputs(e)
  <2>1. ExecTypeOK' /\ Begun'
    BY <1>5, <1>go DEF ProcessOutputs
  <2>2. QED BY <1>5, <1>l, <1>s, <2>1, Unchanged DEF ProcessOutputs
<1>6. CASE HandleChange(e)
  <2>1. changes # <<>> /\ changes' = Tail(changes) /\ stage[e] = "waiting"
        /\ UNCHANGED <<leftPods, acked, pod, created, result, gcVars>>
    BY <1>6 DEF HandleChange
  <2>2. Head(changes) \in Change /\ PodInv'
    BY <2>1, ChangeTaken DEF PodInv, PodTypeOK, gcVars
  <2>3. \/ UNCHANGED <<stage, resources, leftResources>>
        \/ stage' = [stage EXCEPT ![e] = "processing"] /\ UNCHANGED <<resources, leftResources>>
        \/ Return(e, "failed")
    BY <1>6, <2>2 DEF HandleChange, Change
  <2>4. ExecTypeOK' /\ Begun'
    <3>1. CASE UNCHANGED <<stage, resources, leftResources>>
      BY <1>k, <1>n, <2>1, <3>1, Unchanged DEF execVars, leftVars
    <3>2. CASE stage' = [stage EXCEPT ![e] = "processing"] /\ UNCHANGED <<resources, leftResources>>
      BY <1>go, <2>1, <3>2 DEF leftVars
    <3>3. CASE Return(e, "failed")
      BY <1>ret, <2>1, <3>3 DEF InExecute, ExecTypeOK
    <3>4. QED BY <2>3, <3>1, <3>2, <3>3
  <2>5. QED BY <1>l, <1>s, <2>2, <2>4
<1>7. CASE GiveUp(e) \/ Finish(e)
  <2>1. /\ DeleteOwnPod(e) /\ InExecute(e) /\ UNCHANGED <<created, result, gcVars>>
        /\ Return(e, "failed") \/ Return(e, "succeeded")
    BY <1>7 DEF GiveUp, Finish, InExecute
  <2>2. acked' \subseteq Snapshots
    <3>1. {snapshotOf[e]} \ {0} \subseteq Snapshots
      BY TaskExecutionAssumption DEF ExecTypeOK, Snapshots
    <3>2. QED BY <1>7, <3>1 DEF GiveUp, Finish, ExecTypeOK
  <2>3. PodInv' /\ leftPods' \subseteq Executions
    BY <2>1, DeleteOwnPodOK DEF PodInv, PodTypeOK, gcVars, ExecTypeOK
  <2>4. ExecTypeOK' /\ Begun'
    BY <1>ret, <2>1, <2>2, <2>3
  <2>5. QED BY <1>l, <1>s, <2>3, <2>4
<1>8. QED BY <1>1, <1>2, <1>3, <1>4, <1>5, <1>6, <1>7

\* Steps of the cluster, of the collector of Pods and of CreateFileURI.
LEMMA ClusterStepsTyped ==
  ASSUME TypeInv, NEW e \in Executions, NEW p \in Executions,
         NEW ended \in {"ok", "error"},
         ContainerEnds(e, ended) \/ PodRemoved(e) \/ Resync(e) \/ CreateFileURI(e, p)
  PROVE  TypeInv'
<1> USE DEF TypeInv
<1>1. CASE ContainerEnds(e, ended)
  <2>1. /\ pod[e] = "running"
        /\ result' = [result EXCEPT ![e] = ended]
        /\ pod' = [pod EXCEPT ![e] = CASE setting.proxy -> "halfway"
                                      [] ended = "ok" -> "succeeded"
                                      [] OTHER -> "failed"]
        /\ changes' = Append(changes, [pod |-> e, ended |-> ended])
        /\ DropCalls(e)
        /\ UNCHANGED <<setting, loopVars, execVars, created, gcVars, service, holder,
                       ackCalls, executed>>
    BY <1>1 DEF ContainerEnds
  <2>2. result[e] = "none" /\ result'[e] = ended
        /\ \A q \in Executions : q # e => result'[q] = result[q]
    BY <2>1 DEF PodInv, PodTypeOK, EndsKnown
  <2>3. pod'[e] \in {"halfway", "succeeded", "failed"} /\ pod' \in [Executions -> PodState]
        /\ \A q \in Executions : q # e => pod'[q] = pod[q]
    BY <2>1 DEF PodInv, PodTypeOK, PodState
  <2>4. /\ changes' \in Seq(Change)
        /\ \A i \in DOMAIN changes' : changes'[i].ended = result'[changes'[i].pod]
    <3>1. \A q \in Executions : result[q] # "none" => result'[q] = result[q]
      BY <2>2
    <3>2. changes' = Append(changes, [pod |-> e, ended |-> result'[e]])
      BY <2>1, <2>2
    <3>3. result'[e] \in {"ok", "error"}
      BY <2>2
    <3>4. QED BY <3>1, <3>2, <3>3, ChangeQueued
  <2>5. PodInv'
    BY <2>1, <2>2, <2>3, <2>4 DEF PodInv, PodTypeOK, EndsKnown, gcVars
  <2>6. ServiceTypeOK'
    BY <2>1 DEF ServiceTypeOK, DropCalls
  <2>7. QED BY <2>1, <2>5, <2>6, Unchanged DEF execVars, loopVars
<1>2. CASE PodRemoved(e)
  <2>1. /\ pod[e] = "terminating" /\ pod' = [pod EXCEPT ![e] = "gone"]
        /\ result' = [result EXCEPT ![e] = IF @ = "none" THEN "error" ELSE @]
        /\ changes' = Append(changes, [pod |-> e, ended |-> result'[e]])
        /\ nextCalls' = nextCalls \ {e}
        /\ UNCHANGED <<setting, loopVars, execVars, created, gcVars, service, holder,
                       ackCalls, executed>>
    BY <1>2 DEF PodRemoved
  <2>2. /\ result'[e] \in {"ok", "error"} /\ result' \in [Executions -> {"none", "ok", "error"}]
        /\ \A q \in Executions : q # e => result'[q] = result[q]
        /\ \A q \in Executions : result[q] # "none" => result'[q] = result[q]
    BY <2>1 DEF PodInv, PodTypeOK
  <2>3. pod'[e] = "gone" /\ pod' \in [Executions -> PodState]
        /\ \A q \in Executions : q # e => pod'[q] = pod[q]
    BY <2>1 DEF PodInv, PodTypeOK, PodState
  <2>4. /\ changes' \in Seq(Change)
        /\ \A i \in DOMAIN changes' : changes'[i].ended = result'[changes'[i].pod]
    BY <2>1, <2>2, ChangeQueued
  <2>5. PodInv'
    BY <2>1, <2>2, <2>3, <2>4 DEF PodInv, PodTypeOK, EndsKnown, gcVars
  <2>6. ServiceTypeOK'
    BY <2>1 DEF ServiceTypeOK
  <2>7. QED BY <2>1, <2>5, <2>6, Unchanged DEF execVars, loopVars
<1>3. CASE Resync(e)
  <2>1. /\ pod[e] \in {"succeeded", "failed", "halfway"}
        /\ changes' = Append(changes, [pod |-> e, ended |-> result[e]])
        /\ UNCHANGED <<setting, loopVars, execVars, pod, created, result, gcVars, serviceVars>>
    BY <1>3 DEF Resync
  <2>2. result'[e] \in {"ok", "error"}
    BY <2>1 DEF PodInv, PodTypeOK, EndsKnown
  <2>3. /\ changes' \in Seq(Change)
        /\ \A i \in DOMAIN changes' : changes'[i].ended = result'[changes'[i].pod]
    BY <2>1, <2>2, ChangeQueued
  <2>4. PodInv'
    BY <2>1, <2>3 DEF PodInv, PodTypeOK, EndsKnown, gcVars
  <2>5. QED BY <2>1, <2>4, Unchanged DEF execVars, loopVars
<1>4. CASE CreateFileURI(e, p)
  <2>1. ExecTypeOK'
    BY <1>4 DEF CreateFileURI, ExecTypeOK, InExecute, leftVars
  <2>2. QED BY <1>4, <2>1, Unchanged DEF CreateFileURI, loopVars
<1>5. QED BY <1>1, <1>2, <1>3, <1>4

LEMMA CollectorStepsTyped ==
  ASSUME TypeInv, ListPods \/ CollectPod
  PROVE  TypeInv'
<1> USE DEF TypeInv
<1>1. UNCHANGED <<setting, loopVars, execVars, created, result, serviceVars>>
  BY DEF ListPods, CollectPod, podVars
<1>2. CASE UNCHANGED <<pod, changes>>
  <2>1. failedPods' \subseteq Executions /\ collected' \subseteq Executions
    BY DEF ListPods, CollectPod, Failed, PodInv, PodTypeOK
  <2>2. PodInv'
    BY <1>1, <1>2, <2>1 DEF PodInv, PodTypeOK, EndsKnown
  <2>3. QED BY <1>1, <1>2, <2>2, Unchanged DEF execVars, loopVars
<1>3. ASSUME NEW p \in failedPods, DeletePod(p), failedPods' = failedPods \ {p},
             collected' = collected \cup {p}
      PROVE  TypeInv'
  <2>1. p \in Executions
    BY DEF PodInv, PodTypeOK
  <2>2. PodInv'
    BY <1>1, <1>3, <2>1, DeletePodOK DEF PodInv, PodTypeOK
  <2>3. QED BY <1>1, <2>2, Unchanged DEF execVars, loopVars
<1>4. QED BY <1>2, <1>3 DEF ListPods, CollectPod, podVars

\* Steps of the snapshot service.
LEMMA NextStepsTyped ==
  ASSUME TypeInv, NEW p \in Executions,
         CallNext(p) \/ NextReturnsEmpty(p) \/ NextReturns(p)
  PROVE  TypeInv'
<1> USE DEF TypeInv
<1>1. UNCHANGED <<setting, loopVars, execVars, podVars, gcVars>>
  BY DEF CallNext, NextReturnsEmpty, NextReturns
<1>2. p \in 0..MaxExecutions
  BY TaskExecutionAssumption DEF Executions
<1>3. ServiceTypeOK'
  BY <1>2 DEF CallNext, NextReturnsEmpty, NextReturns, ServiceTypeOK
<1>4. QED BY <1>1, <1>3, Unchanged DEF execVars, loopVars, podVars

LEMMA AckStepsTyped ==
  ASSUME TypeInv, NEW s \in Snapshots,
         AckReceived(s) \/ AckLost(s) \/ \E p \in Executions : CallAck(p, s)
  PROVE  TypeInv'
<1> USE DEF TypeInv
<1>1. UNCHANGED <<setting, loopVars, execVars, podVars, gcVars>>
  BY DEF CallAck, AckReceived, AckLost
<1>2. ServiceTypeOK'
  BY DEF CallAck, AckReceived, AckLost, ServiceTypeOK
<1>3. QED BY <1>1, <1>2, Unchanged DEF execVars, loopVars, podVars

\* The groups of steps that the lemmas of this module treat.
LoopStep == TakeAuto \/ TakeRestart \/ TakeCustom \/ LaunchCustom
CollectorStep == ListPods \/ CollectPod
ExecStep(e) ==
  \/ Build(e) \/ BuildFails(e) \/ LaunchPod(e) \/ LaunchFails(e)
  \/ HandleChange(e) \/ GiveUp(e) \/ ProcessOutputs(e) \/ ProcessFails(e) \/ Finish(e)
ClusterStep(e) ==
  \/ PodRemoved(e) \/ Resync(e)
  \/ \E ended \in {"ok", "error"} : ContainerEnds(e, ended)
NextStep(p) == CallNext(p) \/ NextReturnsEmpty(p) \/ NextReturns(p)
AckStep(s) == AckReceived(s) \/ AckLost(s) \/ \E p \in Executions : CallAck(p, s)
OtherStep ==
  \/ LoopStep \/ CollectorStep
  \/ \E e \in Executions : ClusterStep(e)
  \/ \E e, p \in Executions : CreateFileURI(e, p)
  \/ \E p \in Executions : NextStep(p)
  \/ \E s \in Snapshots : AckStep(s)

LEMMA StepCases == Next => OtherStep \/ \E e \in Executions : ExecStep(e)
BY Zenon DEF Next, OtherStep, LoopStep, CollectorStep, ExecStep, ClusterStep, NextStep, AckStep

LEMMA NextTypeInv == TypeInv /\ NotLaunched /\ [Next]_vars => TypeInv'
<1> SUFFICES ASSUME TypeInv, NotLaunched, [Next]_vars PROVE TypeInv'
  OBVIOUS
<1>1. CASE UNCHANGED vars
  BY <1>1, Unchanged DEF vars, TypeInv, execVars, loopVars
<1>2. CASE \E e \in Executions : ExecStep(e)
  BY <1>2, ExecStepsTyped DEF ExecStep
<1>3. CASE OtherStep
  <2>1. CASE LoopStep
    BY <2>1, LoopStepsTyped DEF LoopStep
  <2>2. CASE CollectorStep
    BY <2>2, CollectorStepsTyped DEF CollectorStep
  <2>3. CASE \E e \in Executions : ClusterStep(e)
    BY <2>3, ClusterStepsTyped DEF ClusterStep
  <2>4. CASE \E e, p \in Executions : CreateFileURI(e, p)
    BY <2>4, ClusterStepsTyped
  <2>5. CASE \E p \in Executions : NextStep(p)
    BY <2>5, NextStepsTyped DEF NextStep
  <2>6. CASE \E s \in Snapshots : AckStep(s)
    BY <2>6, AckStepsTyped DEF AckStep
  <2>7. QED BY <1>3, <2>1, <2>2, <2>3, <2>4, <2>5, <2>6 DEF OtherStep
<1>4. QED BY <1>1, <1>2, <1>3, StepCases

-----------------------------------------------------------------------------
(* What steps do to executions and Pods.                                   *)

\* What may become of a Pod when nobody launches it.
PodMove(q) ==
  /\ pod'[q] # pod[q] => pod[q] # "none" /\ pod'[q] \notin {"none", "running"}
  /\ result[q] # "none" => result'[q] = result[q]

\* Outside Execute nothing happens to executions, but that new ones begin.
LEMMA OtherMoves ==
  ASSUME TypeInv, OtherStep
  PROVE  /\ UNCHANGED <<setting, resources, leftVars, acked>>
         /\ \A q \in Executions :
              /\ PodMove(q)
              /\ stage'[q] # stage[q] => stage[q] = "none" /\ stage'[q] = "preparing"
              /\ stage[q] # "none" => snapshotOf'[q] = snapshotOf[q]
<1> USE DEF TypeInv
<1>1. CASE LoopStep
  <2>1. UNCHANGED <<setting, pod, result, resources, leftVars, misled, acked>>
    BY <1>1 DEF LoopStep, TakeAuto, TakeRestart, TakeCustom, LaunchCustom, execVars, podVars
  <2>2. \/ UNCHANGED <<stage, snapshotOf>>
        \/ \E s \in 0..MaxSnapshots : Start(s)
    <3>1. taken < MaxSnapshots => taken + 1 \in 0..MaxSnapshots
      BY TaskExecutionAssumption DEF LoopTypeOK
    <3>2. 0 \in 0..MaxSnapshots
      BY TaskExecutionAssumption
    <3>3. QED BY <1>1, <3>1, <3>2
            DEF LoopStep, TakeAuto, TakeRestart, TakeCustom, LaunchCustom, execVars
  <2>3. \A q \in Executions :
          /\ stage'[q] # stage[q] => stage[q] = "none" /\ stage'[q] = "preparing"
          /\ stage[q] # "none" => snapshotOf'[q] = snapshotOf[q]
    BY <2>1, <2>2, StartOK
  <2>4. QED BY <2>1, <2>3 DEF PodMove
<1>2. CASE CollectorStep
  <2>1. UNCHANGED <<setting, stage, snapshotOf, result, resources, leftVars, acked>>
    BY <1>2 DEF CollectorStep, ListPods, CollectPod, execVars, podVars
  <2>2. UNCHANGED pod \/ \E p \in failedPods : DeletePod(p)
    BY <1>2 DEF CollectorStep, ListPods, CollectPod, podVars
  <2>3. \A q \in Executions : PodMove(q)
    <3>1. CASE UNCHANGED pod
      BY <2>1, <3>1 DEF PodMove
    <3>2. ASSUME NEW p \in failedPods, DeletePod(p) PROVE \A q \in Executions : PodMove(q)
      <4>1. p \in Executions
        BY DEF PodInv, PodTypeOK
      <4>2. QED BY <2>1, <3>2, <4>1, DeletePodOK DEF PodMove
    <3>3. QED BY <2>2, <3>1, <3>2
  <2>4. QED BY <2>1, <2>3
<1>3. ASSUME NEW e \in Executions, ClusterStep(e)
      PROVE  /\ UNCHANGED <<setting, stage, snapshotOf, resources, leftVars, acked>>
             /\ \A q \in Executions : PodMove(q)
  <2>1. UNCHANGED <<setting, stage, snapshotOf, resources, leftVars, acked>>
    BY <1>3 DEF ClusterStep, ContainerEnds, PodRemoved, Resync, execVars
  <2>2. CASE Resync(e)
    <3>1. UNCHANGED <<pod, result>>
      BY <2>2 DEF Resync
    <3>2. QED BY <2>1, <3>1 DEF PodMove
  <2>3. CASE PodRemoved(e)
    <3>1. pod[e] = "terminating" /\ pod' = [pod EXCEPT ![e] = "gone"]
          /\ result' = [result EXCEPT ![e] = IF @ = "none" THEN "error" ELSE @]
      BY <2>3 DEF PodRemoved
    <3>2. /\ pod'[e] = "gone"
          /\ result[e] # "none" => result'[e] = result[e]
          /\ \A q \in Executions : q # e => pod'[q] = pod[q] /\ result'[q] = result[q]
      BY <3>1 DEF PodInv, PodTypeOK
    <3>3. QED BY <2>1, <3>1, <3>2 DEF PodMove
  <2>4. ASSUME NEW ended \in {"ok", "error"}, ContainerEnds(e, ended)
        PROVE  \A q \in Executions : PodMove(q)
    <3>1. pod[e] = "running" /\ result[e] = "none"
          /\ pod' = [pod EXCEPT ![e] = CASE setting.proxy -> "halfway"
                                        [] ended = "ok" -> "succeeded"
                                        [] OTHER -> "failed"]
          /\ result' = [result EXCEPT ![e] = ended]
      BY <2>4 DEF ContainerEnds, PodInv, EndsKnown
    <3>2. pod'[e] \in {"halfway", "succeeded", "failed"}
          /\ \A q \in Executions : q # e => pod'[q] = pod[q] /\ result'[q] = result[q]
      BY <3>1 DEF PodInv, PodTypeOK
    <3>3. QED BY <3>1, <3>2 DEF PodMove
  <2>5. QED BY <1>3, <2>1, <2>2, <2>3, <2>4 DEF ClusterStep
<1>4. CASE \/ \E e, p \in Executions : CreateFileURI(e, p)
           \/ \E p \in Executions : NextStep(p)
           \/ \E s \in Snapshots : AckStep(s)
  <2>1. UNCHANGED <<setting, stage, snapshotOf, resources, leftVars, acked, pod, result>>
    BY <1>4 DEF CreateFileURI, NextStep, CallNext, NextReturnsEmpty, NextReturns, AckStep,
                CallAck, AckReceived, AckLost, execVars, podVars
  <2>2. QED BY <2>1 DEF PodMove
<1>5. QED BY <1>1, <1>2, <1>3, <1>4 DEF OtherStep

\* How far a step of Execute takes execution e, and what it does to its Pod.
Moves(e) ==
  \/ /\ stage[e] = "preparing" /\ stage'[e] = "launching"
     /\ e \in resources' /\ UNCHANGED pod
  \/ /\ stage[e] \in {"preparing", "launching", "processing"} /\ stage'[e] = "failed"
     /\ UNCHANGED pod
  \/ /\ stage[e] = "launching" /\ stage'[e] = "waiting"
     /\ pod'[e] = "running" /\ UNCHANGED resources
  \/ stage[e] = "waiting" /\ stage'[e] = "waiting" /\ UNCHANGED <<pod, resources>>
  \/ /\ stage[e] = "waiting" /\ stage'[e] = "processing"
     /\ result[e] = "ok" /\ UNCHANGED pod
  \/ /\ stage[e] = "waiting" /\ stage'[e] = "failed"
     /\ result[e] = "error" /\ UNCHANGED pod
  \/ /\ stage[e] = "waiting" /\ stage'[e] = "failed" /\ e \in cancelled
     /\ pod'[e] = "running" => e \in leftPods'
  \/ stage[e] = "processing" /\ stage'[e] = "removing" /\ UNCHANGED pod
  \/ /\ stage[e] = "removing" /\ stage'[e] \in {"succeeded", "failed"}
     /\ pod'[e] = "running" => e \in leftPods'

\* A step of Execute leaves other executions and their Pods alone.
LEMMA ExecMoves ==
  ASSUME TypeInv, NotLaunched, NEW e \in Executions, ExecStep(e)
  PROVE  /\ UNCHANGED <<setting, loopVars, serviceVars, snapshotOf, cancelled, misled, result,
                        gcVars>>
         /\ \A d \in Executions : d # e =>
              /\ stage'[d] = stage[d] /\ pod'[d] = pod[d]
              /\ d \in resources' <=> d \in resources
         /\ leftPods \subseteq leftPods'
         /\ Moves(e)
         /\ pod'[e] # pod[e] => stage[e] = "launching" \/ pod'[e] \in {"gone", "terminating"}
         /\ pod'[e] = "terminating" /\ pod[e] # "terminating" =>
              stage[e] = "removing" \/ e \in cancelled
         /\ \/ UNCHANGED acked
            \/ /\ acked' = acked \cup ({snapshotOf[e]} \ {0})
               /\ stage'[e] = "succeeded"
<1> USE DEF TypeInv
<1>k. UNCHANGED <<setting, loopVars, serviceVars, snapshotOf, cancelled, misled, result, gcVars>>
  BY DEF ExecStep, Build, BuildFails, LaunchPod, LaunchFails, HandleChange, GiveUp,
         ProcessOutputs, ProcessFails, Finish, podVars
<1>s. ASSUME NEW next, stage' = [stage EXCEPT ![e] = next]
      PROVE  stage'[e] = next /\ \A d \in Executions : d # e => stage'[d] = stage[d]
  BY <1>s DEF ExecTypeOK
<1>r. ASSUME NEW d \in Executions, d # e, resources' = resources \/ resources' = resources \cup {e}
                                          \/ resources' = resources \ {e}
      PROVE  d \in resources' <=> d \in resources
  BY <1>r
\* A return that does not touch the Pod.
<1>ret. ASSUME NEW outcome, Return(e, outcome)
        PROVE  /\ stage'[e] = outcome
               /\ \A d \in Executions : d # e =>
                    stage'[d] = stage[d] /\ (d \in resources' <=> d \in resources)
  BY <1>ret, <1>s DEF Return
<1>1. CASE Build(e)
  BY <1>1, <1>k, <1>s DEF Build, podVars, leftVars, Moves
<1>2. CASE BuildFails(e)
  <2>1. /\ stage' = [stage EXCEPT ![e] = "failed"] /\ stage[e] = "preparing"
        /\ UNCHANGED <<leftPods, acked, pod>>
        /\ resources' = resources \/ resources' = resources \cup {e}
    BY <1>2 DEF BuildFails, podVars
  <2>2. QED BY <1>k, <1>s, <2>1 DEF Moves
<1>3. CASE LaunchPod(e)
  <2>1. stage' = [stage EXCEPT ![e] = "waiting"] /\ stage[e] = "launching"
        /\ pod' = [pod EXCEPT ![e] = "running"] /\ UNCHANGED <<leftVars, acked, resources>>
    BY <1>3 DEF LaunchPod
  <2>2. pod'[e] = "running" /\ \A d \in Executions : d # e => pod'[d] = pod[d]
    BY <2>1 DEF PodInv, PodTypeOK
  <2>3. QED BY <1>k, <1>s, <2>1, <2>2 DEF Moves, leftVars
<1>4. CASE LaunchFails(e) \/ ProcessFails(e)
  <2>1. Return(e, "failed") /\ stage[e] \in {"launching", "processing"}
        /\ UNCHANGED <<leftPods, acked, pod>>
    BY <1>4 DEF LaunchFails, ProcessFails, podVars
  <2>2. QED BY <1>k, <1>ret, <2>1 DEF Moves
<1>5. CASE ProcessOutputs(e)
  BY <1>5, <1>k, <1>s DEF ProcessOutputs, podVars, leftVars, Moves
<1>6. CASE HandleChange(e)
  <2>1. /\ stage[e] = "waiting" /\ changes # <<>> /\ changes' = Tail(changes)
        /\ UNCHANGED <<leftPods, acked, pod, result>>
    BY <1>6 DEF HandleChange
  <2>2. Head(changes).ended \in {"ok", "error"}
        /\ Head(changes).ended = result[Head(changes).pod]
    BY <2>1, ChangeTaken DEF Change
  <2>3. \/ UNCHANGED <<stage, resources>>
        \/ stage' = [stage EXCEPT ![e] = "processing"] /\ UNCHANGED resources /\ result[e] = "ok"
        \/ Return(e, "failed") /\ result[e] = "error"
    BY <1>6, <2>2 DEF HandleChange, IsOwn
  <2>4. QED BY <1>k, <1>s, <1>ret, <2>1, <2>3 DEF Moves
<1>7. CASE GiveUp(e)
  <2>1. stage[e] = "waiting" /\ e \in cancelled /\ DeleteOwnPod(e) /\ Return(e, "failed")
        /\ UNCHANGED <<acked, result>>
    BY <1>7 DEF GiveUp
  <2>2. QED BY <1>k, <1>ret, <2>1, DeleteOwnPodOK DEF Moves
<1>8. CASE Finish(e)
  <2>1. /\ stage[e] = "removing" /\ DeleteOwnPod(e) /\ UNCHANGED result
        /\ Return(e, IF e \in cancelled THEN "failed" ELSE "succeeded")
        /\ acked' = IF e \in cancelled THEN acked ELSE acked \cup ({snapshotOf[e]} \ {0})
    BY <1>8 DEF Finish
  <2>2. QED BY <1>k, <1>ret, <2>1, DeleteOwnPodOK DEF Moves
<1>9. QED BY <1>1, <1>2, <1>3, <1>4, <1>5, <1>6, <1>7, <1>8 DEF ExecStep

-----------------------------------------------------------------------------
(* Pods are not left alone, and results are their own.                     *)

\* Launching and waiting executions have their volumes, running Pods someone who waits
\* for them; what is processed ended well, and acknowledged values were executed.
ExecInv ==
  /\ \A e \in Executions :
       /\ stage[e] \in {"launching", "waiting"} => e \in resources
       /\ pod[e] = "running" => stage[e] = "waiting" \/ e \in leftPods
       /\ stage[e] \in {"processing", "removing", "succeeded"} => result[e] = "ok"
  /\ \A s \in acked : \E e \in Executions : snapshotOf[e] = s /\ stage[e] = "succeeded"

LEMMA NextNotLaunched == TypeInv /\ NotLaunched /\ [Next]_vars => NotLaunched'
<1> SUFFICES ASSUME TypeInv, NotLaunched, [Next]_vars PROVE NotLaunched'
  OBVIOUS
<1>1. CASE UNCHANGED vars
  BY <1>1 DEF vars, NotLaunched, execVars, podVars
<1>2. CASE OtherStep
  BY <1>2, OtherMoves DEF PodMove, NotLaunched
<1>3. ASSUME NEW e \in Executions, ExecStep(e) PROVE NotLaunched'
  BY <1>3, ExecMoves DEF Moves, NotLaunched
<1>4. QED BY <1>1, <1>2, <1>3, StepCases

LEMMA NextExecInv == TypeInv /\ NotLaunched /\ ExecInv /\ [Next]_vars => ExecInv'
<1> SUFFICES ASSUME TypeInv, NotLaunched, ExecInv, [Next]_vars PROVE ExecInv'
  OBVIOUS
<1>1. CASE UNCHANGED vars
  BY <1>1 DEF vars, ExecInv, execVars, leftVars, podVars
<1>2. CASE OtherStep
  <2>1. /\ UNCHANGED <<resources, leftPods, acked>>
        /\ \A q \in Executions :
             /\ PodMove(q)
             /\ stage'[q] # stage[q] => stage[q] = "none" /\ stage'[q] = "preparing"
             /\ stage[q] # "none" => snapshotOf'[q] = snapshotOf[q]
    BY <1>2, OtherMoves DEF leftVars
  <2>2. ASSUME NEW q \in Executions
        PROVE  /\ stage'[q] \in {"launching", "waiting"} => q \in resources'
               /\ pod'[q] = "running" => stage'[q] = "waiting" \/ q \in leftPods'
               /\ stage'[q] \in {"processing", "removing", "succeeded"} => result'[q] = "ok"
    <3>1. pod'[q] = "running" => pod[q] = "running" /\ stage'[q] = stage[q]
      BY <2>1 DEF PodMove, NotLaunched
    <3>2. QED BY <2>1, <3>1 DEF PodMove, ExecInv
  <2>3. \A s \in acked' : \E q \in Executions : snapshotOf'[q] = s /\ stage'[q] = "succeeded"
    BY <2>1 DEF ExecInv
  <2>4. QED BY <2>2, <2>3 DEF ExecInv
<1>3. ASSUME NEW e \in Executions, ExecStep(e) PROVE ExecInv'
  <2>1. UNCHANGED <<snapshotOf, result>>
    BY <1>3, ExecMoves
  <2>2. /\ stage'[e] \in {"launching", "waiting"} => e \in resources'
        /\ stage'[e] \in {"processing", "removing", "succeeded"} => result'[e] = "ok"
    BY <1>3, <2>1, ExecMoves DEF Moves, ExecInv
  <2>3. pod[e] = "running" => result[e] = "none"
    BY DEF TypeInv, PodInv, EndsKnown
  <2>4. pod'[e] = "running" => stage'[e] = "waiting" \/ e \in leftPods'
    BY <1>3, <2>3, ExecMoves DEF Moves, ExecInv, NotLaunched
  <2>5. \A q \in Executions : q # e =>
          /\ stage'[q] \in {"launching", "waiting"} => q \in resources'
          /\ pod'[q] = "running" => stage'[q] = "waiting" \/ q \in leftPods'
          /\ stage'[q] \in {"processing", "removing", "succeeded"} => result'[q] = "ok"
    BY <1>3, <2>1, ExecMoves DEF ExecInv
  <2>6. ASSUME NEW s \in acked'
        PROVE  \E q \in Executions : snapshotOf'[q] = s /\ stage'[q] = "succeeded"
    <3>1. CASE s \in acked
      <4>1. PICK q \in Executions : snapshotOf[q] = s /\ stage[q] = "succeeded"
        BY <3>1 DEF ExecInv
      <4>2. q # e
        BY <1>3, <4>1, ExecMoves DEF Moves
      <4>3. QED BY <1>3, <2>1, <4>1, <4>2, ExecMoves
    <3>2. CASE s \notin acked
      BY <1>3, <2>1, <3>2, ExecMoves
    <3>3. QED BY <3>1, <3>2
  <2>7. QED BY <2>2, <2>4, <2>5, <2>6 DEF ExecInv
<1>4. QED BY <1>1, <1>2, <1>3, StepCases

\* What custom and automatic executions have for themselves.
AloneInv ==
  /\ \A p \in failedPods : result[p] # "none"
  /\ setting.policy # "Restart" =>
       /\ cancelled = {} /\ misled = {}
       /\ \A d, e \in Executions : InExecute(d) /\ InExecute(e) => d = e
       /\ \A p \in Executions : IsAlive(p) => stage[p] = "waiting"

\* Unless the policy is Restart, only one execution is in Execute and every live
\* executor is its own.
LEMMA NextAlone ==
  TypeInv /\ NotLaunched /\ ExecInv /\ AloneInv /\ [Next]_vars => AloneInv'
<1> SUFFICES ASSUME TypeInv, NotLaunched, ExecInv, AloneInv, [Next]_vars PROVE AloneInv'
  OBVIOUS
<1>1. CASE UNCHANGED vars
  BY <1>1 DEF vars, AloneInv, execVars, leftVars, podVars, gcVars, InExecute, IsAlive
<1>2. CASE OtherStep
  <2>1. /\ setting' = setting
        /\ \A q \in Executions :
             /\ PodMove(q)
             /\ stage'[q] # stage[q] => stage[q] = "none" /\ stage'[q] = "preparing"
    BY <1>2, OtherMoves
  <2>2. \A p \in failedPods' : result'[p] # "none"
    <3>1. failedPods' \subseteq failedPods \/ ListPods
      BY <1>2 DEF OtherStep, LoopStep, TakeAuto, TakeRestart, TakeCustom, LaunchCustom,
                  CollectorStep, CollectPod, ClusterStep, ContainerEnds, PodRemoved, Resync,
                  CreateFileURI, NextStep, CallNext, NextReturnsEmpty, NextReturns, AckStep,
                  CallAck, AckReceived, AckLost, gcVars
    <3>2. CASE failedPods' \subseteq failedPods
      <4>1. failedPods \subseteq Executions
        BY DEF TypeInv, PodInv, PodTypeOK
      <4>2. QED BY <2>1, <3>2, <4>1 DEF PodMove, AloneInv
    <3>3. CASE ListPods
      BY <3>3 DEF ListPods, Failed, TypeInv, PodInv, EndsKnown, podVars
    <3>4. QED BY <3>1, <3>2, <3>3
  <2>3. ASSUME setting.policy # "Restart"
        PROVE  /\ cancelled' = {} /\ misled' = {}
               /\ \A d, e \in Executions : InExecute(d)' /\ InExecute(e)' => d = e
               /\ \A p \in Executions : IsAlive(p)' => stage'[p] = "waiting"
    <3>0. ~TakeRestart
      BY <2>3 DEF TakeRestart
    <3>1. cancelled' = {}
      BY <1>2, <2>3, <3>0 DEF OtherStep, LoopStep, TakeAuto, TakeCustom, LaunchCustom, ListPods,
                  CollectorStep, CollectPod, ClusterStep, ContainerEnds, PodRemoved, Resync,
                  CreateFileURI, NextStep, CallNext, NextReturnsEmpty, NextReturns, AckStep,
                  CallAck, AckReceived, AckLost, execVars, AloneInv
    <3>2. ASSUME NEW e \in Executions, NEW p \in Executions, CreateFileURI(e, p)
          PROVE  FALSE
      BY <2>3, <3>2 DEF CreateFileURI, AloneInv, InExecute
    <3>3. misled' = {}
      BY <1>2, <2>3, <3>0, <3>2
               DEF OtherStep, LoopStep, TakeAuto, TakeCustom, LaunchCustom, ListPods,
                  CollectorStep, CollectPod, ClusterStep, ContainerEnds, PodRemoved, Resync,
                  NextStep, CallNext, NextReturnsEmpty, NextReturns, AckStep,
                  CallAck, AckReceived, AckLost, execVars, AloneInv
    <3>4. \/ UNCHANGED stage
          \/ /\ \A e \in Executions : ~InExecute(e)
             /\ \E s \in 0..MaxSnapshots : Start(s)
             /\ UNCHANGED <<resources, leftVars, misled, acked>>
      <4>1. taken < MaxSnapshots => taken + 1 \in 0..MaxSnapshots
        BY TaskExecutionAssumption DEF TypeInv, LoopTypeOK
      <4>2. 0 \in 0..MaxSnapshots
        BY TaskExecutionAssumption
      <4>3. CASE LoopStep
        BY <3>0, <4>1, <4>2, <4>3 DEF LoopStep, TakeAuto, TakeCustom, LaunchCustom, execVars
      <4>4. CASE ~LoopStep
        BY <1>2, <4>4 DEF OtherStep, ListPods,
                  CollectorStep, CollectPod, ClusterStep, ContainerEnds, PodRemoved, Resync,
                  CreateFileURI, NextStep, CallNext, NextReturnsEmpty, NextReturns, AckStep,
                  CallAck, AckReceived, AckLost, execVars
      <4>5. QED BY <4>3, <4>4
    <3>5. \A d, e \in Executions : InExecute(d)' /\ InExecute(e)' => d = e
      <4>1. CASE UNCHANGED stage
        BY <2>3, <4>1 DEF InExecute, AloneInv
      <4>2. ASSUME NEW s \in 0..MaxSnapshots, Start(s), \A e \in Executions : ~InExecute(e),
                   UNCHANGED <<resources, leftVars, misled, acked>>
            PROVE  \A d, e \in Executions : InExecute(d)' /\ InExecute(e)' => d = e
        <5>1. \A d \in Executions : d # started + 1 => stage'[d] = stage[d]
          BY <4>2, StartOK DEF TypeInv
        <5>2. QED BY <4>2, <5>1 DEF InExecute
      <4>3. QED BY <3>4, <4>1, <4>2
    <3>6. ASSUME NEW p \in Executions, IsAlive(p)' PROVE IsAlive(p)
      <4>1. result[p] = "none" /\ pod'[p] \in {"running", "terminating"}
        BY <2>1, <3>6 DEF IsAlive, PodMove
      <4>2. CASE pod'[p] = pod[p]
        BY <4>1, <4>2 DEF IsAlive
      <4>3. CASE pod'[p] # pod[p]
        <5>1. pod[p] # "none"
          BY <2>1, <4>3 DEF PodMove
        <5>2. pod[p] \in {"running", "terminating"}
          BY <4>1, <5>1 DEF TypeInv, PodInv, PodTypeOK, EndsKnown, PodState
        <5>3. QED BY <4>1, <5>2 DEF IsAlive
      <4>4. QED BY <4>2, <4>3
    <3>7. \A p \in Executions : IsAlive(p)' => stage'[p] = "waiting"
      BY <2>1, <2>3, <3>6 DEF AloneInv
    <3>8. QED BY <3>1, <3>3, <3>5, <3>7
  <2>4. QED BY <2>1, <2>2, <2>3 DEF AloneInv
<1>3. ASSUME NEW e \in Executions, ExecStep(e) PROVE AloneInv'
  <2>1. /\ UNCHANGED <<setting, cancelled, misled, result, failedPods>>
        /\ \A d \in Executions : d # e => stage'[d] = stage[d] /\ pod'[d] = pod[d]
    BY <1>3, ExecMoves DEF gcVars
  <2>2. InExecute(e)
    BY <1>3, ExecMoves DEF Moves, InExecute
  <2>3. ASSUME setting.policy # "Restart"
        PROVE  /\ \A d, q \in Executions : InExecute(d)' /\ InExecute(q)' => d = q
               /\ \A p \in Executions : IsAlive(p)' => stage'[p] = "waiting"
    <3>1. \A d, q \in Executions : InExecute(d)' /\ InExecute(q)' => d = q
      BY <2>1, <2>2, <2>3 DEF InExecute, AloneInv
    <3>2. cancelled = {}
      BY <2>3 DEF AloneInv
    <3>3. IsAlive(e)' => stage'[e] = "waiting"
      BY <1>3, <2>1, <2>3, <3>2, ExecMoves DEF Moves, IsAlive, AloneInv, ExecInv
    <3>4. \A p \in Executions : p # e /\ IsAlive(p)' => stage'[p] = "waiting"
      BY <2>1, <2>3 DEF IsAlive, AloneInv
    <3>5. QED BY <3>1, <3>3, <3>4
  <2>4. QED BY <2>1, <2>3 DEF AloneInv
<1>4. QED BY <1>1, <1>2, <1>3, StepCases

-----------------------------------------------------------------------------
(* Custom executors execute one snapshot at a time.                        *)

\* When the service is done with a snapshot it has been executed; later ones have not
\* been handed out, and acknowledgements on their way are real.
ServiceInv ==
  /\ ackCalls \subseteq executed
  /\ setting.policy # "Custom" => service = "idle" /\ \A s \in Snapshots : holder[s] = 0
  /\ setting.policy = "Custom" =>
       /\ \A r \in 1..(taken - 1) : r \in executed
       /\ service = "idle" => taken = 0 \/ taken \in executed
       /\ \A s \in Snapshots : s > taken => holder[s] = 0

LEMMA NextServiceInv == TypeInv /\ NotLaunched /\ ServiceInv /\ [Next]_vars => ServiceInv'
<1> SUFFICES ASSUME TypeInv, NotLaunched, ServiceInv, [Next]_vars PROVE ServiceInv'
  OBVIOUS
<1>t. taken \in Nat /\ Snapshots \subseteq Nat
  BY TaskExecutionAssumption DEF TypeInv, LoopTypeOK, Snapshots
\* Steps that have nothing to do with the service.
<1>0. ASSUME UNCHANGED <<setting, serviceVars>>,
             taken' = taken \/ setting.policy # "Custom"
      PROVE  ServiceInv'
  BY <1>0 DEF ServiceInv, serviceVars
<1>1. CASE UNCHANGED vars
  BY <1>0, <1>1 DEF vars, loopVars
<1>2. CASE TakeAuto \/ TakeRestart \/ LaunchCustom \/ CollectorStep
           \/ \E e, p \in Executions : CreateFileURI(e, p)
  BY <1>0, <1>2 DEF TakeAuto, TakeRestart, LaunchCustom, CollectorStep, ListPods, CollectPod,
                    CreateFileURI, loopVars
<1>3. CASE TakeCustom
  <2>1. /\ setting.policy = "Custom" /\ service = "idle"
        /\ taken' = taken + 1 /\ service' = "offering"
        /\ UNCHANGED <<setting, holder, ackCalls, executed>>
    BY <1>3 DEF TakeCustom
  <2>2. \A r \in 1..taken : r \in executed
    BY <1>t, <2>1 DEF ServiceInv
  <2>3. QED BY <1>t, <2>1, <2>2 DEF ServiceInv
<1>4. ASSUME NEW e \in Executions, ExecStep(e) PROVE ServiceInv'
  BY <1>0, <1>4, ExecMoves DEF loopVars
<1>5. ASSUME NEW e \in Executions, ClusterStep(e) PROVE ServiceInv'
  <2>1. UNCHANGED <<setting, loopVars, service, holder, ackCalls, executed>>
    BY <1>5 DEF ClusterStep, PodRemoved, Resync, ContainerEnds, serviceVars
  <2>2. QED BY <2>1 DEF ServiceInv, loopVars
<1>6. ASSUME NEW p \in Executions, NextStep(p) PROVE ServiceInv'
  <2>1. UNCHANGED <<setting, taken, ackCalls, executed>>
    BY <1>6 DEF NextStep, CallNext, NextReturnsEmpty, NextReturns, loopVars
  <2>2. CASE UNCHANGED <<service, holder>>
    BY <2>1, <2>2 DEF ServiceInv
  <2>3. CASE NextReturns(p)
    <3>1. service = "offering" /\ service' = "waiting" /\ holder' = [holder EXCEPT ![taken] = p]
      BY <2>3 DEF NextReturns
    <3>2. setting.policy = "Custom"
      BY <3>1 DEF ServiceInv, TypeInv, LoopTypeOK, TaskSetting
    <3>3. \A s \in Snapshots : s # taken => holder'[s] = holder[s]
      BY <3>1 DEF TypeInv, ServiceTypeOK
    <3>4. QED BY <1>t, <2>1, <3>1, <3>2, <3>3 DEF ServiceInv
  <2>4. QED BY <1>6, <2>2, <2>3 DEF NextStep, CallNext, NextReturnsEmpty
<1>7. ASSUME NEW s \in Snapshots, AckStep(s) PROVE ServiceInv'
  <2>1. UNCHANGED <<setting, taken, holder>> /\ executed \subseteq executed'
        /\ ackCalls' \subseteq executed'
    BY <1>7 DEF AckStep, AckReceived, AckLost, CallAck, loopVars, ServiceInv
  <2>2. CASE UNCHANGED service
    BY <2>1, <2>2 DEF ServiceInv
  <2>3. CASE AckReceived(s)
    <3>1. s = taken => s \in executed'
      BY <2>1, <2>3 DEF AckReceived, ServiceInv
    <3>2. service = "waiting" /\ (service' = "idle" => s = taken)
      BY <2>3 DEF AckReceived, IsAwaited
    <3>3. setting.policy = "Custom"
      BY <3>2 DEF ServiceInv
    <3>4. QED BY <2>1, <3>1, <3>2, <3>3 DEF ServiceInv
  <2>4. QED BY <1>7, <2>2, <2>3 DEF AckStep, AckLost, CallAck
<1>8. QED BY <1>1, <1>2, <1>3, <1>4, <1>5, <1>6, <1>7, StepCases DEF OtherStep, LoopStep

-----------------------------------------------------------------------------
(* The theorems.                                                           *)

IndInv == TypeInv /\ NotLaunched /\ ExecInv /\ AloneInv /\ ServiceInv

LEMMA InitIndInv == Init => IndInv
<1> SUFFICES ASSUME Init PROVE IndInv
  OBVIOUS
<1>1. NotLaunched /\ ExecInv
  BY DEF Init, NotLaunched, ExecInv
<1>2. AloneInv
  BY DEF Init, AloneInv, InExecute, IsAlive
<1>3. ServiceInv
  BY TaskExecutionAssumption DEF Init, ServiceInv, Snapshots
<1>4. QED BY <1>1, <1>2, <1>3, InitTypeInv DEF IndInv

LEMMA SpecIndInv == Spec => []IndInv
<1>1. IndInv /\ [Next]_vars => IndInv'
  BY NextTypeInv, NextNotLaunched, NextExecInv, NextAlone, NextServiceInv DEF IndInv
<1>2. QED BY <1>1, InitIndInv, PTL DEF Spec

\* Every variable keeps its type, and volumes and claims exist during Execute only,
\* but for those that a builder forgot or that could not be deleted (executor.go).
THEOREM TypeCorrect == Spec => []TaskExecutionTypeOK
<1>1. IndInv => TaskExecutionTypeOK
  BY TypeParts DEF IndInv, TypeInv, PodInv
<1>2. QED BY <1>1, SpecIndInv, PTL

\* No way out of Execute leaves a running Pod that nobody waits for, unless its
\* deletion failed (executor.go, the wait loop and the deletions after it).
THEOREM NoPodIsLeftAlone == Spec => []NoStrayPod
<1>1. IndInv => NoStrayPod
  BY DEF IndInv, ExecInv, NoStrayPod
<1>2. QED BY <1>1, SpecIndInv, PTL

\* Outputs are processed and values acknowledged only after the execution's own
\* container ended well, on one channel of changes for all; and without overlapping
\* executions no executor gets URIs in another's volumes (executor.go, input_loop.go).
THEOREM ResultsAreOwn == Spec => []OwnResults
<1>1. IndInv => OwnResults
  BY DEF IndInv, ExecInv, AloneInv, OwnResults
<1>2. QED BY <1>1, SpecIndInv, PTL

\* The snapshot service hands a snapshot out when all earlier ones were executed,
\* whatever becomes of the executors in between (snapshot_service.go, Execute).
THEOREM SnapshotsInTurn == Spec => []OneSnapshotAtATime
<1>1. IndInv => OneSnapshotAtATime
  <2>1. SUFFICES ASSUME IndInv, NEW s \in Snapshots, holder[s] # 0, NEW r \in 1..(s - 1)
                 PROVE  r \in executed
    BY DEF OneSnapshotAtATime
  <2>2. taken \in Nat /\ s \in Nat
    BY <2>1, TaskExecutionAssumption DEF IndInv, TypeInv, LoopTypeOK, Snapshots
  <2>3. setting.policy = "Custom" /\ ~(s > taken)
    BY <2>1 DEF IndInv, ServiceInv
  <2>4. QED BY <2>1, <2>2, <2>3 DEF IndInv, ServiceInv
<1>2. QED BY <1>1, SpecIndInv, PTL

-----------------------------------------------------------------------------
(* The collector keeps the newest failed Pods.                             *)

WasCreated(p) == \E i \in DOMAIN created : created[i] = p

\* The Pods created after p whose executor failed, by their place in created.
FailedAfter(p) ==
  {i \in DOMAIN created : result[created[i]] = "error" /\
     \E j \in 1..(i - 1) : created[j] = p}

\* A Pod that the cluster has known was created, and one that counts as failed, now
\* or when the collector made its list, has an executor that ended with an error.
FailedInv ==
  /\ \A p \in Executions : pod[p] # "none" => WasCreated(p)
  /\ \A p \in Executions : pod[p] = "failed" => result[p] = "error"
  /\ \A p \in failedPods : pod[p] # "none" /\ result[p] = "error"

LEMMA FailedAfterFinite ==
  ASSUME TypeInv, NEW p
  PROVE  IsFiniteSet(FailedAfter(p))
<1>1. Len(created) \in Nat /\ DOMAIN created = 1..Len(created)
  BY DEF TypeInv, PodInv, PodTypeOK
<1>2. IsFiniteSet(1..Len(created))
  BY <1>1, FS_Interval
<1>3. FailedAfter(p) \in SUBSET (1..Len(created))
  BY <1>1 DEF FailedAfter
<1>4. QED BY <1>2, <1>3, FS_Subset

\* Only LaunchPod creates Pods; it adds them behind the ones before.
LEMMA CreatedStep ==
  ASSUME TypeInv, Next
  PROVE  \/ UNCHANGED created
         \/ \E e \in Executions : LaunchPod(e)
<1>1. CASE OtherStep
  BY <1>1 DEF OtherStep, LoopStep, TakeAuto, TakeRestart, TakeCustom, LaunchCustom,
       CollectorStep, ListPods, CollectPod, ClusterStep, PodRemoved, Resync, ContainerEnds,
       CreateFileURI, NextStep, CallNext, NextReturnsEmpty, NextReturns, AckStep, CallAck,
       AckReceived, AckLost, podVars
<1>2. ASSUME NEW e \in Executions, ExecStep(e)
      PROVE  UNCHANGED created \/ LaunchPod(e)
  BY <1>2 DEF ExecStep, Build, BuildFails, LaunchFails, HandleChange, GiveUp,
       ProcessOutputs, ProcessFails, Finish, podVars
<1>3. QED BY <1>1, <1>2, StepCases

\* Whatever happens, what was created keeps its place and a result is final.
LEMMA HistoryGrows ==
  ASSUME TypeInv, NotLaunched, Next
  PROVE  /\ \A i \in DOMAIN created : i \in DOMAIN created' /\ created'[i] = created[i]
         /\ \A q \in Executions :
              /\ result[q] # "none" => result'[q] = result[q]
              /\ pod'[q] # "none" => pod[q] # "none" \/ WasCreated(q)'
              /\ pod[q] # "none" => pod'[q] # "none"
<1>1. created \in Seq(Executions) /\ Len(created) \in Nat
      /\ DOMAIN created = 1..Len(created)
  BY DEF TypeInv, PodInv, PodTypeOK
<1>2. ASSUME NEW e \in Executions, LaunchPod(e)
      PROVE  /\ \A i \in DOMAIN created : i \in DOMAIN created' /\ created'[i] = created[i]
             /\ WasCreated(e)'
  <2>1. created' = Append(created, e)
    BY <1>2 DEF LaunchPod
  <2>2. /\ Len(created') = Len(created) + 1
        /\ DOMAIN created' = 1..(Len(created) + 1)
        /\ created'[Len(created) + 1] = e
        /\ \A i \in 1..Len(created) : created'[i] = created[i]
    BY <1>1, <2>1
  <2>3. QED BY <1>1, <2>2 DEF WasCreated
<1>3. \A i \in DOMAIN created : i \in DOMAIN created' /\ created'[i] = created[i]
  BY <1>2, CreatedStep
<1>4. ASSUME NEW q \in Executions
      PROVE  /\ result[q] # "none" => result'[q] = result[q]
             /\ pod'[q] # "none" => pod[q] # "none" \/ WasCreated(q)'
             /\ pod[q] # "none" => pod'[q] # "none"
  <2>1. CASE OtherStep
    BY <2>1, OtherMoves DEF PodMove
  <2>2. ASSUME NEW e \in Executions, ExecStep(e)
        PROVE  /\ result'[q] = result[q]
               /\ pod'[q] # "none" => pod[q] # "none" \/ WasCreated(q)'
               /\ pod[q] # "none" => pod'[q] # "none"
    <3>1. CASE LaunchPod(e)
      <4>1. /\ pod' = [pod EXCEPT ![e] = "running"]
            /\ UNCHANGED result
        BY <3>1 DEF LaunchPod
      <4>2. \A d \in Executions : d # e => pod'[d] = pod[d]
        BY <4>1
      <4>3. pod'[e] = "running"
        BY <4>1 DEF TypeInv, PodInv, PodTypeOK
      <4>4. QED BY <1>2, <3>1, <4>1, <4>2, <4>3
    <3>2. CASE ~LaunchPod(e)
      <4>2. /\ UNCHANGED result
            /\ \A d \in Executions : d # e => pod'[d] = pod[d]
        BY <2>2, ExecMoves
      <4>3. CASE UNCHANGED pod
        BY <4>2, <4>3
      <4>4. CASE GiveUp(e) \/ Finish(e)
        <5>1. DeleteOwnPod(e)
          BY <4>4 DEF GiveUp, Finish
        <5>2. pod'[q] # pod[q] => pod'[q] \in {"gone", "terminating"} /\ pod[q] # "none"
          <6>1. pod'[q] # pod[q] =>
                  /\ pod'[q] \in {"gone", "terminating"}
                  /\ pod'[q] = "gone" => pod[q] \in {"succeeded", "failed"}
                  /\ pod'[q] = "terminating" => pod[q] \in {"running", "halfway"}
            BY <4>2, <5>1, DeleteOwnPodOK DEF TypeInv
          <6>2. QED BY <6>1
        <5>3. QED BY <4>2, <5>2
      <4>5. QED BY <2>2, <3>2, <4>3, <4>4 DEF ExecStep, Build, BuildFails, LaunchFails,
                   HandleChange, ProcessOutputs, ProcessFails, podVars
    <3>3. QED BY <3>1, <3>2
  <2>3. QED BY <2>1, <2>2, StepCases
<1>5. QED BY <1>3, <1>4

\* So what was created after p and failed stays so.
LEMMA FailedAfterGrows ==
  ASSUME TypeInv, TypeInv', NotLaunched, Next, NEW p \in Executions
  PROVE  /\ WasCreated(p) => WasCreated(p)'
         /\ Cardinality(FailedAfter(p)) \in Nat /\ Cardinality(FailedAfter(p))' \in Nat
         /\ Cardinality(FailedAfter(p)) <= Cardinality(FailedAfter(p))'
<1>1. /\ \A i \in DOMAIN created : i \in DOMAIN created' /\ created'[i] = created[i]
      /\ \A q \in Executions : result[q] # "none" => result'[q] = result[q]
  BY HistoryGrows
<1>2. created \in Seq(Executions) /\ Len(created) \in Nat /\ DOMAIN created = 1..Len(created)
  BY DEF TypeInv, PodInv, PodTypeOK
<1>3. FailedAfter(p) \in SUBSET FailedAfter(p)'
  <2>1. SUFFICES ASSUME NEW i \in FailedAfter(p) PROVE i \in FailedAfter(p)'
    OBVIOUS
  <2>2. /\ i \in DOMAIN created /\ result[created[i]] = "error"
        /\ \E j \in 1..(i - 1) : created[j] = p
    BY DEF FailedAfter
  <2>3. PICK j \in 1..(i - 1) : created[j] = p
    BY <2>2
  <2>4. created'[i] = created[i] /\ i \in DOMAIN created' /\ created[i] \in Executions
    BY <1>1, <1>2, <2>2
  <2>5. result'[created'[i]] = "error"
    BY <1>1, <2>2, <2>4
  <2>6. j \in DOMAIN created
    BY <1>2, <2>2
  <2>7. created'[j] = p
    BY <1>1, <2>3, <2>6
  <2>8. QED BY <2>4, <2>5, <2>7 DEF FailedAfter
<1>4. IsFiniteSet(FailedAfter(p))
  BY FailedAfterFinite
<1>5. IsFiniteSet(FailedAfter(p)')
  <2>1. Len(created') \in Nat /\ DOMAIN created' = 1..Len(created')
    BY DEF TypeInv, PodInv, PodTypeOK
  <2>2. IsFiniteSet(1..Len(created'))
    BY <2>1, FS_Interval
  <2>3. FailedAfter(p)' \in SUBSET (1..Len(created'))
    BY <2>1 DEF FailedAfter
  <2>4. QED BY <2>2, <2>3, FS_Subset
<1>6. /\ Cardinality(FailedAfter(p)) \in Nat /\ Cardinality(FailedAfter(p)') \in Nat
      /\ Cardinality(FailedAfter(p)) <= Cardinality(FailedAfter(p)')
  BY <1>3, <1>4, <1>5, FS_CardinalityType, FS_Subset
<1>7. WasCreated(p) => WasCreated(p)'
  BY <1>1 DEF WasCreated
<1>8. QED BY <1>6, <1>7

LEMMA NextFailedInv ==
  ASSUME TypeInv, NotLaunched, FailedInv, Next
  PROVE  FailedInv'
<1> USE DEF TypeInv
<1>1. \A q \in Executions :
        /\ result[q] # "none" => result'[q] = result[q]
        /\ pod'[q] # "none" => pod[q] # "none" \/ WasCreated(q)'
        /\ pod[q] # "none" => pod'[q] # "none"
  BY HistoryGrows
<1>2. \A p \in Executions : WasCreated(p) => WasCreated(p)'
  BY HistoryGrows DEF WasCreated
<1>3. ASSUME NEW p \in Executions, pod'[p] = "failed" PROVE result'[p] = "error"
  <2>1. CASE pod[p] = "failed"
    BY <1>1, <2>1 DEF FailedInv
  <2>2. CASE pod[p] # "failed"
    <3>1. \E ended \in {"ok", "error"} : ContainerEnds(p, ended)
      <4>1. ASSUME NEW q \in Executions, DeletePod(q), UNCHANGED result PROVE FALSE
        BY <1>3, <2>2, <4>1, DeletePodOK
      <4>2. ASSUME NEW e \in Executions, ExecStep(e) PROVE FALSE
        <5>1. CASE e = p
          <6>1. pod'[p] \in {"gone", "terminating", "running"}
            BY <1>3, <2>2, <4>2, <5>1, ExecMoves DEF Moves
          <6>2. QED BY <1>3, <6>1
        <5>2. CASE e # p
          BY <1>3, <2>2, <4>2, <5>2, ExecMoves
        <5>3. QED BY <5>1, <5>2
      <4>3. ASSUME LoopStep PROVE FALSE
        BY <1>3, <2>2, <4>3 DEF LoopStep, TakeAuto, TakeRestart, TakeCustom, LaunchCustom, podVars
      <4>4. ASSUME CollectorStep PROVE FALSE
        <5>1. UNCHANGED result
          BY <4>4 DEF CollectorStep, ListPods, CollectPod, podVars
        <5>2. UNCHANGED pod \/ \E q \in failedPods : DeletePod(q)
          BY <4>4 DEF CollectorStep, ListPods, CollectPod, podVars
        <5>3. failedPods \subseteq Executions
          BY DEF PodInv, PodTypeOK
        <5>4. QED BY <1>3, <2>2, <4>1, <5>1, <5>2, <5>3
      <4>5. ASSUME NEW e \in Executions, PodRemoved(e) \/ Resync(e) PROVE FALSE
        BY <1>3, <2>2, <4>5 DEF PodRemoved, Resync, PodInv, PodTypeOK
      <4>6. ASSUME NEW e \in Executions, NEW ended \in {"ok", "error"}, ContainerEnds(e, ended)
            PROVE  e = p
        BY <1>3, <2>2, <4>6 DEF ContainerEnds, PodInv, PodTypeOK
      <4>7. CASE \/ \E e, q \in Executions : CreateFileURI(e, q)
                 \/ \E q \in Executions : NextStep(q)
                 \/ \E s \in Snapshots : AckStep(s)
        BY <1>3, <2>2, <4>7 DEF CreateFileURI, NextStep, CallNext, NextReturnsEmpty, NextReturns,
             AckStep, CallAck, AckReceived, AckLost, podVars
      <4>8. QED BY <4>2, <4>3, <4>4, <4>5, <4>6, <4>7, StepCases DEF OtherStep, ClusterStep
    <3>2. PICK ended \in {"ok", "error"} : ContainerEnds(p, ended)
      BY <3>1
    <3>3. ended = "error" /\ result' = [result EXCEPT ![p] = ended]
      BY <1>3, <3>2 DEF ContainerEnds, PodInv, PodTypeOK
    <3>4. QED BY <3>3 DEF PodInv, PodTypeOK
  <2>3. QED BY <2>1, <2>2
<1>4. ASSUME NEW p \in failedPods' PROVE p \in Executions /\ pod[p] # "none" /\ result[p] = "error"
  <2>1. CASE p \in failedPods
    BY <2>1 DEF FailedInv, PodInv, PodTypeOK
  <2>2. CASE p \notin failedPods
    <3>1. ListPods
      <4>1. ASSUME NEW e \in Executions, ExecStep(e) PROVE FALSE
        BY <2>2, <4>1, ExecMoves DEF gcVars
      <4>2. CASE OtherStep
        BY <2>2, <4>2 DEF OtherStep, LoopStep, TakeAuto, TakeRestart, TakeCustom, LaunchCustom,
           CollectorStep, CollectPod, ClusterStep, PodRemoved, Resync, ContainerEnds,
           CreateFileURI, NextStep, CallNext, NextReturnsEmpty, NextReturns, AckStep, CallAck,
           AckReceived, AckLost, gcVars
      <4>3. QED BY <4>1, <4>2, StepCases
    <3>2. p \in Failed
      BY <3>1 DEF ListPods
    <3>3. QED BY <3>2 DEF Failed, FailedInv
  <2>3. QED BY <2>1, <2>2
<1>5. QED BY <1>1, <1>2, <1>3, <1>4 DEF FailedInv

\* The oldest Pod of a list that is too long was created before all the others.
LEMMA OldestHasEnoughAfter ==
  ASSUME TypeInv, FailedInv, TooMany(failedPods), NEW p \in failedPods,
         IsOldest(p, failedPods)
  PROVE  Cardinality(FailedAfter(p)) >= PodCollectionQueueSize
<1>1. /\ created \in Seq(Executions) /\ Len(created) \in Nat /\ DOMAIN created = 1..Len(created)
      /\ failedPods \subseteq Executions
  BY DEF TypeInv, PodInv, PodTypeOK
<1>2. \A q \in failedPods : WasCreated(q) /\ result[q] = "error"
  BY <1>1 DEF FailedInv
<1> DEFINE others == failedPods \ {p}
           place == [q \in others |-> CHOOSE i \in DOMAIN created : created[i] = q]
<1>3. \A q \in others : place[q] \in DOMAIN created /\ created[place[q]] = q
  BY <1>2 DEF WasCreated
<1>4. PICK j \in DOMAIN created : created[j] = p
  BY <1>2 DEF WasCreated
<1>5. ASSUME NEW q \in others PROVE place[q] \in FailedAfter(p)
  <2>1. /\ place[q] \in DOMAIN created /\ created[place[q]] = q
        /\ q \in failedPods /\ q # p
    BY <1>3
  <2>2. j <= place[q]
    BY <1>4, <2>1 DEF IsOldest
  <2>3. j # place[q]
    BY <1>4, <2>1
  <2>4. j \in 1..(place[q] - 1)
    <3>1. j \in Nat /\ 1 <= j /\ place[q] \in Nat
      BY <1>1, <1>4, <2>1
    <3> HIDE DEF place
    <3>2. QED BY <2>2, <2>3, <3>1
  <2>5. result[created[place[q]]] = "error"
    BY <1>2, <2>1
  <2>6. QED BY <1>4, <2>1, <2>4, <2>5 DEF FailedAfter
<1>6. place \in Injection(others, FailedAfter(p))
  <2>1. place \in [others -> FailedAfter(p)]
    BY <1>5
  <2>2. \A q, r \in others : place[q] = place[r] => q = r
    BY <1>3
  <2> HIDE DEF place, others
  <2>3. QED BY <2>1, <2>2 DEF Injection, IsInjective
<1>7. IsFiniteSet(FailedAfter(p)) /\ Cardinality(FailedAfter(p)) \in Nat
  BY FailedAfterFinite, FS_CardinalityType
<1>8. Cardinality(others) <= Cardinality(FailedAfter(p))
  BY <1>6, <1>7, FS_Injection
<1>9. IsFiniteSet(failedPods) /\ Cardinality(failedPods) \in Nat
  <2>1. IsFiniteSet(Executions)
    BY TaskExecutionAssumption, FS_Interval DEF Executions
  <2>2. QED BY <1>1, <2>1, FS_Subset, FS_CardinalityType
<1>10. Cardinality(others) = Cardinality(failedPods) - 1
  BY <1>9, FS_RemoveElement
<1> HIDE DEF others, place
<1>11. QED BY <1>7, <1>8, <1>9, <1>10, TaskExecutionAssumption DEF TooMany

LEMMA NextNewest ==
  ASSUME TypeInv, TypeInv', NotLaunched, FailedInv, NewestFailedKept, [Next]_vars
  PROVE  FailedInv' /\ NewestFailedKept'
<1>n. NewestFailedKept <=>
        \A p \in collected : Cardinality(FailedAfter(p)) >= PodCollectionQueueSize
  BY DEF NewestFailedKept, FailedAfter
<1>m. NewestFailedKept' <=>
        \A p \in collected' : Cardinality(FailedAfter(p))' >= PodCollectionQueueSize
  BY DEF NewestFailedKept, FailedAfter
<1>1. CASE UNCHANGED vars
  BY <1>1 DEF vars, podVars, gcVars, FailedInv, WasCreated, NewestFailedKept
<1>2. CASE Next
  <2>1. SUFFICES ASSUME NEW p \in collected'
                 PROVE  Cardinality(FailedAfter(p))' >= PodCollectionQueueSize
    BY <1>2, <1>m, NextFailedInv
  <2>2. p \in Executions
    BY DEF TypeInv, PodInv, PodTypeOK
  <2>3. Cardinality(FailedAfter(p)) >= PodCollectionQueueSize
    <3>1. CASE p \in collected
      BY <3>1, <1>n
    <3>2. CASE p \notin collected
      <4>1. CollectPod
        <5>1. ASSUME NEW e \in Executions, ExecStep(e) PROVE FALSE
          BY <3>2, <5>1, ExecMoves DEF gcVars
        <5>2. CASE OtherStep
          BY <3>2, <5>2 DEF OtherStep, LoopStep, TakeAuto, TakeRestart, TakeCustom, LaunchCustom,
             CollectorStep, ListPods, ClusterStep, PodRemoved, Resync, ContainerEnds,
             CreateFileURI, NextStep, CallNext, NextReturnsEmpty, NextReturns, AckStep, CallAck,
             AckReceived, AckLost, gcVars
        <5>3. QED BY <1>2, <5>1, <5>2, StepCases
      <4>2. /\ TooMany(failedPods) /\ p \in failedPods
            /\ IsOldest(p, failedPods)
        BY <3>2, <4>1 DEF CollectPod
      <4>3. QED BY <4>2, OldestHasEnoughAfter
    <3>3. QED BY <3>1, <3>2
  <2>4. QED BY <1>2, <2>2, <2>3, FailedAfterGrows, TaskExecutionAssumption
<1>3. QED BY <1>1, <1>2

\* The collector never deletes a Pod unless at least as many Pods as it is to keep were
\* created later and failed, however Pods fail, are deleted or are launched between its
\* list and its deletions (pod_gc.go, collect and selectFailedPods).
THEOREM NewestAreKept == Spec => []NewestFailedKept
<1>1. Init => FailedInv /\ NewestFailedKept
  BY DEF Init, FailedInv, NewestFailedKept
<1>2. /\ IndInv /\ IndInv' /\ FailedInv /\ NewestFailedKept /\ [Next]_vars
      => FailedInv' /\ NewestFailedKept'
  BY NextNewest DEF IndInv
<1>3. QED BY <1>1, <1>2, SpecIndInv, PTL DEF Spec
=============================================================================
