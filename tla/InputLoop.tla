------------------------------ MODULE InputLoop ------------------------------
(***************************************************************************)
(* The input loop of a task agent (pkg/agent/task/input_loop.go and        *)
(* input_snapshot.go) for the launch policies Auto and Restart.            *)
(*                                                                         *)
(* One watcher per input receives annotated values, adds them to the       *)
(* shared snapshot under il.mutex and, when the snapshot is ready, sends a *)
(* clone over the unbuffered execQueue, with the mutex released.  One      *)
(* goroutine takes clones off that channel and executes them.              *)
(*                                                                         *)
(* The values of an input are numbered in the order in which its link      *)
(* returned them; snapshots are numbered in the order in which they were   *)
(* built (executionCount).                                                 *)
(***************************************************************************)
EXTENDS Integers, FiniteSets, Sequences, SequencesExt

CONSTANTS Inputs,       \* names of the task's inputs
          NoInput,      \* no MergeInto
          Specs,        \* the task specifications considered, see Valid
          MaxArrivals   \* bound: annotated values received per input

\* The part of a TaskSpec that the input loop reads.
TaskSpec == [policy : {"AllNew", "SwapNew4Old", "SlidingWindow"},
             launch : {"Auto", "Restart"},
             min : [Inputs -> Nat], max : [Inputs -> Nat],
             slide : [Inputs -> Nat],
             mergeInto : [Inputs -> Inputs \cup {NoInput}]]

\* TaskInputSpec.Validate, for every input of the task.
Valid(t) ==
  \A i \in Inputs :
    /\ t.min[i] >= 1 /\ t.max[i] >= t.min[i]
    /\ t.policy = "SwapNew4Old" => t.min[i] = 1 /\ t.max[i] = 1
    /\ t.policy = "SlidingWindow" => t.min[i] = t.max[i]
    /\ t.slide[i] \in 1..t.min[i]
    /\ t.mergeInto[i] # NoInput =>
         t.mergeInto[i] # i /\ t.mergeInto[t.mergeInto[i]] = NoInput

ASSUME InputLoopAssumption ==
  /\ IsFiniteSet(Inputs) /\ NoInput \notin Inputs /\ MaxArrivals \in Nat
  /\ \A t \in Specs : t \in TaskSpec /\ Valid(t)

Numbers == 1..(Cardinality(Inputs) * MaxArrivals)
Values == Inputs \X (1..MaxArrivals)
Pairs == [av : Values, ack : BOOLEAN]

VARIABLES
  spec,        \* the task's specification; it never changes
  received,    \* received[i]: values that watcher i got from Next
  watcher,     \* watcher[i]: what the goroutine of input i does
  clone,       \* clone[i]: the clone watcher i is sending, 0 if none
  snapshot,    \* snapshot[i]: the sequence under construction for input i
  executionCount,
  contents,    \* contents[n]: the n-th clone
  stage,       \* stage[n]: how far the execution of the n-th clone has come
  processor,   \* the goroutine that runs processExecQueue
  taken,       \* numbers of the clones it took, in that order (history)
  lastCancel,  \* the execution it can cancel, 0 if none
  stopped,     \* executions whose launch context was cancelled
  cancelled,   \* the context of Run was cancelled
  acked,       \* values acknowledged to their link
  waiting, inProgress, succeeded, failed  \* counters of TaskStatistics

statVars == <<waiting, inProgress, succeeded, failed>>
watchVars == <<received, watcher, clone, snapshot>>
buildVars == <<executionCount, contents>>
execVars == <<processor, taken, lastCancel, stopped>>
vars == <<spec, watchVars, buildVars, stage, execVars, cancelled, acked,
          statVars>>

\* snapshotInputs: the inputs that are not merged into another one.
SnapshotInputs == {i \in Inputs : spec.mergeInto[i] = NoInput}
\* tisOut: where the values of input i go.
Target(i) == IF i \in SnapshotInputs THEN i ELSE spec.mergeInto[i]

Init ==
  /\ spec \in Specs
  /\ received = [i \in Inputs |-> 0]
  /\ watcher = [i \in Inputs |-> "fetching"]
  /\ clone = [i \in Inputs |-> 0]
  /\ snapshot = [i \in Inputs |-> <<>>]
  /\ executionCount = 0
  /\ contents = <<>>
  /\ stage = <<>>
  /\ processor = "idle"
  /\ taken = <<>>
  /\ lastCancel = 0
  /\ stopped = {}
  /\ cancelled = FALSE
  /\ acked = {}
  /\ waiting = 0 /\ inProgress = 0 /\ succeeded = 0 /\ failed = 0

-----------------------------------------------------------------------------
(* Watchers.                                                               *)

\* Next returned a value; it must get a place in the snapshot.
Receive(i) ==
  /\ watcher[i] = "fetching" /\ ~cancelled
  /\ received[i] < MaxArrivals
  /\ received' = [received EXCEPT ![i] = @ + 1]
  /\ watcher' = [watcher EXCEPT ![i] = "waiting"]
  /\ UNCHANGED <<spec, clone, snapshot, buildVars, stage, execVars, cancelled, acked,
                 statVars>>

\* Mutant: one value too many.
HasRoomAtMax(i) == Len(snapshot[Target(i)]) <= spec.max[Target(i)]

HasRoom(i) == Len(snapshot[Target(i)]) < spec.max[Target(i)]

\* The snapshot after Set.  Add never drops an old value here: there is room.
WithValue(i) ==
  [snapshot EXCEPT ![Target(i)] =
     Append(@, [av |-> <<i, received[i]>>, ack |-> TRUE])]

\* Mutant: inputs that have no value yet are not looked at.
ReadyWithMissing(s) ==
  \A i \in SnapshotInputs : s[i] = <<>> \/ Len(s[i]) >= spec.min[i]

\* IsReadyForExecution, with the default minimum of at least 1.
Ready(s) == \A i \in SnapshotInputs : Len(s[i]) >= spec.min[i]

\* Mutant: RemoveAck is forgotten.
StillWithAck(q) == q

WithoutAck(q) == [j \in DOMAIN q |-> [q[j] EXCEPT !.ack = FALSE]]

\* Mutant: AllNew slides as well.
PreparedSlides(i, q) ==
  IF spec.policy = "SwapNew4Old" THEN WithoutAck(q)
  ELSE WithoutAck(SubSeq(q, spec.slide[i] + 1, Len(q)))

\* Mutant: a window is not moved at all.
PreparedUnmoved(i, q) == IF spec.policy = "AllNew" THEN <<>> ELSE WithoutAck(q)

\* What the policy leaves of sequence q for the next snapshot.
Prepared(i, q) ==
  CASE spec.policy = "AllNew" -> <<>>
    [] spec.policy = "SlidingWindow" ->
         WithoutAck(SubSeq(q, spec.slide[i] + 1, Len(q)))
    [] spec.policy = "SwapNew4Old" -> WithoutAck(q)

\* The value is set; the snapshot misses values still.
Collect(i) ==
  /\ watcher[i] = "waiting" /\ HasRoom(i)
  /\ ~Ready(WithValue(i))
  /\ snapshot' = WithValue(i)
  /\ watcher' = [watcher EXCEPT ![i] = "fetching"]
  /\ UNCHANGED <<spec, received, clone, buildVars, stage, execVars, cancelled,
                 acked, statVars>>

\* The value completes the snapshot: it is cloned and what remains of it is
\* prepared, all under the mutex; then the watcher blocks on execQueue.
Build(i) ==
  /\ watcher[i] = "waiting" /\ HasRoom(i)
  /\ Ready(WithValue(i))
  /\ executionCount' = executionCount + 1
  /\ contents' = Append(contents, WithValue(i))
  /\ stage' = Append(stage, "sending")
  /\ clone' = [clone EXCEPT ![i] = executionCount']
  /\ snapshot' = [j \in Inputs |-> Prepared(j, WithValue(i)[j])]
  /\ waiting' = waiting + 1
  /\ watcher' = [watcher EXCEPT ![i] = "sending"]
  /\ UNCHANGED <<spec, received, execVars, cancelled, acked, inProgress,
                 succeeded, failed>>

\* The wait for room and the fetch look at the context, the send does not.
WatcherReturns(i) ==
  /\ cancelled
  /\ watcher[i] \in {"fetching", "waiting"}
  /\ watcher' = [watcher EXCEPT ![i] = "returned"]
  /\ UNCHANGED <<spec, received, clone, snapshot, buildVars, stage, execVars,
                 cancelled, acked, statVars>>

-----------------------------------------------------------------------------
(* processExecQueue and execOnSnapshot.                                    *)

\* The rendezvous on execQueue.  Auto executes in this goroutine, Restart
\* cancels the last execution and starts a goroutine for the new one.
TakeSnapshot(i) ==
  /\ watcher[i] = "sending" /\ processor = "idle"
  /\ watcher' = [watcher EXCEPT ![i] = "fetching"]
  /\ clone' = [clone EXCEPT ![i] = 0]
  /\ stage' = [stage EXCEPT ![clone[i]] = "starting"]
  /\ taken' = Append(taken, clone[i])
  /\ IF spec.launch = "Auto"
       THEN processor' = "executing" /\ UNCHANGED <<lastCancel, stopped>>
       ELSE /\ stopped' = stopped \cup ({lastCancel} \ {0})
            /\ lastCancel' = clone[i]
            /\ UNCHANGED processor
  /\ UNCHANGED <<spec, received, snapshot, buildVars, cancelled, acked,
                 statVars>>

ProcessorReturns ==
  /\ cancelled /\ processor = "idle"
  /\ processor' = "returned"
  /\ UNCHANGED <<spec, watchVars, buildVars, stage, taken, lastCancel, stopped,
                 cancelled, acked, statVars>>

\* The execution's context: Run's own, or the one its launch can cancel.
CtxDone(n) == cancelled \/ n \in stopped

\* Mutant: the loop ends after one execution.
AfterOneExecution ==
  processor' = IF spec.launch = "Restart" THEN processor ELSE "returned"

\* What processExecQueue does once execOnSnapshot has returned.
AfterExecution ==
  processor' = CASE spec.launch = "Restart" -> processor
                 [] cancelled -> "returned"
                 [] OTHER -> "idle"

ExecuteStarts(n) ==
  /\ stage[n] = "starting"
  /\ stage' = [stage EXCEPT ![n] = "running"]
  /\ waiting' = waiting - 1
  /\ inProgress' = inProgress + 1
  /\ UNCHANGED <<spec, watchVars, buildVars, execVars, cancelled, acked,
                 succeeded, failed>>

\* The values of input i that clone n must acknowledge, in the first k places.
ToAck(n, i, k) == {contents[n][i][j].av : j \in
                     {m \in 1..k : contents[n][i][m].ack}}
AllToAck(n) == UNION {ToAck(n, i, Len(contents[n][i])) : i \in SnapshotInputs}

\* AckAll visits the inputs in any order and stops at the first error: at i,
\* after k of its values, having done the inputs in the set before.
AckedUntil(n, before, i, k) ==
  (UNION {ToAck(n, j, Len(contents[n][j])) : j \in before}) \cup ToAck(n, i, k)

\* Mutant: the values of a failed execution are acknowledged too.
ExecuteFailsAcks(n) ==
  /\ stage[n] = "running"
  /\ stage' = [stage EXCEPT ![n] = "failed"]
  /\ acked' = acked \cup AllToAck(n)
  /\ failed' = failed + 1
  /\ inProgress' = inProgress - 1
  /\ AfterExecution
  /\ UNCHANGED <<spec, watchVars, buildVars, taken, lastCancel, stopped,
                 cancelled, waiting, succeeded>>

\* executor.Execute returned an error, or its context was cancelled meanwhile,
\* whatever it returned: no value is acknowledged.
ExecuteFails(n) ==
  /\ stage[n] = "running"
  /\ stage' = [stage EXCEPT ![n] = "failed"]
  /\ failed' = failed + 1
  /\ inProgress' = inProgress - 1
  /\ AfterExecution
  /\ UNCHANGED <<spec, watchVars, buildVars, taken, lastCancel, stopped,
                 cancelled, acked, waiting, succeeded>>

ExecuteSucceeds(n) ==
  /\ stage[n] = "running" /\ ~CtxDone(n)
  /\ stage' = [stage EXCEPT ![n] = "acking"]
  /\ succeeded' = succeeded + 1
  /\ UNCHANGED <<spec, watchVars, buildVars, execVars, cancelled, acked,
                 waiting, inProgress, failed>>

\* Mutant: an acknowledgement that fails leaves the execution counted.
AckAllUncounted(n) ==
  /\ stage[n] = "acking"
  /\ acked' = acked \cup AllToAck(n)
  /\ stage' = [stage EXCEPT ![n] = "finished"]
  /\ AfterExecution
  /\ UNCHANGED <<spec, watchVars, buildVars, taken, lastCancel, stopped,
                 cancelled, statVars>>

AckAll(n) ==
  /\ stage[n] = "acking"
  /\ \/ acked' = acked \cup AllToAck(n)
     \/ \E before \in SUBSET SnapshotInputs, i \in SnapshotInputs :
          \E k \in 0..Len(contents[n][i]) :
            /\ i \notin before
            /\ acked' = acked \cup AckedUntil(n, before, i, k)
  /\ stage' = [stage EXCEPT ![n] = "finished"]
  /\ inProgress' = inProgress - 1
  /\ AfterExecution
  /\ UNCHANGED <<spec, watchVars, buildVars, taken, lastCancel, stopped,
                 cancelled, waiting, succeeded, failed>>

Cancel ==
  /\ ~cancelled
  /\ cancelled' = TRUE
  /\ UNCHANGED <<spec, watchVars, buildVars, stage, execVars, acked, statVars>>

-----------------------------------------------------------------------------
WatcherStep(i) == Receive(i) \/ Collect(i) \/ Build(i) \/ WatcherReturns(i)

ExecutionStep(n) ==
  \/ ExecuteStarts(n)
  \/ ExecuteFails(n)
  \/ ExecuteSucceeds(n)
  \/ AckAll(n)

Next ==
  \/ \E i \in Inputs : WatcherStep(i) \/ TakeSnapshot(i)
  \/ \E n \in DOMAIN stage : ExecutionStep(n)
  \/ ProcessorReturns
  \/ Cancel

Spec == Init /\ [][Next]_vars

-----------------------------------------------------------------------------
(* Properties.                                                             *)

Clones == DOMAIN contents
Active(n) == stage[n] \in {"starting", "running", "acking"}

InputLoopTypeOK ==
  /\ spec \in Specs
  /\ received \in [Inputs -> 0..MaxArrivals]
  /\ watcher \in [Inputs -> {"fetching", "waiting", "sending", "returned"}]
  /\ executionCount = Len(contents) /\ contents \in Seq([Inputs -> Seq(Pairs)])
  /\ snapshot \in [Inputs -> Seq(Pairs)]
  /\ \A i \in Inputs : Len(snapshot[i]) <= spec.max[i]
  /\ clone \in [Inputs -> 0..executionCount]
  /\ \A i \in Inputs : watcher[i] = "sending" => clone[i] # 0
  /\ Len(stage) = executionCount
  /\ stage \in Seq({"sending", "starting", "running", "acking", "finished", "failed"})
  /\ processor \in {"idle", "executing", "returned"}
  /\ taken \in Seq(Clones) /\ lastCancel \in 0..executionCount
  /\ stopped \subseteq Clones /\ cancelled \in BOOLEAN
  /\ acked \subseteq Values
  /\ {waiting, inProgress, succeeded, failed} \subseteq Int

\* The sequence of input i in clone n, or in the snapshot under construction (0).
SequenceIn(n, i) == IF n = 0 THEN snapshot[i] ELSE contents[n][i]

\* The places that have the duty to acknowledge v.
Duty(v) == {d \in ({0} \cup Clones) \X Inputs :
              [av |-> v, ack |-> TRUE] \in Range(SequenceIn(d[1], d[2]))}

\* Every value that a watcher received and that does not wait for room is to be
\* acknowledged by exactly one snapshot, however snapshots overlap: were it none,
\* the link would keep it inflight for ever; were it two, the second Ack would
\* fail and end AckAll early.
OneAckDuty ==
  \A v \in Values :
    LET i == v[1]
    IN  /\ Cardinality(Duty(v)) <= 1
        /\ \/ v[2] < received[i]
           \/ v[2] = received[i] /\ watcher[i] \in {"fetching", "sending"}
           => Duty(v) # {}

\* A value is acknowledged only after the one snapshot that has the duty was
\* executed successfully; before that the link can still deliver it again.
AckedAfterSuccess ==
  \A v \in acked : \E n \in Clones, i \in Inputs :
    <<n, i>> \in Duty(v) /\ stage[n] = "finished"

\* The values that clone n, or the snapshot under construction, must acknowledge.
Owed(n) ==
  {v \in Values : \E i \in Inputs : [av |-> v, ack |-> TRUE] \in Range(SequenceIn(n, i))}

\* How far a batch has come, for somebody who does not see the channel.
Outcome(st) ==
  CASE st \in {"sending", "starting"} -> "queued"
    [] st = "acking" -> "succeeded"
    [] st = "finished" -> "done"
    [] OTHER -> st

AsBatches == INSTANCE Batches WITH
  arrived <- {v \in Values : v[2] <= received[v[1]]},
  pending <- Owed(0),
  batch <- [n \in Clones |-> Owed(n)],
  progress <- [n \in Clones |-> Outcome(stage[n])]

\* The input loop implements Batches: a value that arrives is owed by one batch,
\* which is whatever waited when a watcher completed the snapshot; a batch never
\* changes after that, is executed once, and nothing of it is acknowledged unless
\* its execution succeeded, however watchers, executions and cancellations overlap.
ImplementsBatches == AsBatches!BatchesSpec

NoMerge == SnapshotInputs = Inputs
Initial(n, i) == contents[n][i][1].av[2]
Final(n, i) == Initial(n, i) + Len(contents[n][i]) - 1

\* Without merging, the clones of an input are windows on the stream of its
\* values, without gaps: AllNew continues after the previous window and
\* SlidingWindow moves on by slide, whatever the other inputs do meanwhile.
WindowsAdvance ==
  NoMerge =>
    \A n \in Clones, i \in Inputs :
      /\ Len(contents[n][i]) \in spec.min[i]..spec.max[i]
      /\ \A j \in DOMAIN contents[n][i] :
           contents[n][i][j].av = <<i, Initial(n, i) + j - 1>>
      /\ n = 1 => Initial(n, i) = 1
      /\ n > 1 /\ spec.policy = "AllNew" => Initial(n, i) = Final(n - 1, i) + 1
      /\ n > 1 /\ spec.policy = "SlidingWindow" =>
           Initial(n, i) = Initial(n - 1, i) + spec.slide[i]

\* The mutex is released before the clone is sent, so two watchers could send in
\* the wrong order.  Without merging they cannot: the next clone needs a new
\* value of the input whose watcher is still sending.
TakenInOrder ==
  NoMerge => \A k \in DOMAIN taken : taken[k] = k

\* The inputs never all wait for room in the snapshot: a snapshot that is full
\* has been built and emptied.  (Not so for SwapNew4Old.)
NoWedge ==
  spec.policy # "SwapNew4Old" /\ Inputs # {} =>
    \E i \in Inputs : ~(watcher[i] = "waiting" /\ ~HasRoom(i))

Count(S) == Cardinality({n \in Clones : stage[n] \in S})

\* SnapshotsWaiting and SnapshotsInProgress are what their documentation says,
\* at every instant and for overlapping executions too.
SnapshotCounters ==
  /\ waiting = Count({"sending", "starting"})
  /\ inProgress = Count({"running", "acking"})
  /\ failed = Count({"failed"})
  /\ succeeded = Count({"acking", "finished"})

-----------------------------------------------------------------------------
(* Liveness.  Goroutines run; the executor ends every execution, one way or *)
(* the other; Ack has a deadline.                                           *)

Fairness ==
  /\ \A i \in Inputs : /\ WF_vars(WatcherStep(i))
                       /\ SF_vars(TakeSnapshot(i))
  /\ \A n \in Numbers : WF_vars(n \in DOMAIN stage /\ ExecutionStep(n))
  /\ WF_vars(ProcessorReturns)

FairSpec == Spec /\ Fairness

\* Every snapshot that was built is executed, also if its watcher has to compete
\* with others for the processor, unless the task agent stops.
BuiltAreExecuted ==
  \A n \in Numbers :
    n \in Clones ~> cancelled \/ (n \in Clones /\ stage[n] \in {"finished", "failed"})

=============================================================================
