# Verification of koalja-operator

TLA+ models of the koalja operator (`src/`), checked with TLC, and theorems
about them proved with TLAPS. This file is the guide: what the system is, which
module models which code, what the runs and proofs show, and what is left.

## 1. The system

A *pipeline* is a graph of tasks; a *link* connects an output of one task to an
input of another. The operator deploys, for every pipeline, one pipeline agent,
one link agent per link and one task agent per task. *Annotated values* (AVs:
an ID and a reference to data) flow like this:

    task agent A                   link agent                 task agent B
    output publisher --CanPublish--> limit on waiting values
                     --Publish-----> queue <--Subscribe/Next-- input loop
                                     inflight <-----Ack------- snapshot -> executor Pod

| Component (code under `src/pkg`) | State | Operations | What is hard | What makes it correct |
|---|---|---|---|---|
| Link agent, in memory (`agent/link/stub`) | channels `queue`, `retryQueue`; subscriptions with in-flight values; counters | CanPublish, Publish, Subscribe, Ping, Close, Next, Ack | handlers run concurrently, only part of each under the mutex; retries; Close half way | no accepted value forgotten or in two hands; counters exact; limit kept and not a trap |
| Link agent, ArangoDB (`agent/link/arangodb`) | documents of the queue and of subscriptions, shared by all links of a pipeline; counters in memory | the same, plus collection of expired subscriptions | every handler is several queries; restarts; stale counts | as above, across restarts |
| Input loop (`agent/task/input_loop.go`, `input_snapshot.go`) | snapshot under construction, clones, `execQueue` | watchers add values and build snapshots; processor executes them | mutex released while a clone is sent; overlapping windows; failed and cancelled executions | each value acknowledged once, after success; windows and order; no deadlock |
| Output publisher (`agent/task/output_publisher.go`) | two channels per link, one runner per link | OutputReady, Publish (ask all, hand to all), runForOutput | concurrent and cancelled calls; channels closed on both sides; retry | all links or none; no lost request; calls return |
| Snapshot service (`agent/task/snapshot_service.go`) | two channels | Execute, Next, Ack | executor dies between Next and Ack | one snapshot at a time, in order |
| Executor and Pod GC (`executor.go`, `pod_gc.go`) | Pods, channel of Pod changes | Run, Execute, CreateFileURI, collect | events shared by executions; deletion with a cancelled context | an execution ends when its Pod ends; no Pod left alone; results are the own ones |
| Registration (`agent/link/service.go`, `agent/task/service.go`, `agent/pipeline/stub`) | agents and their statistics | RegisterLink/Task, Publish…Statistics, Get…Statistics | retries, restarts of the pipeline agent | the registry has the current statistics of every agent in the end |
| Frontend hub (`agent/pipeline/frontend`) | set of clients, broadcast queue | register, unregister, broadcast | slow clients; a client removed by its reader and by the hub | no send on a closed channel, no client forgotten |
| AV registry (`annotatedvalue/registry`) | recorded AVs | Record, queries | | recorded values are found |
| Pipeline controller (`controller/pipeline`) | Kubernetes objects | Reconcile | any call fails; stale caches; edits in the middle; restarts | converges; never goes back; a revision is recorded before it is used |
| File system services (`fs/service`) | volumes, node registry | volume and URI requests, node registration | node loss | a URI leads to a live node |

Components interact by gRPC (task agent to link agent, agents to pipeline
agent, executor to task agent), by channels and mutexes inside an agent, and by
Kubernetes objects and watches (operator, executor). `PROJECT.json` lists every
component with its status, and every hazard with its line and the properties
that cover it.

## 2. Modules

| Module | Models | Extends / instantiates |
|---|---|---|
| `LinkQueue` | link agent with in-memory storage and the publishers that use it | `Delivery` (refinement) |
| `Delivery` | abstract: what a link promises about each copy | |
| `LinkQueueDB` | link agents of a pipeline with ArangoDB, their publishers and watchers | `DurableQueue` (refinement) |
| `DurableQueue` | abstract: what the link agents promise about each stored document | |
| `InputLoop` | input loop of a task agent, launch policies Auto and Restart | `Batches` (refinement) |
| `Batches` | abstract: what a task agent promises about the values it receives | |
| `TaskExecution` | executions of a task: processor under all launch policies, executor, snapshot service, Pod garbage collector | |
| `OutputPublisher` | one output of a task agent with its links | |
| `PipelineAgent` | registration loops of agents, registry and statistics, frontend hub | |
| `Reconciler` | the pipeline controller for one Pipeline | |
| `MC…` | small instances for TLC | the module of that name |
| `LinkQueue_proofs` | theorems about `LinkQueue`, from lemmas on sequences without repetition | `LinkQueue` |
| `LinkQueueDB_proofs` | types, subscriptions, acknowledgements and refinement of `LinkQueueDB` | `LinkQueueDB` |
| `LinkQueueDBLimit_proofs` | the limit on waiting values of `LinkQueueDB` | `LinkQueueDB_proofs` |
| `InputLoop_proofs`, `TaskExecution_proofs`, `OutputPublisher_proofs`, `PipelineAgent_proofs`, `Reconciler_proofs` | theorems about the module of that name | that module |

`InputLoop` and `TaskExecution` meet at the `execQueue`: the first models how
snapshots come about and what becomes of their values, and sees an execution as
something that succeeds or fails; the second starts with a snapshot taken from
the queue and models what an execution is.

Operators whose comment starts with "Mutant:" are deliberately wrong variants
of the operator that follows them. They occur in no specification; replacing
the operator by its variant must violate the property that `PROJECT.json` names.

### LinkQueue

A gRPC server runs every call in a goroutine of its own. An action is one
stretch of a handler between two points at which others interfere (mutex,
channel operation, counter):

- `Publish`: `PublishCount` (the value is recorded, the counter raised), then
  `PublishEnqueue` or `PublishCtxDone`; `PublishRecordFails` returns early.
- `Close` holds the mutex from `CloseBegin` to `CloseDone` or `CloseFails`;
  `CloseSend` and `CloseCount` separate the send on the retry channel from the
  counters, because Next handlers receive from that channel without the mutex.
- `Next`: `NextLookup` (mutex), `NextFromQueue` / `NextFromRetryQueue` /
  `NextTimeout` (no mutex), `NextSetInflight` / `NextNoLongerFound` (mutex).
- `Subscribe`, `Ping` and `Ack` hold the mutex throughout and are one action.

A *copy* is the struct one call of Publish allocates. Publishers follow
`runForOutput`: CanPublish, then Publish with retries whose outcome may be
unknown (`PublishRetry`), then the next value or `PublishGiveUp`. The constant
`Publishers` is the number of such publications at a time; the code has one per
link, the model allows more. History variables: `abandoned`, `acked`, `dropped`.

`Delivery` knows copies and subscriptions only. The refinement mapping computes
where each copy is; `ImplementsDelivery` says that every step of the stub is a
step of `Delivery` or invisible to it.

### LinkQueueDB

Every link of the pipeline has an agent with statistics in memory; all of them
share two collections of the database. The database runs one query atomically,
so an action is one query of a handler:

- `Publish`: `CreateDocument`, `PublishCount`, `PublishStore`; `PublishFails` and
  `PublishCountFails` are its error paths. Recording the value in the registry
  belongs to the first query.
- `Next`: `NextRenew`, `NextAssign` or `NextFindsNone`, `NextCount`, `NextStore`.
- `Subscribe`: `SubscribeFind` then `SubscribeCreate`, or `SubscribeConflict` when
  the unique index refuses; `SubscribeAgain` when a subscription is found.
- `Ack`: `AckFind` (load, renew, look up), `AckRemove` or `AckRemoveFails`.
- `Close` and the collector: un-assign, then remove, with failures in between.
- `Restart` ends the handlers of an agent and resets its statistics.

Documents are named after the Publish call that creates them. Time is abstract:
`TTLElapses` may expire a subscription whenever no Next call renews it. An element
of `Publishers` is a series of OutputReady calls; those of one link share its
runner, as `runForOutput` does, because an executor may call OutputReady
concurrently (the file drop and REST executors do). `ClosingClients` is empty for
the input loop, which never calls Close. History variables: `abandoned`,
`everAssigned`, and `faults`, the number of restarts and failed queries.

`DurableQueue` knows documents, who holds them, what is on its way to a client, and
the number of acknowledgements that each link counted. The refinement mapping
computes where a document is: not stored yet, in the queue, or gone (`Place`); the
other variables are those of `LinkQueueDB`. `ImplementsDurableQueue` says that every
query, failure and restart is a step of `DurableQueue` or invisible to it. It
concedes what the code does: an assignment takes all free documents of a link, and
a client can acknowledge any queued document whose value it got.

### InputLoop

One watcher per input receives AVs (`Receive`), waits for room, adds its value
(`Collect`) or completes the snapshot (`Build`: set, clone and prepare for the
next execution, all under the mutex, then block on `execQueue`).
`TakeSnapshot` is the rendezvous on that channel. `ExecuteStarts`,
`ExecuteFails`, `ExecuteSucceeds` and `AckAll` are `execOnSnapshot`; `AckAll`
visits the inputs in any order and may stop at any value, as the code does when
an acknowledgement fails. The task's specification is a variable chosen
initially from `Specs`, so that one run covers all policies; `Valid` is
`TaskInputSpec.Validate`. AVs of an input are numbered as its link returned them.

Every AV in a sequence carries whether that place must acknowledge it, which is
the `ack` closure being nil or not. The branch of `Add` that acknowledges and
drops the oldest value is not in the model: `processAnnotatedValue` waits for
room first, so it is never reached.

`Batches` knows values and batches: a value arrives, waits, or is in one batch, which
is executed and, if that succeeds, acknowledged in part or in whole. The refinement
mapping makes a batch of the values that a clone must acknowledge (`Owed`), and
forgets the sequences, windows and the channel (`Outcome`). `ImplementsBatches` is how
the duties of `OneAckDuty`, the order of `execOnSnapshot` and the windows fit
together: no value changes its batch once a clone is built, and none is acknowledged
for an execution that failed or was cancelled.

### OutputPublisher

Each call of `Publish` has one goroutine per link in each phase (`ask`, `hand`),
each link has one runner (`runForOutput`). All channels are unbuffered, so a
send and its receive are one action. `panicked` becomes TRUE where the code
sends on or closes a closed channel; a panic ends the process, so nothing
happens afterwards.

### TaskExecution

`setting`, chosen initially from `Settings`, is what Execute reads of the task:
the launch policy, and whether a proxy container runs next to the executor.

- The processor (`processExecQueue`): `TakeAuto` executes in the same goroutine,
  so that nothing else is in Execute; `TakeRestart` cancels the last execution and
  launches the next one without waiting; `TakeCustom` gives the snapshot to the
  snapshot service, and `LaunchCustom` is the loop that keeps an executor running.
- `executor.Execute`, one variable `stage[e]` per call: `Build` / `BuildFails`
  (volumes), `LaunchPod` / `LaunchFails`, one turn of the wait loop
  (`HandleChange`, `CreateFileURI`, `GiveUp`), `ProcessOutputs` / `ProcessFails`,
  `Finish`. Every return runs the deferred deletion of resources (`Return`).
  Deletions may fail, which the code only logs: `leftPods`, `leftResources`.
- The wait loops of all executions read one channel (`changes`) and throw away what
  is not about their own Pod; the same holds for calls of CreateFileURI (`misled`
  records Pods that were served with the volumes of another execution).
- The cluster (external): containers end (`ContainerEnds`; with a proxy the Pod
  itself does not end: "halfway"), deleted Pods go (`PodRemoved`), the informer
  reports changes and repeats them (`Resync`).
- `podGC`: `ListPods` is the list of a pass, `CollectPod` one turn of its loop on
  the list, which may be out of date by then.
- The snapshot service: `service` is where its Execute waits; `NextReturns` and
  `AckReceived` are rendezvous on its channels; `NextReturnsEmpty` and `AckLost` are
  timeouts and broken connections. `CallNext` and `CallAck` are the executor's side
  (external), with repeated acknowledgements and callers that die.

### PipelineAgent

The statistics of an agent are a version number. `Turn`, `Attempt`, `TimesOut` and
`AgentRestarts` are `runUpdateAgentRegistration`, in the two variants of link and
task agents: a link agent publishes what its statistics are at the attempt, a task
agent what it copied before the first one. A call is a message in `calls`; when an
attempt times out, the call stays and may be handled later (`live` is FALSE then),
or is lost. `Register` and `Publish` are the registry's handlers under its mutex;
`Publish` is followed by `StatisticsChanged`, which waits for room in the hub's
queue. `PipelineAgentRestarts` loses the registry and all connections.

The hub: `HubRegister`, `HubUnregister` and `HubBroadcast` are the three cases of
`Hub.run`; a client that has no room (`Slow`) is dropped and its channel closed.
`Write`, `WriterEnds` and `ReaderEnds` are `writePump` and `readPump`. `stale`
records the members that were not told of a change yet.

### Reconciler

One call of `Reconcile` takes many steps: `TakeRequest` (fetch, validation),
`ServicesFail`, `DomainFails`, `UpdateStatus` / `UpdateStatusFails` (the revision and
domain are written with the whole Pipeline), `ListFileSystems`, then the ensure
steps in `Order`, each one of `Skip`, `NoLink`, `UpToDate`, `Write`, `WriteFails`.
Results are
merged as in `MergeReconcileResult`. The code's errors that are not returned
(lines 193 and 209 of `pipeline_controller.go`) set `silent`.

`cached` and `seen` are the manager's caches; `SyncPipeline` and `Sync` bring a
change there, with the request that a watch makes of it. An update is refused by
the API server when the object changed since it was read: `pipeline = inst`,
`seen[o] = objects[o]`. Objects are of sorts: watched or not, owned by the Pipeline
or not (three RoleBindings are not, since their controller reference is set on the
role instead), dependent on the specification or not, made from an agent resource
or not, Services of task executors or not. An object is the version of the
specification it was written for.

`Differs` sees every difference between versions, as the diff functions do for
agents (whose environment names the revision) and the IngressRoute, except in
Services: `ServicePortsEqual` looks for ports that are missing and not for ports that
are not wanted any more, so `Ports[v]` says which ports version v wants, and an
object of an older version that has them is left alone. A specification that passes
validation may have a step that never succeeds: an input without a link
(`Unlinked`, action `NoLink`), or an object that the API server's own validation
rejects (`Refused`, in `Accepted`). Such a step ends every call, and `Stuck` names it.

## 3. Runs

Deadlock checking is off in every run: the copies, calls, arrivals, executions
and faults of a run are bounded, so a behaviour ends when they are used up (and
after a panic).

| Run | Shows | Bounds |
|---|---|---|
| `link_queue` | invariants `TypeOK`, `Conservation`, `WaitingCounter`, `BackpressureBound` | 1 publisher, 2 values, 3 Publish calls, 2 clients and subscriptions, 2 Next handlers, limit 1, retry queue 1 |
| `link_queue_refinement` | `ImplementsDelivery`, liveness `PublishingResumes` | 1 value, 2 calls, 2 subscriptions, 1 handler |
| `input_loop` | six invariants, the refinement `ImplementsBatches`, liveness `BuiltAreExecuted` | 2 inputs, 3 AVs each, 6 task specifications |
| `task_execution` | five invariants, `ExecutionsEnd`, `SupersededStop` | 3 tasks (Auto with proxy, Restart, Custom), 3 snapshots, 3 executions (2 under Restart or Custom), 2 faults, the collector keeps 1 |
| `output_publisher` | three invariants and `PublishReturns` | 2 calls, one cancellable, 2 links |
| `output_publisher_panic` | violation: `ChannelClosedByRunner` | 1 call, 2 links |
| `link_db` | `LinkQueueDBTypeOK`, `OneSubscriptionPerClient`, the refinement `ImplementsDurableQueue`, liveness `ExpiredAreCollected` | 2 links, 1 client with an input on each, 1 value, 2 Ack handlers, 1 restart or failure |
| `link_db_backlog` | `FreshBacklogBound` | 1 link, 1 publisher, 4 values, 1 watcher that may call Close, limit 1, 1 restart, failure or call given up |
| `link_db_two_links` | violation: `OwnLinkOnly` | 2 links, 1 value, 1 client with an input on each |
| `link_db_assign` | violation: `AssignedWasReturned` | 1 link, 2 values, 1 input |
| `pipeline_agent` | three invariants, `StatisticsConverge`, `FrontendsAreTold` | 1 agent of either kind, 1 frontend, 1 change, 2 timeouts or restarts, channels of 1 |
| `reconciler` | three invariants, `NoGoingBack`, `Converges` | 4 objects of different sorts; two histories of 3 specifications: one made invalid, then repaired with a port less and an input without a link; one with such an input, then a refused Service, then repaired; 1 failure, deletion or restart |

*Why the bounds are enough.* Link: two subscriptions and two handlers are the
smallest numbers for which a copy can be in two hands; three calls for two
values include a duplicate; a limit of 1 and a retry queue of 1 are reached
often, so that the full queue, the failing Close and refused publication all
occur. Input loop: three AVs per input give overlapping windows (length 2,
slide 1), an uneven sequence (1 to 2), a merged input and two snapshots in
flight under Restart. Task execution: two executions meet on the shared channels
under Restart; three failed ones exceed a collector that keeps one while another
fails; two launches of a custom executor with three snapshots contain an executor
that dies with a snapshot in hand, its successor, and a late acknowledgement.
Publisher: two calls and two links are the smallest instance in which calls can
block each other crosswise. Database: two inputs of one client on two links meet
in every shared query, two Ack handlers race for one document, and one fault may
hit each of the queries in turn; the run has one document, so that several assigned by
one query are left to the theorem. The backlog needs room for a stale count: with a
limit of 1 the bound is 2, and 3 after a restart, a failure or an abandoned call,
so that four values could exceed it; 2 and 3 are both reached. Several publishers
of one link widen the bound and are left to the theorem, which covers any number
of them and of faults. Pipeline agent: agents share only the hub, whose queue of 1
one agent fills (a second call is handled while the first waits to notify); two
faults let a late call meet a repeated one. A client does not depend on others.
Reconciler: one object of each sort, since those of one sort are treated alike and
steps touch one object (the IngressRoute is of the sort of the revision). Two edits
allow one in the middle of a call and one after; each kind of stuck step is left for
another one, and one of the histories ends with a step that is stuck for good, after
steps that are not.
The theorems of section 4 cover all sizes.

*Symmetry* is used in `link_queue` and `link_db_backlog` only, runs without
liveness properties.

### Fairness

- Link: weak fairness for the steps of Publish and Close, whose goroutines are
  runnable; strong fairness for the steps of Next, because a `sync.Mutex` does
  not starve a waiter and `select` picks at random among ready cases, but each
  may be disabled again and again. `PublishingResumes` also assumes clients that
  keep calling Next on some live subscription, as `watchInput` does. No fairness
  for clients that Close, Ack or Publish.
- Input loop: weak fairness for watchers, executions and the processor; strong
  fairness for the rendezvous on `execQueue`, where several watchers compete (Go
  serves blocked senders in order). An execution ends because the Pod ends or its
  context does: this is an assumption on the executor.
- Database: weak fairness for the collector, a loop whose queries return
  (`Collects`). Faults are never fair.
- Task execution: weak fairness for the arms of the wait loop and the end of
  Execute (a running goroutine), the collector's passes, the removal of deleted
  Pods and the informer's resync, which comes every ten hours. None for
  containers, builders and output processors: they may take for ever.
- Pipeline agent: weak fairness for the loops of agents, calls whose caller waits
  (the server handles them), the hub, and the goroutines of clients. Timeouts and
  restarts are bounded by `MaxFaults`; a call without a caller may be lost.
- Reconciler: weak fairness for the worker (of `Reconcile` as a whole: which outcome
  a step has is open), caches, timers, the resync and garbage collection.
  `Converges` says something of behaviours in which the Pipeline is valid and what
  it needs gets installed; failures are bounded, and so are edits. It claims the
  objects before the first stuck step only, and of a Service the ports that are
  wanted, not that it has no others; after a deletion it claims what the Pipeline owns.
- Output publisher: weak fairness for runners (RPCs have deadlines) and for the
  internal steps of Publish; strong fairness for offers to a runner that other
  calls compete for.

### What disagrees with the documentation

Three violation runs, each quoted with its line in `PROJECT.json`: a cancelled
OutputReady call can make the task agent panic; with ArangoDB, the second input of
a task agent reads the link of the first, and one Next call assigns all waiting
values but returns one.

Behaviours that the models contain and no run is spent on:

- Link agent in memory: values in flight with a subscription that expired are not
  handed on, nothing looks at the expiration (`docs/design/link_agent.md:56-58`).
- Link agent with ArangoDB: a watcher whose subscription was collected never
  subscribes again, since it does so only before its first Next.
- Input loop: SwapNew4Old never replaces a value, because the watcher waits for
  room first (`v1alpha1/task.go:82-83`). `inputLoop.Run` may not return after
  cancellation (a watcher blocked on `execQueue`).
- Restart does not stop the previous executor first (`v1alpha1/task.go:62-63`), only
  in the end (`SupersededStop`); while both run, one may get URIs in the volumes of
  the other (`misled`).
- A builder that fails forgets what it created; Pods that Execute could not delete,
  and those of failed output processors, stay unless the collector takes them.
- An executor that dies between Next and Ack stalls the task: the service waits for
  an acknowledgement that nobody sends.
- Reconciler: an input without a link passes `Validate` (`pipeline_types.go:124-141`),
  but `ensureTaskAgent` fails on it (`pipeline_controller.go:973-978`) in every call:
  the tasks behind it and the IngressRoute wait until the specification is edited
  (`NoLink`, `Stuck`). The same happens with whatever the API server refuses and
  `Validate` lets pass, such as two ports of a Service with one name.
- Reconciler: a port removed from a task stays in its executor Service, since
  `ServicePortsEqual` ("Adding ports is allowed", `k8s_resource_diff.go:404-422`) does
  not look for it; another difference, such as a new port, makes it go.
- Reconciler: RoleBindings of three agents have no owner (lines 502, 568 and 635 of
  `pipeline_controller.go`) and outlive the Pipeline; agents of links and tasks that
  were removed from the specification stay, the controller deletes nothing.

## 4. Proofs

`LinkQueue_proofs` proves, for all finite sets of publishers, copies and
handlers, all sets of values and clients, and all bounds and capacities (the
assumption `LinkQueueAssumption`):

- `TypeCorrect`: `Spec => []TypeOK`. Inductive invariant `TypeInv`: `TypeOK`
  together with `CloseInv`, which says that the copy Close has sent but not yet
  counted is still the first of its list; without it `Tail` in `CloseCount` could
  be taken of an empty list.
- `CopiesConserved`: `Spec => []Conservation`. `Conservation` with `TypeInv` is
  inductive. One lemma per kind of move (enqueue, Close sends, Close counts, Next
  takes, Next records, Next loses, Ack), each from the lemmas
  at the top of the module about what `Append`, `Tail` and `RemoveAt` do to the elements of a sequence without
  repetition, and `PlacesUnchanged` for all steps that move nothing.
- `WaitingCounterExact`: `Spec => []WaitingCounter`, from the same invariant and
  the theorems on cardinalities of finite sets.
- `LinkKeepsPromise`: `Spec => ImplementsDelivery`, the refinement of `Delivery`.
  `Located` derives from `Conservation` where `Delivery` sees each copy; `SubInv`
  adds that subscriptions are numbered in order and that only live ones hold copies.
  One lemma per move of `Delivery` (`EnqueueIsAccept`, `SetInflightIsHandOut`, ...);
  a step that leaves each copy at its place (`SamePlace`) is a stutter.
- `BackpressureHolds`: `Spec => []BackpressureBound`. The bound is not inductive: a
  publisher that CanPublish let through adds its copy later, and a repeated call adds
  one more. `Room` therefore counts these (`Pending`, `Again`) with the fresh copies;
  `CallInv` says that a call on its way has one publisher or was repeated, `SentBack`
  that the counter CanPublish reads still covers the fresh copies while Close lags
  (`WaitingCovers`). A positive limit is needed (10 in `stub.go:75`).

`LinkQueueDB_proofs` and `LinkQueueDBLimit_proofs` prove, for all finite sets of
links, publishers, calls and watchers and any number of restarts and failures
(the assumption `LinkQueueDBAssumption`):

- `TypeCorrect`: `Spec => []LinkQueueDBTypeOK`. Inductive invariant `TypeInv`: the
  type invariant together with `CreatedOnce`, which says that the creator of a
  subscription holds one and that no watcher created two. With it the key
  generator never needs more keys than there are watchers.
- `ClientHasOneSubscription`: `Spec => []OneSubscriptionPerClient`, by the guard that
  stands for the unique index, on top of `TypeInv`.
- `AcknowledgedOnce`: the action property `AckCountsRemoval`, from `TypeInv`: what
  is removed is counted.
- `DatabaseKeepsPromise`: `Spec => ImplementsDurableQueue`, which contains the former
  and takes its place in the run. Two facts are added to `TypeInv`: what is in the
  queue was stored (`StoredInv`), and who runs an Ack call has got the value
  (`AckingInv`), so that an acknowledgement never precedes the hand-out. One lemma per
  group of queries (`PublishRefines`, `WatcherRefines`, `AckRefines`,
  `SubscriptionRefines`, `RestartRefines`); what `DurableQueue` does not see (`Hidden`) is a
  stutter. A restart loses only documents whose `Publish` had not stored them.
- `BacklogIsBounded`: `Spec => []FreshBacklogBound`. The bound is not inductive: a
  publisher that was allowed a value adds it later. `BacklogInv` says per link that
  the fresh values and those still allowed (`Pending`) fit the bound, and that a
  statistic or a held count below the limit implies `Room`, the bound less one
  value per publisher, unless its reader is `Spent`: a handler that does not hold
  a low count can be the next to store a stale one. `CallInv` ties running calls
  to the runner or to `abandoned`. The cases are one lemma per kind of change: the
  backlog shrinks, a count is read, a count is stored, a document is added, a
  value is allowed, an agent restarts.

`InputLoop_proofs`, for every finite set of inputs, every set of valid task
specifications and any number of values (`InputLoopAssumption`). What `Build` does
to snapshot and clone is derived once (`BuildFacts`, `PreparedFacts`), and so are
the steps of an execution (`ExecutionFacts`):

- `TypeCorrect`: `Spec => []InputLoopTypeOK`, with the addition in `TypeInv` that a
  watcher that waits for room holds a value.
- `DutyIsUnique`: `Spec => []OneAckDuty`. `DutyInv` replaces the cardinality by three
  facts: a value owed anywhere has arrived (`OwedArrived`), is owed in one place
  only, the snapshot under construction counting as one (`OwedOnce`), and every
  value that arrived is owed (`ArrivedOwed`), but for the one a watcher holds when it
  is stopped while it waits for room. That no sequence holds it twice is in
  the types.
- `AcksFollowSuccess`: `Spec => []AckedAfterSuccess`. `StageInv`: a watcher that
  sends has a clone of its own, which nobody executes yet. `ClonesStay`: no step
  changes a clone once it is built. `AckedInv` names, for an acknowledged value, the
  finished clone that owes it.
- `LoopKeepsPromise`: `Spec => ImplementsBatches`, which is stronger and takes its place
  in the run. From `DutyInv` and `StageInv`: a value that arrives is owed nowhere yet,
  the one a watcher holds is not placed (`HeldIsUnplaced`), and what `Build` gives to
  the clone is exactly what waited, with the value that completes it. One lemma per
  move (`ReceiveRefines`, `CollectRefines`, `BuildRefines`, `TakeRefines`,
  `ExecutionRefines`); cancellation and stopped watchers are stutters.
- `CountersAreExact`: `Spec => []SnapshotCounters`. Each counter is the cardinality of
  a set of clones (`At`). `CountMove`: a clone that changes its stage changes the
  counts of the sets it enters and leaves by one; `CountBuild` is the same for a new
  clone. Under Restart several executions run; each settles its own clone only.
- `NeverWedged`: `Spec => []NoWedge`, from `WedgeInv`: some input of the snapshot is
  below its minimum, because `Build` empties what it completed.
- `ClonesInOrder`: `Spec => []TakenInOrder`. `OneSender`: at most one watcher sends, and
  the input it serves is short meanwhile (under SwapNew4Old: nobody has room), so
  that nobody else builds (`NoOtherBuild`).
- `WindowsAreRight`: `Spec => []WindowsAdvance`. `WindowInv` adds that the snapshot under
  construction continues the last window (`Numbered`, from `First`) up to the last
  value handed in (`UpToDate`).

`TaskExecution_proofs`, for any number of snapshots, executions, launches and
faults and every launch policy (`TaskExecutionAssumption`). One invariant, `IndInv`,
carries all five theorems:

- `TypeCorrect`: `Spec => []TaskExecutionTypeOK`. `TypeInv` adds `Begun` (executions
  begin in order and own nothing before the builders) and `EndsKnown`: the state of
  a Pod tells whether its container ended, and a change on its way says how. The
  latter is what makes a late change harmless. `NotLaunched` says that a Pod comes
  into being only in `LaunchPod`.
- `NoPodIsLeftAlone`: `Spec => []NoStrayPod`, and `ResultsAreOwn`:
  `Spec => []OwnResults`. `ExecInv` relates stage, Pod, volumes and result of each
  execution; `AloneInv` says that without Restart one execution is in Execute and
  every living executor is its own. `ExecMoves` lists, once, what each step of
  Execute can do, and `OtherMoves` what the others do; the invariants follow from
  these two lemmas.
- `SnapshotsInTurn`: `Spec => []OneSnapshotAtATime`. `ServiceInv`: while the service is
  idle the last snapshot was executed, and acknowledgements on their way are real.
- `NewestAreKept`: `Spec => []NewestFailedKept`. `FailedInv` adds that a Pod which counts
  as failed, now or in the collector's list, was created and has a result that never
  changes. The list holds more Pods than are to be kept when the collector deletes the
  oldest of them, so the others map one-to-one into those created after it that failed
  (`FailedAfter`), which only grows (`FailedAfterGrows`). What the list missed
  since cannot make the property false.

`OutputPublisher_proofs`, for any sets of calls and links: `TypeCorrect`,
`AcceptedByAll` (`AllLinksOrNone`) and `AskedBeforeHanded` (`EveryLinkAsked`). `CallInv`
ties the phase of a call to its goroutines for each link, and a handed value to
the link it reached.

`PipelineAgent_proofs`, for any number of agents and clients: `TypeCorrect`;
`NoClosedMember` (`MembersAreOpen`) and `NoWriterForgotten` (`WritersAreReached`), from
`HubInv`, which adds that a client has no part in the hub before it registered.

`Reconciler_proofs`, for any list of objects that begins with the revision, any
division into sorts, any ports and any steps that are stuck (`ReconcilerAssumption`):
`TypeCorrect`; `RevisionsAreRecorded`
(`RevisionRecordedFirst`), where `RecordedInv` also covers the caches and says that a
call past its first ensure step works for a recorded revision; `NothingGoesBack`
(`NoGoingBack`, an action property), where `AgeInv` orders what a call works with, the
cache and the Pipeline; `NeverAsleep` (`StaysAwake`).

Every invariant, action property and refinement that a passing run checks is stated by
one of these theorems. Only model-checked: the liveness properties (`PublishingResumes`,
`BuiltAreExecuted`, `ExecutionsEnd`, `SupersededStop`, `PublishReturns`,
`ExpiredAreCollected`, `StatisticsConverge`, `FrontendsAreTold`, `Converges`), since
fairness is beyond the prover.

## 5. Limits of the models

- `LinkQueue` does not restart the agent: queue and subscriptions would be lost.
- `InputLoop` leaves out the launch policy Custom (it is in `TaskExecution`) and the
  statistics of inputs.
- `TaskExecution` leaves out the shutdown of the agent. Executions are numbered in
  the order of Execute; the API server's order of creation is that of `LaunchPod`.
- `PipelineAgent` has one agent per name; queries, sums of statistics and the store
  of egress values only read or append. `Hub.run` never returns once its context is
  done (`hub.go:91-97` loops); the end of the process is left out.
- `Reconciler`: an object is a version number. That Ensure functions copy only parts
  of an object, so that other differences (labels) are found but never repaired, and
  the lookup of the domain by labels, are left out. The set of objects is fixed, and
  the steps have different objects: tasks with one name (which `Validate` does not
  exclude) would write one object in turn. That the IngressRoute may be the same in
  two versions, and that it is written without the routes of a task whose executor
  resource is not installed yet, is left out.
- In `OutputPublisher` the context of `Run` is not cancelled. A late answer makes
  `retry.Do` query again at most finitely often (assumed for `PublishReturns`).
- Time is abstract: a timeout may happen whenever the code waits.
- `LinkQueueDB` leaves out the opening of the database and the creation of its
  collections. A document assigned to a subscription that is removed at the same
  time stays assigned to nobody; the model contains this, no property is about it.

## 6. Plan

Done: all modules of section 2 and the theorems of section 4. Left, in this order;
each gets its MC module, run, mutants and, where listed, theorems:

1. `Dataflow`: composition of publisher, link (with restarts) and input loop,
   against an abstract at-least-once channel, on top of what `Delivery`,
   `DurableQueue` and `Batches` promise; retry of the file output.
2. Pure functions (`MergeReconcileResult` on full results, list utilities,
   `LookupDomain`) against reference definitions.
3. `NodeRegistry` of the local file system service.

Runs are kept few: one that has told its story makes way for a module that has
none.

### Not modelled

The annotated value registry (immutable inserts and filters), file system services
and task executors (mostly I/O; the protocol of custom executors is the external
part of `TaskExecution`), the history prototype, frontend, command line and
manifests. `PROJECT.json` gives the reasons. Most of the implementation's lines that
no definition maps are generated code (`*.pb.go`, deep copies), clients and
command-line programs.
