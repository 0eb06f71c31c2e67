------------------------------ MODULE Reconciler ------------------------------
(***************************************************************************)
(* The pipeline controller (controller/pipeline) for one Pipeline: the     *)
(* Reconcile function with its ensure steps (util/k8s_resources.go), the   *)
(* work queue that calls it, the caches that it reads and the events that  *)
(* wake it up.                                                             *)
(*                                                                         *)
(* A specification is a version number, its hash is the same number.  An   *)
(* object is represented by the version of the specification it was        *)
(* written for.  The diff functions see every difference between versions, *)
(* since agents get the revision in their environment, except in Services  *)
(* of task executors, where ports that are not wanted any more are         *)
(* overlooked.  "revision" stands for the newest PipelineRevision.         *)
(***************************************************************************)
EXTENDS Integers, Sequences

CONSTANTS Order,         \* the objects, in the order in which they are ensured
          Watched,       \* those whose events lead to a request
          Owned,         \* those whose controller reference is the Pipeline
          Versioned,     \* those that depend on the specification
          Agents,        \* those made from an agent resource
          Services,      \* Services of task executors
          Ports,         \* Ports[v]: the ports that version v wants of them
          MaxSpec,       \* bound: the last version of the specification
          FirstSpecs,    \* versions with which the Pipeline may be created
          LastSpecs,     \* bound: versions that are not edited any more
          InvalidSpecs,  \* versions that do not pass validation
          Unlinked,      \* <<o, v>>: a task of o has an input without a link in v
          Refused,       \* <<o, v>>: the API server does not accept o as v has it
          MaxFaults      \* bound: failing calls, objects deleted, restarts

None == -1
Versions == 0..MaxSpec
Objs == {Order[k] : k \in DOMAIN Order}

ASSUME ReconcilerAssumption ==
  /\ MaxSpec \in Nat /\ MaxFaults \in Nat
  /\ Order \in Seq(STRING) /\ \A j, k \in DOMAIN Order : Order[j] = Order[k] => j = k
  /\ Order # <<>> /\ Order[1] = "revision" /\ "revision" \in Versioned \ Agents
  /\ Watched \subseteq Objs /\ Owned \subseteq Objs
  /\ Versioned \subseteq Objs /\ Agents \subseteq Objs
  /\ Services \subseteq Versioned \cap Agents /\ DOMAIN Ports = Versions
  /\ FirstSpecs \subseteq Versions
  /\ Unlinked \subseteq Agents \X Versions /\ Refused \subseteq Objs \X Versions

VARIABLES
  \* the API server
  pipeline,  \* [exists, spec, revision]; the domain is set with the first revision
  objects,   \* objects[o]: the version object o was written for, or None
  missing,   \* what the administrator did not install: "filesystem", "agents"
  \* the caches of the manager
  cached,    \* the Pipeline
  seen,      \* seen[o]: object o
  \* the work queue
  queued,    \* a request is waiting
  timer,     \* the delay of a delayed request: "soon" (10 s), "minute", "none"
  \* the call of Reconcile in progress
  step,      \* "idle", "status", "list", "ensure"
  pos,       \* position in Order
  inst,      \* instance
  result,    \* RequeueAfter of result
  \* history
  recorded,  \* versions for which a PipelineRevision was created
  silent,    \* the last call returned without an error although one occurred
  faults

server == <<pipeline, objects, missing>>
caches == <<cached, seen>>
call == <<step, pos, inst, result>>
vars == <<server, caches, queued, timer, call, recorded, silent, faults>>

Empty == [o \in Objs |-> None]

Init ==
  /\ pipeline \in [exists : {TRUE}, spec : FirstSpecs, revision : {None}]
  /\ cached = pipeline
  /\ objects = Empty /\ seen = Empty
  /\ missing \in SUBSET {"filesystem", "agents"}
  /\ queued = TRUE /\ timer = "none"
  /\ step = "idle" /\ pos = 1 /\ inst = pipeline /\ result = "minute"
  /\ recorded = {} /\ silent = FALSE /\ faults = 0

-----------------------------------------------------------------------------
(* Users, administrators and Kubernetes.                                     *)

EditSpec ==
  /\ pipeline.exists /\ pipeline.spec < MaxSpec /\ pipeline.spec \notin LastSpecs
  /\ pipeline' = [pipeline EXCEPT !.spec = @ + 1]
  /\ UNCHANGED <<objects, missing, caches, queued, timer, call, recorded, silent, faults>>

DeletePipeline ==
  /\ pipeline.exists
  /\ pipeline' = [pipeline EXCEPT !.exists = FALSE]
  /\ UNCHANGED <<objects, missing, caches, queued, timer, call, recorded, silent, faults>>

\* The garbage collector removes what belongs to a Pipeline that is gone.
Collect(o) ==
  /\ ~pipeline.exists /\ o \in Owned /\ objects[o] # None
  /\ objects' = [objects EXCEPT ![o] = None]
  /\ UNCHANGED <<pipeline, missing, caches, queued, timer, call, recorded, silent, faults>>

\* Somebody else deletes an object.
Damage(o) ==
  /\ objects[o] # None
  /\ faults < MaxFaults /\ faults' = faults + 1
  /\ objects' = [objects EXCEPT ![o] = None]
  /\ UNCHANGED <<pipeline, missing, caches, queued, timer, call, recorded, silent>>

Install(x) ==
  /\ x \in missing
  /\ missing' = missing \ {x}
  /\ UNCHANGED <<pipeline, objects, caches, queued, timer, call, recorded, silent, faults>>

-----------------------------------------------------------------------------
(* Caches and work queue.                                                    *)

\* A change of the Pipeline reaches the cache and the watch on Pipelines.
SyncPipeline ==
  /\ cached # pipeline
  /\ cached' = pipeline /\ queued' = TRUE
  /\ UNCHANGED <<server, seen, timer, call, recorded, silent, faults>>

\* A change of an object reaches the cache; a watch on its kind leads to a request
\* for its owner.
Sync(o) ==
  /\ seen[o] # objects[o]
  /\ seen' = [seen EXCEPT ![o] = objects[o]]
  /\ queued' = (queued \/ o \in Watched \cap Owned)
  /\ UNCHANGED <<server, cached, timer, call, recorded, silent, faults>>

TimerFires ==
  /\ timer # "none"
  /\ timer' = "none" /\ queued' = TRUE
  /\ UNCHANGED <<server, caches, call, recorded, silent, faults>>

\* Every ten hours the caches repeat an event for everything they hold.
Resync ==
  /\ cached.exists /\ ~queued
  /\ queued' = TRUE
  /\ UNCHANGED <<server, caches, timer, call, recorded, silent, faults>>

\* A new process reads everything and loses its queue.
OperatorRestarts ==
  /\ faults < MaxFaults /\ faults' = faults + 1
  /\ cached' = pipeline /\ seen' = objects
  /\ queued' = pipeline.exists /\ timer' = "none"
  /\ step' = "idle" /\ pos' = 1 /\ result' = "minute"
  /\ silent' = FALSE
  /\ UNCHANGED <<server, inst, recorded>>

-----------------------------------------------------------------------------
(* Reconcile.  The queue hands out one request for a Pipeline at a time.     *)

Delays == {"soon", "minute"}

\* MergeReconcileResult, and the queue when a delayed request is already there.
Merge(a, b) == IF "soon" \in {a, b} THEN "soon" ELSE IF a = "none" THEN b ELSE a

\* Mutant: a request that failed is not repeated.
ReturnErrorOnce ==
  /\ step' = "idle" /\ pos' = 1 /\ result' = "minute"
  /\ UNCHANGED <<queued, timer, silent>>

\* Reconcile returns an error: the request is repeated.
ReturnError ==
  /\ step' = "idle" /\ pos' = 1 /\ result' = "minute"
  /\ queued' = TRUE
  /\ UNCHANGED <<timer, silent>>

\* Reconcile returns an empty result although it did not finish.
ReturnSilently ==
  /\ step' = "idle" /\ pos' = 1 /\ result' = "minute"
  /\ silent' = TRUE
  /\ UNCHANGED <<queued, timer>>

ReturnAfter(delay) ==
  /\ step' = "idle" /\ pos' = 1 /\ result' = "minute"
  /\ timer' = Merge(timer, delay)
  /\ UNCHANGED <<queued, silent>>

Failure == faults < MaxFaults /\ faults' = faults + 1

\* The instance is fetched.  A Pipeline that is gone or invalid is left alone.
TakeRequest ==
  /\ step = "idle" /\ queued
  /\ queued' = FALSE
  /\ inst' = cached
  /\ silent' = FALSE
  /\ step' = IF cached.exists /\ cached.spec \notin InvalidSpecs THEN "status" ELSE "idle"
  /\ UNCHANGED <<server, caches, timer, pos, result, recorded, faults>>

ServicesFail ==
  /\ step = "status" /\ Failure
  /\ ReturnError
  /\ UNCHANGED <<server, caches, inst, recorded>>

\* Without a domain the controller needs its configuration.
DomainFails ==
  /\ step = "status" /\ inst.revision = None /\ Failure
  /\ ReturnSilently
  /\ UNCHANGED <<server, caches, inst, recorded>>

\* Mutant: the Pipeline is written whatever happened to it since it was read.
UpdateStatusBlindly ==
  /\ step = "status" /\ inst.revision # inst.spec /\ pipeline.exists
  /\ pipeline' = [inst EXCEPT !.revision = inst.spec]
  /\ inst' = pipeline'
  /\ step' = "list"
  /\ UNCHANGED <<objects, missing, caches, queued, timer, pos, result, recorded, silent,
                 faults>>

\* The new revision is written, with the whole Pipeline, which must not have
\* changed since it was read.
UpdateStatus ==
  /\ step = "status" /\ inst.revision # inst.spec /\ pipeline = inst
  /\ pipeline' = [pipeline EXCEPT !.revision = inst.spec]
  /\ inst' = pipeline'
  /\ step' = "list"
  /\ UNCHANGED <<objects, missing, caches, queued, timer, pos, result, recorded, silent,
                 faults>>

UpdateStatusFails ==
  /\ step = "status" /\ inst.revision # inst.spec
  /\ IF pipeline = inst THEN Failure ELSE UNCHANGED faults
  /\ ReturnSilently
  /\ UNCHANGED <<server, caches, inst, recorded>>

StatusIsCurrent ==
  /\ step = "status" /\ inst.revision = inst.spec
  /\ step' = "list"
  /\ UNCHANGED <<server, caches, queued, timer, pos, inst, result, recorded, silent, faults>>

\* The file system service is looked up.
ListFileSystems ==
  /\ step = "list"
  /\ \/ /\ "filesystem" \notin missing
        /\ step' = "ensure"
        /\ UNCHANGED <<pos, result, queued, timer, silent, faults>>
     \/ "filesystem" \in missing /\ ReturnAfter("soon") /\ UNCHANGED faults
     \/ Failure /\ ReturnError
  /\ UNCHANGED <<server, caches, inst, recorded>>

\* What object o looks like for version v.
Want(o, v) == IF o \in Versioned THEN v ELSE 0

\* Mutant: one step too many.
AdvanceLate(delay) ==
  IF pos <= Len(Order)
  THEN /\ pos' = pos + 1 /\ result' = Merge(result, delay)
       /\ UNCHANGED <<step, queued, timer, silent>>
  ELSE ReturnAfter(Merge(result, delay))

\* The next ensure step, or the end; delay is what this step asks for.
Advance(delay) ==
  IF pos < Len(Order)
  THEN /\ pos' = pos + 1 /\ result' = Merge(result, delay)
       /\ UNCHANGED <<step, queued, timer, silent>>
  ELSE ReturnAfter(Merge(result, delay))

\* The resource that describes the agent is not there: the step does nothing and
\* asks for a new attempt.
Skip(o) ==
  /\ step = "ensure" /\ o = Order[pos]
  /\ o \in Agents /\ "agents" \in missing
  /\ Advance("soon")
  /\ UNCHANGED <<server, caches, inst, recorded, faults>>

\* The step has what it needs to look at the object.
Wanted(o) ==
  /\ step = "ensure" /\ o = Order[pos]
  /\ o \in Agents => "agents" \notin missing
  /\ <<o, inst.spec>> \notin Unlinked

\* An input without a link passes validation, and fails here whenever it is tried.
NoLink(o) ==
  /\ step = "ensure" /\ o = Order[pos]
  /\ "agents" \notin missing /\ <<o, inst.spec>> \in Unlinked
  /\ ReturnError
  /\ UNCHANGED <<server, caches, inst, recorded, faults>>

\* Mutant: an object that exists is left as it is.
DiffersNever(o) == seen[o] = None

\* Ports that a Service has and should not have do not count.
Differs(o) ==
  IF o \in Services /\ seen[o] # None THEN ~(Ports[inst.spec] \subseteq Ports[seen[o]])
  ELSE seen[o] # Want(o, inst.spec)

UpToDate(o) ==
  /\ Wanted(o) /\ ~Differs(o)
  /\ Advance("none")
  /\ UNCHANGED <<server, caches, inst, recorded, faults>>

\* The object did not change since it was read, and passes the API server's own
\* validation, which knows rules that the Pipeline's does not (no two ports of a
\* Service have one name).
Accepted(o) == seen[o] = objects[o] /\ <<o, inst.spec>> \notin Refused

\* Create or Update.
Write(o) ==
  /\ Wanted(o) /\ Differs(o) /\ Accepted(o)
  /\ objects' = [objects EXCEPT ![o] = Want(o, inst.spec)]
  /\ recorded' = IF o = "revision" THEN recorded \cup {inst.spec} ELSE recorded
  /\ Advance("none")
  /\ UNCHANGED <<pipeline, missing, caches, inst, faults>>

\* Mutant: the error of a write is logged only.
WriteFailsLogged(o) ==
  /\ Wanted(o) /\ Differs(o)
  /\ IF Accepted(o) THEN Failure ELSE UNCHANGED faults
  /\ Advance("none")
  /\ UNCHANGED <<server, caches, inst, recorded>>

\* The API server does not accept the object, or the call fails.
WriteFails(o) ==
  /\ Wanted(o) /\ Differs(o)
  /\ IF Accepted(o) THEN Failure ELSE UNCHANGED faults
  /\ ReturnError
  /\ UNCHANGED <<server, caches, inst, recorded>>

-----------------------------------------------------------------------------
Ensure(o) == Skip(o) \/ NoLink(o) \/ UpToDate(o) \/ Write(o) \/ WriteFails(o)

Reconcile ==
  \/ TakeRequest \/ ServicesFail \/ DomainFails
  \/ UpdateStatus \/ UpdateStatusFails \/ StatusIsCurrent
  \/ ListFileSystems
  \/ \E o \in Objs : Ensure(o)

Next ==
  \/ Reconcile \/ EditSpec \/ DeletePipeline \/ OperatorRestarts
  \/ SyncPipeline \/ TimerFires \/ Resync
  \/ \E o \in Objs : Collect(o) \/ Damage(o) \/ Sync(o)
  \/ \E x \in {"filesystem", "agents"} : Install(x)

Spec == Init /\ [][Next]_vars

\* The worker runs, events and timers arrive, Kubernetes collects garbage.
Fairness ==
  /\ WF_vars(Reconcile) /\ WF_vars(SyncPipeline) /\ WF_vars(TimerFires) /\ WF_vars(Resync)
  /\ \A o \in Objs : WF_vars(Sync(o)) /\ WF_vars(Collect(o))

FairSpec == Spec /\ Fairness

-----------------------------------------------------------------------------
(* Properties.                                                               *)

Pipelines == [exists : BOOLEAN, spec : Versions, revision : Versions \cup {None}]

\* Every variable has its type.
ReconcilerTypeOK ==
  /\ pipeline \in Pipelines /\ cached \in Pipelines /\ inst \in Pipelines
  /\ objects \in [Objs -> Versions \cup {None}]
  /\ seen \in [Objs -> Versions \cup {None}]
  /\ missing \subseteq {"filesystem", "agents"}
  /\ queued \in BOOLEAN /\ silent \in BOOLEAN
  /\ timer \in Delays \cup {"none"} /\ result \in Delays
  /\ step \in {"idle", "status", "list", "ensure"}
  /\ pos \in DOMAIN Order
  /\ recorded \subseteq Versions
  /\ faults \in 0..MaxFaults

\* An object that tells an agent its revision is never written before that
\* revision was recorded, however stale the caches are.
RevisionRecordedFirst ==
  \A o \in Versioned : objects[o] \in recorded \cup {None}

\* However stale what the controller read is, it never undoes an edit of the
\* specification, although it writes the Pipeline to set its status, and never
\* puts an object back to an older specification.
NoGoingBack ==
  [][/\ pipeline'.spec >= pipeline.spec
     /\ \A o \in Objs : objects[o] # None /\ objects'[o] # None => objects'[o] >= objects[o]
    ]_vars

\* The controller does not go to sleep: unless its last call swallowed an error,
\* a request for a valid Pipeline is waiting, delayed or on its way.
StaysAwake ==
  (step = "idle" /\ ~queued /\ timer = "none" /\ cached = pipeline)
    => silent \/ ~pipeline.exists \/ pipeline.spec \in InvalidSpecs

\* A step that this specification never gets past.
Stuck(k) == <<Order[k], pipeline.spec>> \in Unlinked \cup Refused

\* Object o is what the specification asks for.  A Service has every port that is
\* wanted; it may have kept ports of an earlier specification.
Fits(o) ==
  IF o \in Services THEN objects[o] # None /\ Ports[pipeline.spec] \subseteq Ports[objects[o]]
  ELSE objects[o] = Want(o, pipeline.spec)

\* What Reconcile is for.  One step that is stuck keeps all later ones waiting.
Settled ==
  IF ~pipeline.exists THEN \A o \in Owned : objects[o] = None
  ELSE \/ pipeline.spec \in InvalidSpecs \/ missing # {}
       \/ \A k \in DOMAIN Order : (\A j \in 1..k : ~Stuck(j)) => Fits(Order[k])

\* In the end every object up to the first one that can never be made fits the
\* specification, or what the Pipeline owns is gone with it, and it stays so: whatever
\* failed, was deleted, edited or not installed yet, and however long an earlier
\* specification was stuck.
Converges == <>[]Settled

=============================================================================
