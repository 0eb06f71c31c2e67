-------------------------- MODULE Reconciler_proofs --------------------------
(***************************************************************************)
(* Proofs about Reconciler, for every list of objects that begins with the *)
(* PipelineRevision and any number of edits, failures and restarts.        *)
(***************************************************************************)
EXTENDS Reconciler, TLAPS

-----------------------------------------------------------------------------
(* Type correctness.                                                       *)

\* A call that is not at the ensure steps has not begun with them.
AtStart == step # "ensure" => pos = 1

TypeInv == ReconcilerTypeOK /\ AtStart

\* The delays that the ensure steps ask for are merged into a delay.
LEMMA MergeDelays ==
  ASSUME NEW a \in Delays \cup {"none"}, NEW b \in Delays \cup {"none"}
  PROVE  /\ Merge(a, b) \in Delays \cup {"none"}
         /\ a \in Delays \/ b \in Delays => Merge(a, b) \in Delays
BY DEF Merge, Delays

\* What an ensure step that asks for a delay does to the call, when it is not the
\* last one and when it is.
LEMMA AdvanceCases ==
  ASSUME TypeInv, NEW delay \in {"none", "soon"}, step = "ensure", Advance(delay)
  PROVE  \/ /\ pos' = pos + 1 /\ pos' \in DOMAIN Order
            /\ result' \in Delays
            /\ UNCHANGED <<step, queued, timer, silent>>
         \/ /\ step' = "idle" /\ pos' = 1 /\ result' = "minute"
            /\ timer' \in Delays
            /\ UNCHANGED <<queued, silent>>
<1> USE DEF TypeInv, ReconcilerTypeOK
<1>1. Len(Order) \in Nat /\ DOMAIN Order = 1..Len(Order) /\ pos \in 1..Len(Order)
  BY ReconcilerAssumption
<1>2. delay \in Delays \cup {"none"}
  BY DEF Delays
<1>3. Merge(result, delay) \in Delays
  BY <1>2, MergeDelays
<1>4. Merge(timer, Merge(result, delay)) \in Delays
  BY <1>3, MergeDelays
<1>5. CASE pos < Len(Order)
  BY <1>1, <1>3, <1>5 DEF Advance
<1>6. CASE ~(pos < Len(Order))
  BY <1>4, <1>6 DEF Advance, ReturnAfter
<1>7. QED BY <1>5, <1>6

LEMMA InitTypeInv == Init => TypeInv
<1> SUFFICES ASSUME Init PROVE TypeInv
  OBVIOUS
<1> USE ReconcilerAssumption DEF Init, Pipelines, Versions, None, Empty, Delays
<1>1. pipeline \in Pipelines
  OBVIOUS
<1>2. 1 \in DOMAIN Order
  OBVIOUS
<1>3. objects \in [Objs -> Versions \cup {None}] /\ seen \in [Objs -> Versions \cup {None}]
  OBVIOUS
<1>4. cached \in Pipelines /\ inst \in Pipelines
  BY <1>1
<1>5. faults \in 0..MaxFaults
  OBVIOUS
<1>6. QED BY <1>1, <1>2, <1>3, <1>4, <1>5 DEF TypeInv, ReconcilerTypeOK, AtStart

\* Every return of Reconcile leaves the call well typed.
LEMMA ReturnTyped ==
  ASSUME TypeInv, NEW delay \in Delays,
         ReturnError \/ ReturnSilently \/ ReturnAfter(delay)
  PROVE  /\ step' = "idle" /\ pos' = 1 /\ pos' \in DOMAIN Order
         /\ result' \in Delays /\ timer' \in Delays \cup {"none"}
         /\ queued' \in BOOLEAN /\ silent' \in BOOLEAN
<1>1. 1 \in DOMAIN Order
  BY ReconcilerAssumption
<1>2. Merge(timer, delay) \in Delays
  BY MergeDelays DEF TypeInv, ReconcilerTypeOK
<1>3. QED BY <1>1, <1>2
     DEF TypeInv, ReconcilerTypeOK, ReturnError, ReturnSilently, ReturnAfter, Delays

LEMMA NextTypeInv == TypeInv /\ [Next]_vars => TypeInv'
<1> SUFFICES ASSUME TypeInv, [Next]_vars PROVE TypeInv'
  OBVIOUS
<1> USE DEF TypeInv, AtStart
<1>0. ReconcilerTypeOK
  OBVIOUS
<1>a. 1 \in DOMAIN Order /\ MaxFaults \in Nat /\ MaxSpec \in Nat
  BY ReconcilerAssumption
<1>f. Failure => faults' \in 0..MaxFaults
  BY <1>0, <1>a DEF ReconcilerTypeOK, Failure
<1>w. \A o \in Objs : inst.spec \in Versions /\ Want(o, inst.spec) \in Versions
  BY <1>0, <1>a DEF ReconcilerTypeOK, Want, Versions, Pipelines
<1>1. CASE EditSpec
  <2>1. pipeline' \in Pipelines
    BY <1>1, <1>0, <1>a DEF EditSpec, ReconcilerTypeOK, Pipelines, Versions
  <2>2. QED BY <1>1, <2>1 DEF EditSpec, ReconcilerTypeOK, caches, call
<1>2. CASE DeletePipeline
  <2>1. pipeline' \in Pipelines
    BY <1>2, <1>0 DEF DeletePipeline, ReconcilerTypeOK, Pipelines
  <2>2. QED BY <1>2, <2>1 DEF DeletePipeline, ReconcilerTypeOK, caches, call
<1>3. ASSUME NEW o \in Objs, Collect(o) \/ Damage(o) \/ Sync(o) PROVE TypeInv'
  <2>1. objects' \in [Objs -> Versions \cup {None}] /\ seen' \in [Objs -> Versions \cup {None}]
    BY <1>3, <1>0 DEF Collect, Damage, Sync, ReconcilerTypeOK, server, caches
  <2>2. faults' \in 0..MaxFaults
    BY <1>3, <1>0, <1>a DEF Collect, Damage, Sync, ReconcilerTypeOK
  <2>3. QED BY <1>3, <2>1, <2>2
       DEF Collect, Damage, Sync, ReconcilerTypeOK, server, caches, call
<1>4. CASE \E x \in {"filesystem", "agents"} : Install(x)
  BY <1>4 DEF Install, ReconcilerTypeOK, caches, call
<1>5. CASE SyncPipeline \/ TimerFires \/ Resync
  BY <1>5 DEF SyncPipeline, TimerFires, Resync, ReconcilerTypeOK, server, caches, call
<1>6. CASE OperatorRestarts
  <2>1. faults' \in 0..MaxFaults /\ queued' \in BOOLEAN
    BY <1>6, <1>0, <1>a DEF OperatorRestarts, ReconcilerTypeOK, Pipelines
  <2>2. QED BY <1>6, <1>a, <2>1
       DEF OperatorRestarts, ReconcilerTypeOK, server, Delays
<1>7. CASE TakeRequest \/ StatusIsCurrent
  BY <1>7, <1>a DEF TakeRequest, StatusIsCurrent, ReconcilerTypeOK, server, caches, Delays
<1>8. CASE ServicesFail \/ DomainFails
  <2>1. ReturnError \/ ReturnSilently
    BY <1>8 DEF ServicesFail, DomainFails
  <2>2. QED BY <1>8, <1>f, <2>1, ReturnTyped
       DEF ServicesFail, DomainFails, ReconcilerTypeOK, server, caches, Delays
<1>9. CASE UpdateStatus
  <2>1. pipeline' \in Pipelines
    BY <1>9, <1>0 DEF UpdateStatus, ReconcilerTypeOK, Pipelines
  <2>2. QED BY <1>9, <2>1 DEF UpdateStatus, ReconcilerTypeOK, caches
<1>10. CASE UpdateStatusFails
  <2>1. faults' \in 0..MaxFaults
    BY <1>10, <1>0, <1>f DEF UpdateStatusFails, ReconcilerTypeOK
  <2>2. QED BY <1>10, <2>1, ReturnTyped
       DEF UpdateStatusFails, ReconcilerTypeOK, server, caches, Delays
<1>11. CASE ListFileSystems
  <2>1. faults' \in 0..MaxFaults
    BY <1>11, <1>0, <1>f DEF ListFileSystems, ReconcilerTypeOK
  <2>2. CASE step' = "ensure" /\ UNCHANGED <<pos, result, queued, timer, silent>>
    BY <1>11, <2>1, <2>2 DEF ListFileSystems, ReconcilerTypeOK, server, caches
  <2>3. CASE ReturnAfter("soon") \/ ReturnError
    BY <1>11, <2>1, <2>3, ReturnTyped
    DEF ListFileSystems, ReconcilerTypeOK, server, caches, Delays
  <2>4. QED BY <1>11, <2>2, <2>3 DEF ListFileSystems
<1>12. ASSUME NEW o \in Objs, Ensure(o) PROVE TypeInv'
  <2>1. CASE Skip(o) \/ UpToDate(o) \/ Write(o)
    <3>1. objects' \in [Objs -> Versions \cup {None}] /\ recorded' \subseteq Versions
      BY <2>1, <1>0, <1>w DEF Skip, UpToDate, Write, ReconcilerTypeOK, server
    <3>2. step = "ensure" /\ (Advance("soon") \/ Advance("none"))
      BY <2>1 DEF Skip, UpToDate, Write, Wanted
    <3>3. QED BY <2>1, <1>a, <3>1, <3>2, AdvanceCases
         DEF Skip, UpToDate, Write, ReconcilerTypeOK, server, caches, Delays
  <2>2. CASE NoLink(o) \/ WriteFails(o)
    <3>1. faults' \in 0..MaxFaults
      BY <2>2, <1>0, <1>f DEF NoLink, WriteFails, ReconcilerTypeOK
    <3>2. ReturnError
      BY <2>2 DEF NoLink, WriteFails
    <3>3. QED BY <2>2, <3>1, <3>2, ReturnTyped
         DEF NoLink, WriteFails, ReconcilerTypeOK, server, caches, Delays
  <2>3. QED BY <1>12, <2>1, <2>2 DEF Ensure
<1>13. CASE UNCHANGED vars
  BY <1>13 DEF vars, server, caches, call, ReconcilerTypeOK
<1>14. QED
  BY <1>1, <1>2, <1>3, <1>4, <1>5, <1>6, <1>7, <1>8, <1>9, <1>10, <1>11, <1>12, <1>13
  DEF Next, Reconcile

\* Every reachable state of the controller is well typed: a call never runs past
\* the list of ensure steps, whatever fails or restarts.
THEOREM TypeCorrect == Spec => []ReconcilerTypeOK
<1>1. Spec => []TypeInv
  BY InitTypeInv, NextTypeInv, PTL DEF Spec
<1>2. TypeInv => ReconcilerTypeOK
  BY DEF TypeInv
<1>3. QED BY <1>1, <1>2, PTL

-----------------------------------------------------------------------------
(* The revision is recorded before it is used.                             *)

\* What exists, now or in a cache, was written for a recorded revision, and a call
\* that is past its first ensure step works for a recorded one.
RecordedInv ==
  /\ \A o \in Versioned : objects[o] \in recorded \cup {None} /\ seen[o] \in recorded \cup {None}
  /\ pos # 1 => inst.spec \in recorded

RevisionInv == TypeInv /\ RecordedInv

LEMMA NextRecorded == RevisionInv /\ [Next]_vars => RecordedInv'
<1> SUFFICES ASSUME RevisionInv, [Next]_vars PROVE RecordedInv'
  OBVIOUS
<1> USE DEF RevisionInv, RecordedInv
<1>t. TypeInv /\ ReconcilerTypeOK /\ (step # "ensure" => pos = 1)
  BY DEF TypeInv, AtStart
<1>v. Versioned \subseteq Objs /\ Order[1] = "revision"
      /\ "revision" \in Versioned /\ "revision" \notin Agents \cup Services
  BY ReconcilerAssumption
<1>1. CASE EditSpec \/ DeletePipeline \/ SyncPipeline \/ TimerFires \/ Resync
           \/ \E x \in {"filesystem", "agents"} : Install(x)
  BY <1>1 DEF EditSpec, DeletePipeline, SyncPipeline, TimerFires, Resync, Install,
              server, caches, call
<1>2. ASSUME NEW o \in Objs, Collect(o) \/ Damage(o) \/ Sync(o) PROVE RecordedInv'
  BY <1>2, <1>t, <1>v DEF Collect, Damage, Sync, ReconcilerTypeOK, server, caches, call
<1>3. CASE OperatorRestarts
  BY <1>3 DEF OperatorRestarts, server
<1>4. CASE TakeRequest \/ StatusIsCurrent \/ UpdateStatus
  BY <1>4, <1>t DEF TakeRequest, StatusIsCurrent, UpdateStatus, server, caches
<1>5. CASE ServicesFail \/ DomainFails \/ UpdateStatusFails
  BY <1>5 DEF ServicesFail, DomainFails, UpdateStatusFails, ReturnError, ReturnSilently,
              server, caches
<1>6. CASE ListFileSystems
  BY <1>6 DEF ListFileSystems, ReturnError, ReturnAfter, server, caches
<1>7. ASSUME NEW o \in Objs, Ensure(o) PROVE RecordedInv'
  <2>1. CASE Skip(o) \/ UpToDate(o)
    <3>1. step = "ensure" /\ o = Order[pos] /\ (Advance("soon") \/ Advance("none"))
      BY <2>1 DEF Skip, UpToDate, Wanted
    <3>2. inst.spec \in recorded
      <4>1. CASE pos # 1
        BY <4>1
      <4>2. CASE pos = 1
        <5>1. o = "revision" /\ UpToDate(o)
          BY <2>1, <3>1, <4>2, <1>v DEF Skip
        <5>2. seen["revision"] = inst.spec
          BY <5>1, <1>v DEF UpToDate, Differs, Want
        <5>3. inst.spec # None
          BY <1>t DEF ReconcilerTypeOK, Pipelines, Versions, None
        <5>4. QED BY <5>2, <5>3, <1>v
      <4>3. QED BY <4>1, <4>2
    <3>3. QED BY <2>1, <3>2 DEF Skip, UpToDate, server, caches
  <2>2. CASE Write(o)
    <3>1. o = Order[pos] /\ seen[o] = objects[o]
          /\ objects' = [objects EXCEPT ![o] = Want(o, inst.spec)]
          /\ recorded' = (IF o = "revision" THEN recorded \cup {inst.spec} ELSE recorded)
          /\ UNCHANGED <<seen, inst>>
      BY <2>2 DEF Write, Wanted, Accepted, caches
    <3>2. inst.spec \in recorded'
      BY <3>1, <1>v
    <3>3. \A p \in Versioned : objects'[p] \in recorded' \cup {None}
      BY <3>1, <3>2, <1>t, <1>v DEF ReconcilerTypeOK, Want
    <3>4. QED BY <3>1, <3>2, <3>3
  <2>3. CASE NoLink(o) \/ WriteFails(o)
    BY <2>3 DEF NoLink, WriteFails, ReturnError, server, caches
  <2>4. QED BY <1>7, <2>1, <2>2, <2>3 DEF Ensure
<1>8. CASE UNCHANGED vars
  BY <1>8 DEF vars, server, caches, call
<1>9. QED
  BY <1>1, <1>2, <1>3, <1>4, <1>5, <1>6, <1>7, <1>8 DEF Next, Reconcile

LEMMA InitRecorded == Init => RecordedInv
BY ReconcilerAssumption DEF Init, RecordedInv, Empty

\* However stale the caches are and wherever a call is interrupted, no object tells an
\* agent a revision that was not recorded.
THEOREM RevisionsAreRecorded == Spec => []RevisionRecordedFirst
<1>1. Init => RevisionInv
  BY InitTypeInv, InitRecorded DEF RevisionInv
<1>2. RevisionInv /\ [Next]_vars => RevisionInv'
  BY NextTypeInv, NextRecorded DEF RevisionInv
<1>3. RevisionInv => RevisionRecordedFirst
  BY DEF RevisionInv, RecordedInv, RevisionRecordedFirst
<1>4. QED BY <1>1, <1>2, <1>3, PTL DEF Spec

-----------------------------------------------------------------------------
(* Nothing goes back.                                                      *)

\* What a call works with is never newer than the cache, nor the cache than the
\* Pipeline, and no object is newer than what the last call worked with.
AgeInv ==
  /\ inst.spec <= cached.spec /\ cached.spec <= pipeline.spec
  /\ \A o \in Objs : objects[o] <= Want(o, inst.spec)

ForwardInv == TypeInv /\ AgeInv

\* Objects are written for newer and newer specifications.
Forward ==
  /\ pipeline'.spec >= pipeline.spec
  /\ \A o \in Objs : objects[o] # None /\ objects'[o] # None => objects'[o] >= objects[o]

LEMMA NextForward == ForwardInv /\ [Next]_vars => AgeInv' /\ Forward
<1> SUFFICES ASSUME ForwardInv, [Next]_vars PROVE AgeInv' /\ Forward
  OBVIOUS
<1>t. ReconcilerTypeOK
  BY DEF ForwardInv, TypeInv
<1>s. /\ pipeline.spec \in Int /\ cached.spec \in Int /\ inst.spec \in Int
      /\ 0 <= inst.spec /\ 0 <= cached.spec
      /\ \A o \in Objs : objects[o] \in Int
  BY <1>t, ReconcilerAssumption DEF ReconcilerTypeOK, Pipelines, Versions, None
<1>w. \A o \in Objs : \A v \in Int : Want(o, v) \in Int
  BY DEF Want
<1>a. AgeInv
  BY DEF ForwardInv
<1>same. ASSUME UNCHANGED <<pipeline, objects>> PROVE Forward
  BY <1>same, <1>s DEF Forward
<1>1. CASE EditSpec
  <2>1. pipeline'.spec = pipeline.spec + 1
    BY <1>1, <1>t DEF EditSpec, ReconcilerTypeOK, Pipelines
  <2>2. QED BY <1>1, <2>1, <1>a, <1>s DEF EditSpec, AgeInv, Forward, caches, call
<1>2. CASE DeletePipeline
  <2>1. pipeline'.spec = pipeline.spec
    BY <1>2, <1>t DEF DeletePipeline, ReconcilerTypeOK, Pipelines
  <2>2. QED BY <1>2, <2>1, <1>a, <1>s DEF DeletePipeline, AgeInv, Forward, caches, call
<1>3. ASSUME NEW o \in Objs, Collect(o) \/ Damage(o) \/ Sync(o) PROVE AgeInv' /\ Forward
  <2>1. UNCHANGED <<pipeline, cached, inst>>
    BY <1>3 DEF Collect, Damage, Sync, server, caches, call
  <2>2. objects' = objects \/ objects' = [objects EXCEPT ![o] = None]
    BY <1>3 DEF Collect, Damage, Sync, server
  <2>3. \A p \in Objs : objects'[p] = objects[p] \/ objects'[p] = None
    BY <2>2, <1>t DEF ReconcilerTypeOK
  <2>4. \A p \in Objs : None <= Want(p, inst.spec)
    BY <1>s DEF Want, None
  <2>5. AgeInv'
    BY <2>1, <2>3, <2>4, <1>a DEF AgeInv
  <2>6. Forward
    BY <2>1, <2>3, <1>s DEF Forward
  <2>7. QED BY <2>5, <2>6
<1>4. CASE TimerFires \/ Resync \/ \E x \in {"filesystem", "agents"} : Install(x)
  BY <1>4, <1>a, <1>same DEF TimerFires, Resync, Install, AgeInv, server, caches, call
<1>5. CASE SyncPipeline \/ OperatorRestarts
  <2>1. UNCHANGED <<pipeline, objects, inst>> /\ cached' = pipeline
    BY <1>5 DEF SyncPipeline, OperatorRestarts, server, caches, call
  <2>2. QED BY <2>1, <1>a, <1>s, <1>same DEF AgeInv
<1>6. CASE TakeRequest
  <2>1. UNCHANGED <<pipeline, objects, cached>> /\ inst' = cached
    BY <1>6 DEF TakeRequest, server, caches
  <2>2. \A o \in Objs : Want(o, inst.spec) <= Want(o, cached.spec)
    BY <1>a, <1>s DEF AgeInv, Want
  <2>3. \A o \in Objs : objects[o] <= Want(o, cached.spec)
    BY <2>2, <1>a, <1>s, <1>w DEF AgeInv
  <2>4. QED BY <2>1, <2>3, <1>a, <1>s, <1>same DEF AgeInv
<1>7. CASE UpdateStatus
  <2>1. UNCHANGED <<objects, cached>> /\ inst' = pipeline' /\ pipeline = inst
    BY <1>7 DEF UpdateStatus, caches
  <2>2. pipeline'.spec = pipeline.spec
    BY <1>7, <1>t DEF UpdateStatus, ReconcilerTypeOK, Pipelines
  <2>3. QED BY <2>1, <2>2, <1>a, <1>s DEF AgeInv, Forward
<1>8. CASE StatusIsCurrent \/ ServicesFail \/ DomainFails \/ UpdateStatusFails \/ ListFileSystems
  <2>1. UNCHANGED <<pipeline, objects, cached, inst>>
    BY <1>8 DEF StatusIsCurrent, ServicesFail, DomainFails, UpdateStatusFails,
                ListFileSystems, server, caches
  <2>2. QED BY <2>1, <1>a, <1>same DEF AgeInv
<1>9. ASSUME NEW o \in Objs, Ensure(o) PROVE AgeInv' /\ Forward
  <2>1. UNCHANGED <<pipeline, cached, inst>>
    BY <1>9 DEF Ensure, Skip, NoLink, UpToDate, Write, WriteFails, server, caches
  <2>2. objects' = objects \/ objects' = [objects EXCEPT ![o] = Want(o, inst.spec)]
    BY <1>9 DEF Ensure, Skip, NoLink, UpToDate, Write, WriteFails, server
  <2>3. \A p \in Objs : objects'[p] = objects[p] \/ objects'[p] = Want(p, inst.spec)
    BY <2>2, <1>t DEF ReconcilerTypeOK
  <2>4. AgeInv'
    BY <2>1, <2>3, <1>a, <1>s, <1>w DEF AgeInv
  <2>5. Forward
    BY <2>1, <2>3, <1>a, <1>s, <1>w DEF AgeInv, Forward
  <2>6. QED BY <2>4, <2>5
<1>10. CASE UNCHANGED vars
  BY <1>10, <1>a, <1>same DEF vars, server, caches, call, AgeInv
<1>11. QED
  BY <1>1, <1>2, <1>3, <1>4, <1>5, <1>6, <1>7, <1>8, <1>9, <1>10 DEF Next, Reconcile

LEMMA InitAge == Init => AgeInv
<1> SUFFICES ASSUME Init PROVE AgeInv
  OBVIOUS
<1>0. pipeline.spec \in Versions
  BY InitTypeInv DEF TypeInv, ReconcilerTypeOK, Pipelines
<1>1. pipeline.spec \in Nat /\ cached = pipeline /\ inst = pipeline
  BY <1>0, ReconcilerAssumption DEF Init, Versions
<1>2. \A o \in Objs : Want(o, inst.spec) \in Nat /\ objects[o] = -1
  BY <1>1 DEF Init, Empty, None, Want
<1>3. QED BY <1>1, <1>2 DEF AgeInv

\* The controller never undoes an edit and never writes an object for an older
\* specification than the one it was written for.
THEOREM NothingGoesBack == Spec => NoGoingBack
<1>1. Init => ForwardInv
  BY InitTypeInv, InitAge DEF ForwardInv
<1>2. ForwardInv /\ [Next]_vars => ForwardInv'
  BY NextTypeInv, NextForward DEF ForwardInv
<1>3. ForwardInv /\ [Next]_vars => [Forward]_vars
  BY NextForward
<1>4. QED BY <1>1, <1>2, <1>3, PTL DEF Spec, NoGoingBack, Forward

-----------------------------------------------------------------------------
(* The controller stays awake.                                             *)

\* Something will lead to a call, or is one, or none is needed for what the cache shows.
AwakeInv ==
  \/ step # "idle" \/ queued \/ timer # "none" \/ silent
  \/ ~cached.exists \/ cached.spec \in InvalidSpecs

LEMMA NextAwake == TypeInv /\ AwakeInv /\ [Next]_vars => AwakeInv'
<1> SUFFICES ASSUME TypeInv, AwakeInv, [Next]_vars PROVE AwakeInv'
  OBVIOUS
<1> USE DEF AwakeInv
<1>t. ReconcilerTypeOK
  BY DEF TypeInv
<1>d. "none" \notin Delays
  BY DEF Delays
<1>1. CASE EditSpec \/ DeletePipeline \/ \E x \in {"filesystem", "agents"} : Install(x)
  BY <1>1 DEF EditSpec, DeletePipeline, Install, caches, call
<1>2. ASSUME NEW o \in Objs, Collect(o) \/ Damage(o) \/ Sync(o) PROVE AwakeInv'
  BY <1>2 DEF Collect, Damage, Sync, server, caches, call
<1>3. CASE SyncPipeline \/ TimerFires \/ Resync \/ OperatorRestarts
  BY <1>3 DEF SyncPipeline, TimerFires, Resync, OperatorRestarts, server, caches, call
<1>4. CASE TakeRequest \/ StatusIsCurrent \/ UpdateStatus
  BY <1>4 DEF TakeRequest, StatusIsCurrent, UpdateStatus, server, caches
<1>5. CASE ServicesFail \/ DomainFails \/ UpdateStatusFails
  BY <1>5 DEF ServicesFail, DomainFails, UpdateStatusFails, ReturnError, ReturnSilently
<1>6. CASE ListFileSystems
  <2>1. Merge(timer, "soon") \in Delays
    BY <1>t, MergeDelays DEF ReconcilerTypeOK, Delays
  <2>2. QED BY <1>6, <2>1, <1>d DEF ListFileSystems, ReturnError, ReturnAfter
<1>7. ASSUME NEW o \in Objs, Ensure(o) PROVE AwakeInv'
  <2>1. CASE Skip(o) \/ UpToDate(o) \/ Write(o)
    <3>1. step = "ensure" /\ (Advance("soon") \/ Advance("none"))
      BY <2>1 DEF Skip, UpToDate, Write, Wanted
    <3>2. QED BY <3>1, <1>d, AdvanceCases
  <2>2. CASE NoLink(o) \/ WriteFails(o)
    BY <2>2 DEF NoLink, WriteFails, ReturnError
  <2>3. QED BY <1>7, <2>1, <2>2 DEF Ensure
<1>8. CASE UNCHANGED vars
  BY <1>8 DEF vars, caches, call
<1>9. QED
  BY <1>1, <1>2, <1>3, <1>4, <1>5, <1>6, <1>7, <1>8 DEF Next, Reconcile

\* Whatever fails, the controller is called again, unless it swallowed an error.
THEOREM NeverAsleep == Spec => []StaysAwake
<1>1. Init => TypeInv /\ AwakeInv
  BY InitTypeInv DEF Init, AwakeInv
<1>2. TypeInv /\ AwakeInv /\ [Next]_vars => (TypeInv /\ AwakeInv)'
  BY NextTypeInv, NextAwake
<1>3. TypeInv /\ AwakeInv => StaysAwake
  BY DEF AwakeInv, StaysAwake
<1>4. QED BY <1>1, <1>2, <1>3, PTL DEF Spec

=============================================================================
